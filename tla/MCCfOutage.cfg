\* Three to five domains, two attempts, two sessions of one DC, no answer.
SPECIFICATION OutageSpec
CONSTANTS
    x1 = x1
    x2 = x2
    x3 = x3
    x4 = x4
    x5 = x5
    None = None
    Pools <- ThreeToFive
    Longest = 5
    Attempts = 2
    DCs = {2}
    Sessions = {s1, s2}
INVARIANT StartsElsewhere
PROPERTY ComesRound
