\* Two siblings, two dialers; the clock runs.
SPECIFICATION FairSpec
CONSTANTS
    s1 = s1
    s2 = s2
    acct = acct
    None = None
    Workers <- Siblings
    Account <- SameAccount
    Base = 1
    MaxDelay = 2
    RetryAfters = {0}
    Dialers = {d1, d2}
INVARIANT TypeOK
PROPERTIES
    NewcomersSpareIt
    StrikesRunOut
    CooldownsEnd
