\* The documented precedence of the operator's domains.
SPECIFICATION PoolSpec
CONSTANTS
    x1 = x1
    x2 = x2
    x3 = x3
    None = None
    Pools <- AllPools
    Defaults <- BuiltIn
    Fetches <- Lists
    MinValid = 3
    Configs <- Written
    Longest = 3
    Attempts = 2
    DCs = {2}
    Sessions = {s1}
INVARIANT OwnDomainsStand
