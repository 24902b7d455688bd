\* One slot of one connection; fair tasks.
SPECIFICATION FairSpec
CONSTANTS
    Keys = {plain}
    Served = {plain}
    Seeds = {plain}
    Size = 1
    Ttl = 0
    IdleAfter = 0
    Conns = {c1, c2, c3}
    Sessions = {s1}
    OneOffs = {o1}
    Loop = Loop
    Warm = Warm
    NoKey = NoKey
PROPERTIES
    SweepFinishes
    ExpiredReaped
    DemandIsWarmed
