\* One slot of two connections, refilled by the loop, the warm-up and a top-up.
SPECIFICATION Spec
CONSTANTS
    Keys = {plain}
    Served = {plain}
    Seeds = {plain}
    Size = 2
    Ttl = 0
    IdleAfter = 0
    Conns = {c1, c2, c3}
    Sessions = {s1, s2}
    OneOffs = {o1}
    Loop = Loop
    Warm = Warm
    NoKey = NoKey
SYMMETRY Symmetry
INVARIANTS
    TypeOK
    Capacity
    OneOwner
    NoLeak
PROPERTIES
    FreshLease
    ImplementsLifecycle
