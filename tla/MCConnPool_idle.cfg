\* The documented retirement of idle slots.
SPECIFICATION Spec
CONSTANTS
    Keys = {plain}
    Served = {plain}
    Seeds = {}
    Size = 1
    Ttl = 0
    IdleAfter = 0
    Conns = {c1, c2}
    Sessions = {s1}
    OneOffs = {o1}
    Loop = Loop
    Warm = Warm
    NoKey = NoKey
PROPERTY IdleSlotRetires
