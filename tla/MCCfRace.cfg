\* A primary and a race of two, against a media session on two of its domains;
\* two slots; a backoff of 1 or 2 ticks, a Retry-After
\* of none or more than the maximum.
SPECIFICATION RaceSpec
CONSTANTS
    x1 = x1
    x2 = x2
    x3 = x3
    plain = plain
    media = media
    None = None
    Keys = {x1, x2, x3}
    Base = 1
    MaxDelay = 2
    RetryAfters = {0, 3}
    Sessions = {plain, media}
    WindowOf <- Windows
    HostsOf <- Hosts
    Slots = 2
    Limited = {x2, x3}
INVARIANTS
    RaceTypeOK
    NothingLeaks
    CoolingAreSpared
PROPERTIES
    Escalates
    ImplementsMemory
