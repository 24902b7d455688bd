\* Two permits; a client that sends five pieces to an init buffer of four, and
\* two that send none; two faults of the listener.
SPECIFICATION Spec
CONSTANTS
    talker = talker
    visitor = visitor
    caller = caller
    Clients = {talker, visitor, caller}
    Cap = 2
    RebindAfter = 2
    FirstBackoff = 1
    MaxBackoff = 2
    HandshakeLen = 2
    InitMax = 4
    StreamsOf <- StreamsHere
    SentBy <- Sent
    MaxFaults = 2
INVARIANTS
    TypeOK
    EveryByteOnce
PROPERTIES
    EveryClientIsServed
