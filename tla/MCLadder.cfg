\* Two sessions of two slots behind the stock front, one target per DC and an
\* alternative address for media.  No decision reads DC_FAIL, so its mark
\* ends at once.
SPECIFICATION Spec
CONSTANTS
    front = front
    alt = alt
    NoIp = NoIp
    Sessions = {s1, s2}
    Slots <- Clients
    Origs = {alt}
    FrontOf <- Fronts
    DefaultOf <- Defaults
    StockFront = front
    Alt <- Known
    DomainCount = 2
    IpTtl = 2
    DcTtl = 0
    FrontTtl = 1
    BlackTtl = 1
SYMMETRY Symmetry
INVARIANTS
    TypeOK
    HeldNoLonger
    BlockedPathIsSpared
PROPERTIES
    BlacklistIsEarned
