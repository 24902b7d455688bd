\* Two addresses, one of them the operator's; reloads, restarts, failed writes.
SPECIFICATION Spec
CONSTANTS
    Ips = {a, b}
    DcIds = {d1, d2}
    Learners = {l1, l2}
    Writers = {w1, w2}
    MaxWrites = 2
    Editable = {a}
    Newline = Newline
    None = None
SYMMETRY Interchangeable
INVARIANTS
    TypeOK
    OperatorWins
    OneLinePerLoad
    NoForeignDc
