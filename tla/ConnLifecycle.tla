--------------------------- MODULE ConnLifecycle ---------------------------
(***************************************************************************)
(* What a connection pool promises about each connection: it is dialled,   *)
(* then offered in one slot or discarded, an offered one is leased to one  *)
(* session or retired, and whatever left the pool is closed.  A slot never *)
(* offers more than Size connections.                                      *)
(***************************************************************************)
EXTENDS Naturals, FiniteSets

CONSTANTS Conns, Keys, Size, None

VARIABLES stage, slot

Stages == {"closed", "dialled", "offered", "leased", "closing"}

\* The only ways a connection moves on.
Arcs == {<<"closed", "dialled">>, <<"dialled", "offered">>,
         <<"dialled", "closing">>, <<"offered", "leased">>,
         <<"offered", "closing">>, <<"leased", "closed">>,
         <<"closing", "closed">>}

Offered(k) == {c \in Conns : stage[c] = "offered" /\ slot[c] = k}

WithinSize == \A k \in Keys : Cardinality(Offered(k)) <= Size

Moves(c) == <<stage[c], stage'[c]>> \in Arcs

\* A connection offered before and after a step stays in its slot.
KeepsSlot(c) ==
    stage[c] = "offered" /\ stage'[c] = "offered" => slot'[c] = slot[c]

LeasesOne ==
    \A c, d \in Conns :
        /\ stage[c] # "leased" /\ stage'[c] = "leased"
        /\ stage[d] # "leased" /\ stage'[d] = "leased"
        => c = d

Init ==
    /\ stage = [c \in Conns |-> "closed"]
    /\ slot = [c \in Conns |-> None]

Next ==
    /\ stage' \in [Conns -> Stages]
    /\ slot' \in [Conns -> Keys \cup {None}]
    /\ \A c \in Conns : stage'[c] = stage[c] \/ Moves(c)
    /\ \A c \in Conns : KeepsSlot(c)
    /\ LeasesOne
    /\ WithinSize'

Spec == Init /\ [][Next]_<<stage, slot>>
=============================================================================
