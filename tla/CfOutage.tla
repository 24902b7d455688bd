------------------------------ MODULE CfOutage -----------------------------
(***************************************************************************)
(* CfBalancer while no CF-proxy domain answers: the pool stays as it is,   *)
(* every session gives up on its window, and clients keep coming back.     *)
(***************************************************************************)
EXTENDS CfBalancer

VARIABLES
    failed,   \* history: what the DC's last session watched fail, and nothing
              \* since other sessions of the DC were under way beside it
    alone     \* history: the sessions that had their DC to themselves throughout

outageVars == <<vars, failed, alone>>

\* It begins with the cursors and sticky domains a calm time may have left, also
\* such as an earlier pool has left behind.
OutageInit ==
    /\ pool \in Pools
    /\ cursor \in [DCs -> 0 .. Longest - 1]
    /\ sticky \in [DCs -> Domains \cup {None}]
    /\ rr = Cardinality(DCs)
    /\ NoSession
    /\ failed = [d \in DCs |-> {}]
    /\ alone = {}

\* The sessions of DC d under way beside s.
Others(s, d) == {t \in Sessions \ {s} : pc[t] # "idle" /\ dc[t] = d}

Fails(s) ==
    /\ DropSticky(s)
    /\ failed' = [failed EXCEPT ![dc[s]] = IF s \in alone THEN Range(Window(s)) ELSE {}]
    /\ UNCHANGED alone

Moves(s) ==
    /\ ReadSticky(s) \/ Order(s) \/ MeasurePool(s) \/ Advance(s)
    /\ UNCHANGED <<failed, alone>>

Returns(s, d) ==
    /\ ReadPool(s, d)
    /\ IF Others(s, d) = {}
       THEN alone' = alone \cup {s} /\ UNCHANGED failed
       ELSE /\ alone' = alone \ (Others(s, d) \cup {s})
            /\ failed' = [failed EXCEPT ![d] = {}]

Outage ==
    \E s \in Sessions : Fails(s) \/ Moves(s) \/ \E d \in DCs : Returns(s, d)

\* A session under way is a running task; clients of each DC keep coming.
OutageSpec ==
    /\ OutageInit /\ [][Outage]_outageVars
    /\ \A s \in Sessions :
          /\ WF_outageVars(Fails(s) \/ Moves(s))
          /\ \A d \in DCs : SF_outageVars(Returns(s, d))

-----------------------------------------------------------------------------
Tried(d, x) ==
    \E s \in Sessions : pc[s] = "dial" /\ dc[s] = d /\ x \in Range(Window(s))

Overlap(d) == \E s \in Sessions : pc[s] # "idle" /\ dc[s] = d /\ Others(s, d) # {}

(***************************************************************************)
(* "the cursor simply comes round to these domains again later": during an *)
(* outage every domain of the pool is dialled again and again for a DC     *)
(* whose sessions, from some time on, come one after the other, whatever   *)
(* sessions of other DCs do meanwhile.                                     *)
(*                                                                         *)
(* Sessions of one DC that keep overlapping may pass over domains for      *)
(* good, and the comment that calls the overshoot "harmless modulo pool    *)
(* size" is wrong of them: two that order before either advances move the  *)
(* cursor by two windows.  In a pool of at least two windows that can go   *)
(* on for ever past a domain x: one window further while that leaves x     *)
(* out, and otherwise two, which come round to just behind x.  The         *)
(* condition is what leaves such schedules out.                            *)
(***************************************************************************)
ComesRound ==
    \A d \in DCs : \A x \in Domains :
        <>[]~Overlap(d) => []<>(x \in Range(pool) => Tried(d, x))

(***************************************************************************)
(* "the next session starts on domains this DC has not just watched fail", *)
(* if there are any: by the cursor, which moves past the whole window, and *)
(* by the sticky domain, which is forgotten with it.  The session that     *)
(* failed and the next one have the DC to themselves; other sessions may   *)
(* have overlapped before, and those of other DCs do meanwhile.  A pool of *)
(* just one domain more than a session dials is left out: a sticky domain  *)
(* the window did not come to by itself, which a new pool may leave        *)
(* behind, takes a place of it, and the cursor that then meets it steps on *)
(* to the first that failed.                                               *)
(***************************************************************************)
StartsElsewhere ==
    Len(pool) # Attempts + 1 =>
    \A s \in alone :
        pc[s] = "dial" /\ Range(list[s]) \ failed[dc[s]] # {} =>
            list[s][1] \notin failed[dc[s]]
=============================================================================
