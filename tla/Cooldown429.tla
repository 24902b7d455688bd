----------------------------- MODULE Cooldown429 ----------------------------
(***************************************************************************)
(* The per-key 429 cooldown of cooldown429.rs, which backs the CF-Worker   *)
(* (429 and 503) and CF-proxy cooldowns.  Every method holds the map's     *)
(* mutex from end to end and is one step.  A lapsed entry stays in the map *)
(* with its strikes; remaining() drops it when it finds it quiet.          *)
(*                                                                         *)
(* NextDelayUncapped and MarkedUnlessAsked of Backoff and PrunedOnceLapsed *)
(* are faulty variants of the definitions they precede.                    *)
(***************************************************************************)
EXTENDS Backoff

CONSTANTS
    Keys,          \* normalised host names
    RetryAfters    \* bound: Retry-After values in ticks, 0 for none

ASSUME RetryAssumption == RetryAfters \subseteq Nat

VARIABLES
    map,           \* inner: the entry of each key
    granted,       \* history: the longest backoff granted since the key was
                   \* last forgiven or quiet for a window
    heard          \* history: what the key answered last, "ok" or "429"

vars == <<map, granted, heard>>

TypeOK ==
    /\ map \in [Keys -> Entries \cup {None}]
    /\ granted \in [Keys -> 0 .. MaxDelay]
    /\ heard \in [Keys -> {"ok", "429"}]

Init ==
    /\ map = [k \in Keys |-> None]
    /\ granted = [k \in Keys |-> 0]
    /\ heard = [k \in Keys |-> "ok"]

\* remaining(): the entry as it leaves it in the map.
PrunedOnceLapsed(e) == IF e # None /\ e.left <= 0 THEN None ELSE e
Pruned(e) == IF e # None /\ e.left <= 0 /\ Quiet(e) THEN None ELSE e

Remaining(k) ==
    /\ map' = [map EXCEPT ![k] = Pruned(@)]
    /\ UNCHANGED <<granted, heard>>

\* mark_for().
MarkFor(k, retryAfter) ==
    /\ map' = [map EXCEPT ![k] = Marked(@, retryAfter)]
    /\ granted' = IF retryAfter = 0
                  THEN [granted EXCEPT ![k] = NextDelay(map[k], 0)]
                  ELSE granted
    /\ heard' = [heard EXCEPT ![k] = "429"]

Clear(k) ==
    /\ map' = [map EXCEPT ![k] = None]
    /\ granted' = [granted EXCEPT ![k] = 0]
    /\ heard' = [heard EXCEPT ![k] = "ok"]

\* The clock.
Tick ==
    /\ map' = [k \in Keys |-> Aged(map[k])]
    /\ granted' = [k \in Keys |-> IF map[k] = None \/ Quiet(Aged(map[k])) THEN 0
                                  ELSE granted[k]]
    /\ UNCHANGED heard

Next ==
    \/ \E k \in Keys :
          \/ Remaining(k)
          \/ \E r \in RetryAfters : MarkFor(k, r)
          \/ Clear(k)
    \/ Tick

Spec == Init /\ [][Next]_vars

-----------------------------------------------------------------------------
(***************************************************************************)
(* "a key that keeps earning 429s backs off further each time": as long as *)
(* the key is neither forgiven nor quiet for a window, a 429 without       *)
(* Retry-After cools it for twice the backoff it was last given, or for    *)
(* MaxDelay -- however often it was asked about in between, whether or not *)
(* the cooldown lapsed, and whatever Retry-Afters came in between.         *)
(***************************************************************************)
Escalates ==
    [][\A k \in Keys : MarkFor(k, 0) /\ granted[k] > 0 =>
          map'[k].left >= Least(2 * granted[k], MaxDelay)]_vars

\* What the map stands for: quiet entries are as good as forgotten.
Memory == [k \in Keys |-> IF map[k] # None /\ Quiet(map[k]) THEN None ELSE map[k]]

Abstract == INSTANCE BackoffMemory WITH memory <- Memory

(***************************************************************************)
(* When remaining() happens to be called, and therefore when an entry is   *)
(* dropped from the map, has no effect on any later answer: the map is a   *)
(* memory that forgets exactly at the end of the quiet window.             *)
(***************************************************************************)
ImplementsMemory == Abstract!Spec
=============================================================================
