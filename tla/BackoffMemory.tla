---------------------------- MODULE BackoffMemory ---------------------------
(***************************************************************************)
(* What a 429 cooldown promises: per key it remembers the strikes and the  *)
(* end of the cooldown until the key has been quiet for MaxDelay ticks     *)
(* after it, and forgets them at that moment and not before.  Reading is   *)
(* free: it never changes what is remembered.                              *)
(***************************************************************************)
EXTENDS Backoff

CONSTANTS Keys, RetryAfters

VARIABLES
    memory,     \* the entry of each key, None once it is forgotten
    heard       \* what the key answered last: "ok" or "429"

vars == <<memory, heard>>

Init == memory = [k \in Keys |-> None] /\ heard = [k \in Keys |-> "ok"]

\* The key answered 429.
Strike(k, retryAfter) ==
    /\ memory' = [memory EXCEPT ![k] = Marked(memory[k], retryAfter)]
    /\ heard' = [heard EXCEPT ![k] = "429"]

\* The key answered normally.
Forgive(k) ==
    /\ memory' = [memory EXCEPT ![k] = None]
    /\ heard' = [heard EXCEPT ![k] = "ok"]

Pass ==
    /\ memory' = [k \in Keys |-> Remembered(memory[k])]
    /\ UNCHANGED heard

Next ==
    \/ \E k \in Keys : (\E r \in RetryAfters : Strike(k, r)) \/ Forgive(k)
    \/ Pass

Spec == Init /\ [][Next]_vars
=============================================================================
