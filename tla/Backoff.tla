------------------------------- MODULE Backoff ------------------------------
(***************************************************************************)
(* One entry of a Cooldown429 map (cooldown429.rs): until when a key is    *)
(* rate-limited, and how far its backoff has come.                         *)
(*                                                                         *)
(* `until` is kept relative to the clock: left > 0 is the time still to    *)
(* wait, left <= 0 minus the time since the cooldown lapsed, saturated one *)
(* past MaxDelay, the only lapse the code distinguishes.  `strikes` is     *)
(* kept as the delay it earns: next is the base doubled once per strike    *)
(* and capped, so the loop of next_delay() is one doubling per mark.       *)
(***************************************************************************)
EXTENDS Integers

CONSTANTS
    Base,         \* (self.base)() in ticks
    MaxDelay,     \* (self.max)() in ticks
    None

ASSUME BackoffAssumption ==
    /\ Base \in Nat \ {0}
    /\ MaxDelay \in Nat \ {0}

Entries == [left : -(MaxDelay + 1) .. MaxDelay, next : 1 .. MaxDelay]

ASSUME NoneIsNoEntry == None \notin Entries

Least(a, b) == IF a <= b THEN a ELSE b

\* Time left on the cooldown of an entry, as remaining() answers it.
TimeLeft(e) == IF e = None \/ e.left <= 0 THEN 0 ELSE e.left

\* u.elapsed() > max: nothing was heard of the key for a whole window.
Quiet(e) == e.left < -MaxDelay

\* The backoff of a key that answers 429 now.
OwnDelay(e) == IF e = None \/ Quiet(e) THEN Least(Base, MaxDelay) ELSE e.next

\* next_delay(): an explicit Retry-After wins, both are capped.
NextDelayUncapped(e, retryAfter) ==
    IF retryAfter > 0 THEN retryAfter ELSE OwnDelay(e)
NextDelay(e, retryAfter) ==
    IF retryAfter > 0 THEN Least(retryAfter, MaxDelay) ELSE OwnDelay(e)

\* What mark_for() leaves behind: a Retry-After counts as a strike too.
MarkedUnlessAsked(e, retryAfter) ==
    [left |-> NextDelay(e, retryAfter),
     next |-> IF retryAfter > 0 THEN Least(Base, MaxDelay)
              ELSE Least(2 * OwnDelay(e), MaxDelay)]
MarkedUncapped(e, retryAfter) ==
    [left |-> NextDelay(e, retryAfter), next |-> 2 * OwnDelay(e)]
Marked(e, retryAfter) ==
    [left |-> NextDelay(e, retryAfter),
     next |-> Least(2 * OwnDelay(e), MaxDelay)]

\* One tick later.
Aged(e) ==
    IF e = None THEN None
    ELSE [e EXCEPT !.left = IF Quiet(e) THEN @ ELSE @ - 1]

\* One tick later, for a memory that forgets at the end of the quiet window.
Remembered(e) == IF e = None \/ Quiet(Aged(e)) THEN None ELSE Aged(e)
=============================================================================
