------------------------------ MODULE ConnPool ------------------------------
(***************************************************************************)
(* The pre-established WebSocket pool of conn_pool.rs, the one type behind *)
(* the direct pool (ws_pool.rs) and the Cloudflare-Worker pool             *)
(* (cf_worker_pool.rs).                                                    *)
(*                                                                         *)
(* A slot (dc, is_media) keeps ready connections.  Sessions take one out   *)
(* (acquire) and, when they end, may spawn a one-off top-up                *)
(* (schedule_refill).  The background loop sweeps all slots                *)
(* (start_refill_task) and the start-up task fills the seeds (warmup).     *)
(* Everything under the slots mutex is one step; every await outside it is *)
(* a point where the other tasks run.                                      *)
(*                                                                         *)
(* Abstractions.  An Instant is represented by its elapsed() in ticks,     *)
(* saturated one past the only threshold it is compared with.  A slot's    *)
(* Vec is pushed at the end and stamped at the push, so it is in age       *)
(* order: it is the set of its connections with their ages, and pop()      *)
(* takes a youngest one.  Connection identities are recycled once closed.  *)
(* Where a task stands is read off its local variables: it awaits a close  *)
(* while `closing` is not empty, holds a dialled socket while `hand` is    *)
(* not empty, dials while `need` is positive, and otherwise turns to the   *)
(* next slot of `todo`.                                                    *)
(*                                                                         *)
(* An operator whose name says how it departs from the one below it        *)
(* (FullOneLate, LeftPeeked, ...) is a mutation: no action uses it, it is  *)
(* there to show that the properties can fail.                             *)
(***************************************************************************)
EXTENDS Naturals, FiniteSets

CONSTANTS
    Keys,        \* the slots (dc, is_media)
    Served,      \* the slots this pool serves: all, or the non-media ones
    Seeds,       \* the slots seeds() nominates for the warm-up
    Size,        \* size(): connections kept per slot
    Ttl,         \* ttl() in ticks
    IdleAfter,   \* SLOT_IDLE_AFTER in ticks
    Conns,       \* connection identities
    Sessions,    \* bound: client sessions at a time
    OneOffs,     \* bound: scheduled top-ups at a time
    Loop,        \* the background refill task
    Warm,        \* the start-up warm-up task
    NoKey

Tasks == OneOffs \cup {Loop, Warm}
Procs == Tasks \cup Sessions

ASSUME PoolAssumption ==
    /\ Served \subseteq Keys /\ Seeds \subseteq Served /\ NoKey \notin Keys
    /\ Size \in Nat \ {0} /\ Ttl \in Nat /\ IdleAfter \in Nat
    /\ IsFiniteSet(Conns)
    /\ Loop \notin OneOffs /\ Warm \notin OneOffs /\ Loop # Warm
    /\ Tasks \cap Sessions = {}

VARIABLES
    enabled,     \* enabled(): some backend is configured (changes on reload)
    slots,       \* keys present in the slots map
    pool,        \* pool[k]: the connections of slot k
    age,         \* age[c]: created.elapsed() of a pooled connection
    idle,        \* idle[k]: last_used.elapsed() of slot k
    live,        \* connections open towards the backend
    todo,        \* todo[t]: slots task t still has to refill
    key,         \* key[p]: slot the task or session p works on
    need,        \* need[t]: dials left in the current refill of t
    hand,        \* hand[p]: connection p holds: just dialled, or acquired
    closing,     \* closing[p]: connections p took out to close
    unasked      \* history: ticks since a session last used slot k

vars == <<enabled, slots, pool, age, idle, live, todo, key, need, hand,
          closing, unasked>>

TypeOK ==
    /\ enabled \in BOOLEAN
    /\ slots \subseteq Served
    /\ pool \in [Keys -> SUBSET Conns]
    /\ age \in [Conns -> 0 .. Ttl + 1]
    /\ idle \in [Keys -> 0 .. IdleAfter + 1]
    /\ live \subseteq Conns
    /\ todo \in [Tasks -> SUBSET Served]
    /\ key \in [Procs -> Served \cup {NoKey}]
    /\ need \in [Tasks -> 0 .. Size]
    /\ hand \in [Procs -> SUBSET Conns]
    /\ closing \in [Procs -> SUBSET Conns]
    /\ unasked \in [Keys -> 0 .. IdleAfter + 1]

(***************************************************************************)
(* take_expired: the entries of slot k older than the ttl, and the rest.   *)
(***************************************************************************)
ExpiredLate(k) == {c \in pool[k] : age[c] > Ttl + 1}
Expired(k) == {c \in pool[k] : age[c] > Ttl}
Fresh(k) == pool[k] \ Expired(k)

Youngest(S) == {c \in S : \A d \in S : age[c] <= age[d]}

Pooled(c) == \E k \in Keys : c \in pool[k]

Monus(a, b) == IF a > b THEN a - b ELSE 0

(***************************************************************************)
(* The map starts empty; main() calls warmup() once, which spawns the      *)
(* warm-up task only if a backend is configured.                           *)
(***************************************************************************)
Init ==
    /\ enabled \in BOOLEAN
    /\ slots = {}
    /\ pool = [k \in Keys |-> {}]
    /\ age = [c \in Conns |-> 0]
    /\ idle = [k \in Keys |-> 0]
    /\ live = {}
    /\ todo = [t \in Tasks |-> IF t = Warm /\ enabled THEN Seeds ELSE {}]
    /\ key = [p \in Procs |-> NoKey]
    /\ need = [t \in Tasks |-> 0]
    /\ hand = [p \in Procs |-> {}]
    /\ closing = [p \in Procs |-> {}]
    /\ unasked = [k \in Keys |-> 0]

-----------------------------------------------------------------------------
\* A task is between two refills: nothing in hand, to dial or to close.
Ready(t) == closing[t] = {} /\ hand[t] = {} /\ need[t] = 0

(***************************************************************************)
(* One turn of the background loop: active_slots() reaps every slot and    *)
(* selects those whose last_used is recent; nothing happens, not even the  *)
(* reaping, while no backend is configured.                                *)
(***************************************************************************)
ActiveSlots == {k \in slots : idle[k] <= IdleAfter}

\* The slots whose expired connections a sweep takes out.
ReapedActiveOnly == ActiveSlots
Reaped == slots

Sweep ==
    /\ enabled
    /\ Ready(Loop) /\ todo[Loop] = {}
    /\ todo' = [todo EXCEPT ![Loop] = ActiveSlots]
    /\ pool' = [k \in Keys |-> IF k \in Reaped THEN Fresh(k) ELSE pool[k]]
    /\ closing' = [closing EXCEPT ![Loop] = UNION {Expired(k) : k \in Reaped}]
    /\ UNCHANGED <<enabled, slots, age, idle, live, key, need, hand, unasked>>

(***************************************************************************)
(* refill_one up to the unlock: register the slot as in use and compute    *)
(* how many connections it lacks.  Expired ones still count as present.    *)
(***************************************************************************)
NeedSwapped(k) == Monus(Cardinality(pool[k]), Size)
Need(k) == Monus(Size, Cardinality(pool[k]))

RestRequeued(t, k) == todo[t]
Rest(t, k) == todo[t] \ {k}

RefillOne(t, k) ==
    /\ Ready(t)
    /\ k \in todo[t]
    /\ todo' = [todo EXCEPT ![t] = Rest(t, k)]
    /\ slots' = slots \cup {k}
    /\ idle' = [idle EXCEPT ![k] = 0]
    /\ need' = [need EXCEPT ![t] = Need(k)]
    /\ key' = [key EXCEPT ![t] = k]
    /\ unasked' = IF t = Loop THEN unasked ELSE [unasked EXCEPT ![k] = 0]
    /\ UNCHANGED <<enabled, pool, age, live, hand, closing>>

\* A dial of fill() is in flight: the connector's answer is outstanding.
DiallingOnceMore(t) == closing[t] = {} /\ hand[t] = {}
Dialling(t) == closing[t] = {} /\ hand[t] = {} /\ need[t] > 0

DialOk(t, c) ==
    /\ Dialling(t)
    /\ c \in Conns \ live
    /\ live' = live \cup {c}
    /\ hand' = [hand EXCEPT ![t] = {c}]
    /\ need' = [need EXCEPT ![t] = @ - 1]
    /\ UNCHANGED <<enabled, slots, pool, age, idle, todo, key, closing, unasked>>

DialFail(t) ==
    /\ Dialling(t)
    /\ need' = [need EXCEPT ![t] = @ - 1]
    /\ UNCHANGED <<enabled, slots, pool, age, idle, live, todo, key, hand,
                   closing, unasked>>

(***************************************************************************)
(* The locked part of fill(): reap the slot, then pool the new connection  *)
(* or, when another task filled the slot meanwhile, close it and give up.  *)
(***************************************************************************)
FullOneLate(k) == Cardinality(Fresh(k)) > Size
Full(k) == Cardinality(Fresh(k)) >= Size

\* What a task that lost the race has to close.
SurplusNoSpare(k, c) == Expired(k)
Surplus(k, c) == Expired(k) \cup {c}

Push(t, c) ==
    /\ closing[t] = {} /\ hand[t] = {c}
    /\ hand' = [hand EXCEPT ![t] = {}]
    /\ LET k == key[t] IN
       IF Full(k)
       THEN /\ pool' = [pool EXCEPT ![k] = Fresh(k)]
            /\ closing' = [closing EXCEPT ![t] = Surplus(k, c)]
            /\ need' = [need EXCEPT ![t] = 0]
            /\ UNCHANGED age
       ELSE /\ pool' = [pool EXCEPT ![k] = Fresh(k) \cup {c}]
            /\ closing' = [closing EXCEPT ![t] = Expired(k)]
            /\ age' = [age EXCEPT ![c] = 0]
            /\ UNCHANGED need
    /\ UNCHANGED <<enabled, slots, idle, live, todo, key, unasked>>

\* close_expired and the close of a spare: one awaited close at a time.
Close(p, c) ==
    /\ c \in closing[p]
    /\ closing' = [closing EXCEPT ![p] = @ \ {c}]
    /\ live' = live \ {c}
    /\ UNCHANGED <<enabled, slots, pool, age, idle, todo, key, need, hand,
                   unasked>>

-----------------------------------------------------------------------------
(***************************************************************************)
(* acquire on a slot the map does not hold changes nothing.                *)
(***************************************************************************)
AcquireNoSlot(s, k) ==
    /\ key[s] = NoKey
    /\ k \in Served \ slots
    /\ key' = [key EXCEPT ![s] = k]
    /\ UNCHANGED <<enabled, slots, pool, age, idle, live, todo, need, hand,
                   closing, unasked>>

\* What pop() leaves of the fresh connections when it hands out `got`.
LeftPeeked(k, got) == Fresh(k)
Left(k, got) == Fresh(k) \ got

(***************************************************************************)
(* acquire: mark the slot used, reap it, pop; `got` is what it hands out.  *)
(***************************************************************************)
Acquire(s, k) ==
    /\ key[s] = NoKey
    /\ k \in Served \cap slots
    /\ key' = [key EXCEPT ![s] = k]
    /\ idle' = [idle EXCEPT ![k] = 0]
    /\ unasked' = [unasked EXCEPT ![k] = 0]
    /\ \E got \in {{c} : c \in Youngest(Fresh(k))}
                  \cup (IF Fresh(k) = {} THEN {{}} ELSE {}) :
          /\ hand' = [hand EXCEPT ![s] = got]
          /\ pool' = [pool EXCEPT ![k] = Left(k, got)]
    /\ closing' = [closing EXCEPT ![s] = Expired(k)]
    /\ UNCHANGED <<enabled, slots, age, live, todo, need>>

\* The session drops its connection; the relay outside this module closes it.
Finish(s) ==
    /\ key[s] # NoKey /\ closing[s] = {}
    /\ key' = [key EXCEPT ![s] = NoKey]
    /\ hand' = [hand EXCEPT ![s] = {}]
    /\ live' = live \ hand[s]

\* No path connected for this session: it does not schedule a top-up.
EndUnserved(s) ==
    /\ Finish(s)
    /\ UNCHANGED <<enabled, slots, pool, age, idle, todo, need, closing,
                   unasked>>

(***************************************************************************)
(* The session was served and calls schedule_refill: a spawned task will   *)
(* refill the slot.  A task is taken from the bound OneOffs.               *)
(***************************************************************************)
EndScheduling(s, t) ==
    /\ Finish(s)
    /\ Ready(t) /\ todo[t] = {}
    /\ todo' = [todo EXCEPT ![t] = {key[s]}]
    /\ UNCHANGED <<enabled, slots, pool, age, idle, need, closing, unasked>>

-----------------------------------------------------------------------------
\* SIGHUP adds or removes the pool's backends.
Reload ==
    /\ enabled' = ~enabled
    /\ UNCHANGED <<slots, pool, age, idle, live, todo, key, need, hand, closing,
                   unasked>>

AtMost(n, bound) == IF n < bound THEN n + 1 ELSE bound

Tick ==
    /\ age' = [c \in Conns |-> IF Pooled(c) THEN AtMost(age[c], Ttl + 1) ELSE 0]
    /\ idle' = [k \in Keys |->
                  IF k \in slots THEN AtMost(idle[k], IdleAfter + 1) ELSE 0]
    /\ unasked' = [k \in Keys |->
                  IF k \in slots THEN AtMost(unasked[k], IdleAfter + 1) ELSE 0]
    /\ UNCHANGED <<enabled, slots, pool, live, todo, key, need, hand, closing>>

TaskStep(t) ==
    \/ \E k \in Keys : RefillOne(t, k)
    \/ \E c \in Conns : DialOk(t, c)
    \/ DialFail(t)
    \/ \E c \in Conns : Push(t, c)

SessionStep(s) ==
    \/ \E k \in Keys : AcquireNoSlot(s, k)
    \/ \E k \in Keys : Acquire(s, k)
    \/ EndUnserved(s)
    \/ \E t \in OneOffs : EndScheduling(s, t)

Next ==
    \/ Sweep
    \/ \E t \in Tasks : TaskStep(t)
    \/ \E p \in Procs, c \in Conns : Close(p, c)
    \/ \E s \in Sessions : SessionStep(s)
    \/ Reload
    \/ Tick

Spec == Init /\ [][Next]_vars

(***************************************************************************)
(* Fairness.  Tokio polls every spawned task, so a task whose next step is *)
(* enabled takes it; the interval timer of the loop always fires again.    *)
(* Dials are answered or time out (WF); that a connector asked again and   *)
(* again answers with a connection (SF) is the assumption that the network *)
(* works.  The interval (30 s, 45 s) is far shorter than SLOT_IDLE_AFTER    *)
(* (600 s), so some sweep meets a slot that is asked for again and again   *)
(* inside its window (SF on Sweep).  These last two are hypotheses of the  *)
(* warming property, not of the specification.                             *)
(***************************************************************************)
TaskFairness ==
    /\ WF_vars(Sweep)
    /\ \A t \in Tasks :
          /\ WF_vars(\E k \in Keys : RefillOne(t, k))
          /\ WF_vars(DialFail(t) \/ \E c \in Conns : DialOk(t, c))
          /\ WF_vars(\E c \in Conns : Push(t, c))
    /\ \A p \in Procs : WF_vars(\E c \in Conns : Close(p, c))

NetworkWorks == \A t \in Tasks : SF_vars(\E c \in Conns : DialOk(t, c))

SweepMeetsDemand == SF_vars(Sweep)

FairSpec == Spec /\ TaskFairness

-----------------------------------------------------------------------------
(***************************************************************************)
(* Several tasks may refill the same slot at once, each having counted the *)
(* slot before its dials: the slot still never holds more than size().     *)
(***************************************************************************)
Capacity == \A k \in Keys : Cardinality(pool[k]) <= Size

(***************************************************************************)
(* A connection is in one place: no two sessions get the same socket, and  *)
(* none is handed out while it is being closed or is still pooled.         *)
(***************************************************************************)
Holds(p, c) == c \in hand[p] \/ c \in closing[p]

OneOwner ==
    \A c \in Conns :
        /\ \A k, j \in Keys : c \in pool[k] /\ c \in pool[j] => k = j
        /\ \A k \in Keys, p \in Procs : ~(c \in pool[k] /\ Holds(p, c))
        /\ \A p \in Procs : ~(c \in hand[p] /\ c \in closing[p])
        /\ \A p, q \in Procs : Holds(p, c) /\ Holds(q, c) => p = q

(***************************************************************************)
(* Every open connection is owned by someone who will use or close it: a   *)
(* spare that lost the race and an expired one are closed, not dropped     *)
(* ("close the extra rather than leak it").                                *)
(***************************************************************************)
NoLeak ==
    \A c \in Conns : c \in live <=> Pooled(c) \/ \E p \in Procs : Holds(p, c)

(***************************************************************************)
(* What acquire() hands to a session was pooled in the slot it asked for   *)
(* and had not outlived the ttl, whichever task pooled or reaped meanwhile.*)
(***************************************************************************)
FreshLease ==
    [][\A s \in Sessions : \A c \in hand'[s] \ hand[s] :
          c \in pool[key'[s]] /\ age[c] <= Ttl]_vars

(***************************************************************************)
(* A sweep always comes to its end: the dials of one refill are counted,   *)
(* whatever they answer, so one dead backend cannot hold the loop.         *)
(***************************************************************************)
SweepFinishes == todo[Loop] # {} ~> Ready(Loop) /\ todo[Loop] = {}

(***************************************************************************)
(* Why it does: whatever the other tasks pool, reap or acquire meanwhile,  *)
(* nobody adds to the work of a task before it is done with it, and a step *)
(* that takes from it leaves fewer slots to refill, or fewer dials for     *)
(* this slot, or nothing in hand any more, or one close fewer to await.    *)
(***************************************************************************)
Fewer(S, T) == S \subseteq T /\ S # T

ComesCloser(t) ==
    \/ Fewer(todo'[t], todo[t])
    \/ todo'[t] = todo[t] /\ need'[t] < need[t]
    \/ todo'[t] = todo[t] /\ need'[t] = need[t] /\ Fewer(hand'[t], hand[t])
    \/ /\ todo'[t] = todo[t] /\ need'[t] = need[t] /\ hand'[t] = hand[t]
       /\ closing'[t] \subseteq closing[t]

RefillsEnd ==
    [][\A t \in Tasks : todo[t] # {} \/ ~Ready(t) => ComesCloser(t)]_vars

(***************************************************************************)
(* While a backend stays configured an expired connection does not stay    *)
(* in its slot, even one no session asks for: the sweep reaps every slot.  *)
(***************************************************************************)
ExpiredReaped ==
    <>[]enabled =>
        \A c \in Conns : (\E k \in Keys : c \in Expired(k)) ~> ~Pooled(c)

(***************************************************************************)
(* While a backend stays configured and the network works, a slot that     *)
(* sessions keep asking for is warm again and again.                       *)
(***************************************************************************)
DemandIsWarmed ==
    NetworkWorks /\ SweepMeetsDemand /\ <>[]enabled =>
        \A k \in Keys :
            []<>(k \in slots /\ unasked[k] = 0) => []<>(pool[k] # {})

(***************************************************************************)
(* "Stop refilling a slot that has not been acquired for this long": the   *)
(* sweep selects only slots some session used within SLOT_IDLE_AFTER.      *)
(***************************************************************************)
IdleSlotRetires ==
    [][\A k \in todo'[Loop] \ todo[Loop] : unasked[k] <= IdleAfter]_vars

(***************************************************************************)
(* What makes the invariants above inductive: a task with a refill under   *)
(* way has a slot, a session outside acquire..end holds nothing.           *)
(***************************************************************************)
AtWork ==
    /\ \A t \in Tasks : need[t] > 0 \/ hand[t] # {} => key[t] \in Served
    /\ \A s \in Sessions : key[s] = NoKey => hand[s] = {} /\ closing[s] = {}

IInv == TypeOK /\ Capacity /\ OneOwner /\ NoLeak /\ AtWork

-----------------------------------------------------------------------------
(***************************************************************************)
(* The refinement of ConnLifecycle: the stage of a connection is given by  *)
(* who owns it.  An open connection nobody owns has no stage.              *)
(***************************************************************************)
StageOf(c) ==
    CASE c \notin live -> "closed"
      [] Pooled(c) -> "offered"
      [] \E p \in Procs : c \in closing[p] -> "closing"
      [] \E t \in Tasks : c \in hand[t] -> "dialled"
      [] \E s \in Sessions : c \in hand[s] -> "leased"
      [] OTHER -> "lost"

SlotOf(c) == IF Pooled(c) THEN CHOOSE k \in Keys : c \in pool[k] ELSE NoKey

Lifecycle == INSTANCE ConnLifecycle WITH
    None <- NoKey,
    stage <- [c \in Conns |-> StageOf(c)],
    slot <- [c \in Conns |-> SlotOf(c)]

(***************************************************************************)
(* Every behaviour of the pool, seen connection by connection, is one of   *)
(* ConnLifecycle: dialled, pooled in one slot, leased once, closed.        *)
(***************************************************************************)
ImplementsLifecycle == Lifecycle!Spec
=============================================================================
