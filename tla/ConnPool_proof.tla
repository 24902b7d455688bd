--------------------------- MODULE ConnPool_proof ---------------------------
(***************************************************************************)
(* Proofs about ConnPool: capacity, ownership and the absence of leaks     *)
(* hold for any number of slots, sessions and refill tasks.                *)
(***************************************************************************)
EXTENDS ConnPool, FiniteSetTheorems, TLAPS

\* Sets of connections are finite, so their cardinality is a number.
LEMMA FiniteConns ==
    ASSUME NEW S, S \subseteq Conns
    PROVE  IsFiniteSet(S) /\ Cardinality(S) \in Nat
<1>1. IsFiniteSet(S)
  BY FS_Subset, PoolAssumption
<1> QED
  BY <1>1, FS_CardinalityType

\* A part of a set of connections is no larger.
LEMMA SmallerPart ==
    ASSUME NEW S, S \subseteq Conns, NEW T, T \subseteq S
    PROVE  Cardinality(T) <= Cardinality(S)
BY FiniteConns, FS_Subset

\* Pooling one more connection adds at most one.
LEMMA OneMore ==
    ASSUME NEW S, S \subseteq Conns, NEW c \in Conns
    PROVE  Cardinality(S \cup {c}) <= Cardinality(S) + 1
<1>1. Cardinality(S \cup {c}) =
          IF c \in S THEN Cardinality(S) ELSE Cardinality(S) + 1
  BY FiniteConns, FS_AddElement
<1> QED
  BY <1>1, FiniteConns

\* The dials a refill starts with are at most size().
LEMMA NeedRange ==
    ASSUME TypeOK, NEW k \in Keys
    PROVE  Need(k) \in 0 .. Size
<1>1. Cardinality(pool[k]) \in Nat
  BY FiniteConns DEF TypeOK
<1> QED
  BY <1>1, PoolAssumption DEF Need, Monus

\* Reaping a slot splits it.
LEMMA ReapSplits ==
    ASSUME TypeOK, NEW k \in Keys
    PROVE  /\ Expired(k) \subseteq pool[k]
           /\ Fresh(k) \subseteq pool[k]
           /\ Fresh(k) \cup Expired(k) = pool[k]
           /\ Fresh(k) \cap Expired(k) = {}
           /\ pool[k] \subseteq Conns
BY DEF TypeOK, Fresh, Expired

LEMMA InitInv == Init => IInv
<1> SUFFICES ASSUME Init PROVE IInv
  OBVIOUS
<1> USE PoolAssumption DEF Init
<1>1. TypeOK
  BY DEF TypeOK, Tasks, Procs
<1>2. Capacity
  BY FS_EmptySet DEF Capacity
<1>3. OneOwner
  BY DEF OneOwner, Holds
<1>4. NoLeak
  BY DEF NoLeak, Pooled, Holds
<1>5. AtWork
  BY DEF AtWork, Procs
<1> QED
  BY <1>1, <1>2, <1>3, <1>4, <1>5 DEF IInv

LEMMA SweepInv == IInv /\ Sweep => IInv'
<1> SUFFICES ASSUME IInv, Sweep PROVE IInv'
  OBVIOUS
<1> USE DEF IInv
<1>0. Loop \in Tasks /\ Loop \in Procs
  BY DEF Tasks, Procs
<1>a. slots \subseteq Keys /\ ActiveSlots \subseteq Served
  BY PoolAssumption DEF TypeOK, ActiveSlots
<1>b. \A k \in Keys : pool'[k] = IF k \in slots THEN Fresh(k) ELSE pool[k]
  BY DEF Sweep, Reaped
<1>c. \A c : c \in closing'[Loop] <=> \E k \in slots : c \in Expired(k)
  BY <1>0 DEF Sweep, Reaped, TypeOK
<1>d. \A p \in Procs : p # Loop => closing'[p] = closing[p]
  BY DEF Sweep, TypeOK
<1>e. hand[Loop] = {} /\ closing[Loop] = {} /\ hand' = hand
  BY DEF Sweep, Ready
<1>1. TypeOK'
  <2>1. pool' \in [Keys -> SUBSET Conns]
    BY ReapSplits DEF Sweep, TypeOK
  <2>2. closing' \in [Procs -> SUBSET Conns]
    <3>1. UNION {Expired(k) : k \in Reaped} \subseteq Conns
      BY <1>a, ReapSplits DEF Reaped
    <3> QED
      BY <3>1 DEF Sweep, TypeOK
  <2>3. todo' \in [Tasks -> SUBSET Served]
    BY <1>a DEF Sweep, TypeOK
  <2> QED
    BY <2>1, <2>2, <2>3 DEF Sweep, TypeOK
<1>2. Capacity'
  <2> SUFFICES ASSUME NEW k \in Keys PROVE Cardinality(pool'[k]) <= Size
    BY DEF Capacity
  <2>1. pool'[k] \subseteq pool[k] /\ pool[k] \subseteq Conns
    BY <1>b, ReapSplits
  <2>2. Cardinality(pool'[k]) <= Cardinality(pool[k])
    BY <2>1, SmallerPart
  <2>3. Cardinality(pool'[k]) \in Nat /\ Cardinality(pool[k]) \in Nat
    BY <2>1, FiniteConns
  <2> QED
    BY <2>2, <2>3, PoolAssumption DEF Capacity
<1>3. OneOwner'
  BY <1>0, <1>a, <1>b, <1>c, <1>d, <1>e, ReapSplits DEF OneOwner, Holds
<1>4. NoLeak'
  BY <1>0, <1>a, <1>b, <1>c, <1>d, <1>e, ReapSplits
     DEF NoLeak, Pooled, Holds, Sweep
<1>5. AtWork'
  BY <1>d, <1>e, PoolAssumption DEF AtWork, Sweep, Tasks, Procs
<1> QED
  BY <1>1, <1>2, <1>3, <1>4, <1>5

LEMMA RefillOneInv ==
    ASSUME IInv, NEW t \in Tasks, NEW k \in Keys, RefillOne(t, k)
    PROVE  IInv'
<1> USE DEF IInv
<1>1. TypeOK'
  <2>1. Need(k) \in 0 .. Size
    BY NeedRange
  <2>2. k \in Served
    BY DEF RefillOne, TypeOK
  <2> QED
    BY <2>1, <2>2, PoolAssumption DEF RefillOne, TypeOK, Rest, Procs
<1>2. Capacity' /\ OneOwner' /\ NoLeak'
  BY DEF RefillOne, Capacity, OneOwner, NoLeak, Holds, Pooled
<1>3. AtWork'
  BY PoolAssumption DEF RefillOne, AtWork, TypeOK, Procs
<1> QED
  BY <1>1, <1>2, <1>3

LEMMA DialOkInv ==
    ASSUME IInv, NEW t \in Tasks, NEW c \in Conns, DialOk(t, c)
    PROVE  IInv'
<1> USE DEF IInv
<1>0. t \in Procs /\ need[t] \in 0 .. Size /\ need[t] > 0 /\ hand[t] = {}
  BY DEF Procs, DialOk, Dialling, TypeOK
<1>1. TypeOK'
  BY <1>0, PoolAssumption DEF DialOk, TypeOK
<1>2. Capacity'
  BY DEF DialOk, Capacity
<1>3. ~Pooled(c) /\ \A p \in Procs : ~Holds(p, c)
  BY DEF DialOk, NoLeak
<1>4. \A p \in Procs : hand'[p] = IF p = t THEN {c} ELSE hand[p]
  BY <1>0 DEF DialOk, TypeOK
<1>5. OneOwner'
  BY <1>0, <1>3, <1>4 DEF OneOwner, Holds, Pooled, DialOk
<1>6. NoLeak'
  BY <1>0, <1>3, <1>4 DEF NoLeak, Holds, Pooled, DialOk
<1>7. AtWork'
  BY <1>0, <1>4, PoolAssumption DEF AtWork, DialOk, TypeOK, Procs
<1> QED
  BY <1>1, <1>2, <1>5, <1>6, <1>7

LEMMA DialFailInv ==
    ASSUME IInv, NEW t \in Tasks, DialFail(t)
    PROVE  IInv'
<1> USE DEF IInv
<1>0. need[t] \in 0 .. Size /\ need[t] > 0
  BY DEF DialFail, Dialling, TypeOK
<1>1. TypeOK'
  BY <1>0, PoolAssumption DEF DialFail, TypeOK
<1>2. Capacity' /\ OneOwner' /\ NoLeak'
  BY DEF DialFail, Capacity, OneOwner, NoLeak, Holds, Pooled
<1>3. AtWork'
  BY <1>0 DEF DialFail, AtWork, TypeOK
<1> QED
  BY <1>1, <1>2, <1>3

\* The slot a task pools into: reaped, plus the connection if there is room.
LEMMA PushInv ==
    ASSUME IInv, NEW t \in Tasks, NEW c \in Conns, Push(t, c)
    PROVE  IInv'
<1> USE DEF IInv
<1> DEFINE k == key[t]
<1>0. /\ t \in Procs /\ hand[t] = {c} /\ closing[t] = {}
      /\ k \in Served /\ k \in Keys
  BY PoolAssumption DEF Procs, Push, AtWork, TypeOK
<1>a. \A p \in Procs : hand'[p] = IF p = t THEN {} ELSE hand[p]
  BY <1>0 DEF Push, TypeOK
<1>b. live' = live
  BY DEF Push
<1>c. ~Pooled(c) /\ \A p \in Procs : p # t => ~Holds(p, c)
  BY <1>0 DEF OneOwner, Holds, Pooled
<1>d. /\ Expired(k) \subseteq pool[k] /\ Fresh(k) \subseteq pool[k]
      /\ Fresh(k) \cup Expired(k) = pool[k] /\ Fresh(k) \cap Expired(k) = {}
      /\ pool[k] \subseteq Conns
  BY <1>0, ReapSplits
<1>1. CASE Full(k)
  <2>1. \A j \in Keys : pool'[j] = IF j = k THEN Fresh(k) ELSE pool[j]
    BY <1>0, <1>1 DEF Push, TypeOK
  <2>2. \A p \in Procs :
            closing'[p] = IF p = t THEN Expired(k) \cup {c} ELSE closing[p]
    BY <1>0, <1>1 DEF Push, TypeOK, Surplus
  <2>3. need' = [need EXCEPT ![t] = 0] /\ UNCHANGED <<age, key, todo>>
    BY <1>1 DEF Push
  <2>4. TypeOK'
    BY <1>0, <1>1, <1>d, PoolAssumption DEF Push, TypeOK, Surplus
  <2>5. Capacity'
    <3> SUFFICES ASSUME NEW j \in Keys PROVE Cardinality(pool'[j]) <= Size
      BY DEF Capacity
    <3>1. Cardinality(Fresh(k)) <= Cardinality(pool[k])
      BY <1>d, SmallerPart
    <3>2. Cardinality(Fresh(k)) \in Nat /\ Cardinality(pool[k]) \in Nat
      BY <1>d, FiniteConns
    <3> QED
      BY <2>1, <3>1, <3>2, <1>0, PoolAssumption DEF Capacity
  <2>6. OneOwner'
    BY <1>0, <1>a, <1>c, <1>d, <2>1, <2>2 DEF OneOwner, Holds, Pooled
  <2>7. NoLeak'
    BY <1>0, <1>a, <1>b, <1>c, <1>d, <2>1, <2>2 DEF NoLeak, Holds, Pooled
  <2>8. AtWork'
    BY <1>0, <1>a, <2>2, <2>3, PoolAssumption DEF AtWork, TypeOK, Procs
  <2> QED
    BY <2>4, <2>5, <2>6, <2>7, <2>8
<1>2. CASE ~Full(k)
  <2>1. \A j \in Keys : pool'[j] = IF j = k THEN Fresh(k) \cup {c} ELSE pool[j]
    BY <1>0, <1>2 DEF Push, TypeOK
  <2>2. \A p \in Procs : closing'[p] = IF p = t THEN Expired(k) ELSE closing[p]
    BY <1>0, <1>2 DEF Push, TypeOK
  <2>3. UNCHANGED <<need, key, todo>>
    BY <1>2 DEF Push
  <2>4. TypeOK'
    BY <1>0, <1>2, <1>d, PoolAssumption DEF Push, TypeOK
  <2>5. Capacity'
    <3> SUFFICES ASSUME NEW j \in Keys PROVE Cardinality(pool'[j]) <= Size
      BY DEF Capacity
    <3>1. Fresh(k) \subseteq Conns /\ Cardinality(Fresh(k)) \in Nat
      BY <1>d, FiniteConns
    <3>2. Cardinality(Fresh(k)) < Size
      BY <1>2, <3>1, PoolAssumption DEF Full
    <3>3. Cardinality(Fresh(k) \cup {c}) <= Cardinality(Fresh(k)) + 1
      BY <3>1, OneMore
    <3>4. Cardinality(Fresh(k) \cup {c}) \in Nat
      BY <3>1, FiniteConns
    <3> QED
      BY <2>1, <3>1, <3>2, <3>3, <3>4, PoolAssumption DEF Capacity
  <2>6. OneOwner'
    BY <1>0, <1>a, <1>c, <1>d, <2>1, <2>2 DEF OneOwner, Holds, Pooled
  <2>7. NoLeak'
    BY <1>0, <1>a, <1>b, <1>c, <1>d, <2>1, <2>2 DEF NoLeak, Holds, Pooled
  <2>8. AtWork'
    BY <1>0, <1>a, <2>2, <2>3, PoolAssumption DEF AtWork, TypeOK, Procs
  <2> QED
    BY <2>4, <2>5, <2>6, <2>7, <2>8
<1> QED
  BY <1>1, <1>2

LEMMA CloseInv ==
    ASSUME IInv, NEW p \in Procs, NEW c \in Conns, Close(p, c)
    PROVE  IInv'
<1> USE DEF IInv
<1>1. TypeOK' /\ Capacity'
  BY DEF Close, TypeOK, Capacity
<1>2. \A q \in Procs : closing'[q] = IF q = p THEN closing[p] \ {c} ELSE closing[q]
  BY DEF Close, TypeOK
<1>3. OneOwner'
  BY <1>2 DEF Close, OneOwner, Holds
<1>4. NoLeak'
  BY <1>2 DEF Close, NoLeak, OneOwner, Holds, Pooled
<1>5. AtWork'
  BY <1>2 DEF Close, AtWork, Procs
<1> QED
  BY <1>1, <1>3, <1>4, <1>5

LEMMA AcquireNoSlotInv ==
    ASSUME IInv, NEW s \in Sessions, NEW k \in Keys, AcquireNoSlot(s, k)
    PROVE  IInv'
<1> USE DEF IInv, AcquireNoSlot
<1>1. TypeOK'
  BY DEF TypeOK
<1>2. Capacity' /\ OneOwner' /\ NoLeak'
  BY DEF Capacity, OneOwner, NoLeak, Holds, Pooled
<1>3. AtWork'
  BY PoolAssumption DEF AtWork, TypeOK, Procs
<1> QED
  BY <1>1, <1>2, <1>3

LEMMA AcquireInv ==
    ASSUME IInv, NEW s \in Sessions, NEW k \in Keys, Acquire(s, k)
    PROVE  IInv'
<1> USE DEF IInv
<1>0. s \in Procs /\ hand[s] = {} /\ closing[s] = {} /\ s \notin Tasks
  BY PoolAssumption DEF Acquire, AtWork, Procs
<1>1. PICK got \in SUBSET Fresh(k) :
          /\ hand' = [hand EXCEPT ![s] = got]
          /\ pool' = [pool EXCEPT ![k] = Left(k, got)]
  BY DEF Acquire, Youngest
<1>d. /\ Expired(k) \subseteq pool[k] /\ Fresh(k) \subseteq pool[k]
      /\ Fresh(k) \cup Expired(k) = pool[k] /\ Fresh(k) \cap Expired(k) = {}
      /\ pool[k] \subseteq Conns
  BY ReapSplits
<1>2. \A j \in Keys : pool'[j] = IF j = k THEN Fresh(k) \ got ELSE pool[j]
  BY <1>1 DEF TypeOK, Left
<1>3. \A p \in Procs : hand'[p] = IF p = s THEN got ELSE hand[p]
  BY <1>1 DEF TypeOK
<1>4. \A p \in Procs : closing'[p] = IF p = s THEN Expired(k) ELSE closing[p]
  BY DEF Acquire, TypeOK
<1>5. UNCHANGED <<live, need, todo, slots, age, enabled>>
  BY DEF Acquire
<1>6. TypeOK'
  <2>1. pool' \in [Keys -> SUBSET Conns] /\ hand' \in [Procs -> SUBSET Conns]
    BY <1>0, <1>1, <1>d DEF TypeOK, Left
  <2>2. closing' \in [Procs -> SUBSET Conns]
    BY <1>0, <1>d DEF Acquire, TypeOK
  <2>3. key' \in [Procs -> Served \cup {NoKey}]
    BY <1>0 DEF Acquire, TypeOK
  <2>4. idle' \in [Keys -> 0 .. IdleAfter + 1]
        /\ unasked' \in [Keys -> 0 .. IdleAfter + 1]
    BY PoolAssumption DEF Acquire, TypeOK
  <2> QED
    BY <1>5, <2>1, <2>2, <2>3, <2>4 DEF TypeOK
<1>7. Capacity'
  <2> SUFFICES ASSUME NEW j \in Keys PROVE Cardinality(pool'[j]) <= Size
    BY DEF Capacity
  <2>1. pool'[j] \subseteq pool[j] /\ pool[j] \subseteq Conns
    BY <1>2, <1>d DEF TypeOK
  <2>2. Cardinality(pool'[j]) <= Cardinality(pool[j])
    BY <2>1, SmallerPart
  <2>3. Cardinality(pool'[j]) \in Nat /\ Cardinality(pool[j]) \in Nat
    BY <2>1, FiniteConns
  <2> QED
    BY <2>2, <2>3, PoolAssumption DEF Capacity
<1>8. OneOwner'
  BY <1>0, <1>2, <1>3, <1>4, <1>d DEF OneOwner, Holds
<1>9. NoLeak'
  BY <1>0, <1>2, <1>3, <1>4, <1>5, <1>d DEF NoLeak, Holds, Pooled
<1>10. AtWork'
  <2>1. \A p \in Procs : key'[p] = IF p = s THEN k ELSE key[p]
    BY DEF Acquire, TypeOK
  <2>2. k # NoKey
    BY PoolAssumption
  <2> QED
    BY <1>0, <1>3, <1>4, <1>5, <2>1, <2>2 DEF AtWork, Procs
<1> QED
  BY <1>6, <1>7, <1>8, <1>9, <1>10

\* What the end of a session leaves, whether or not it schedules a top-up.
LEMMA FinishInv ==
    ASSUME IInv, NEW s \in Sessions, Finish(s),
           UNCHANGED <<enabled, slots, pool, age, idle, need, closing, unasked>>,
           todo' \in [Tasks -> SUBSET Served]
    PROVE  IInv'
<1> USE DEF IInv
<1>0. s \in Procs /\ s \notin Tasks
  BY PoolAssumption DEF Procs
<1>1. TypeOK' /\ Capacity'
  BY DEF Finish, TypeOK, Capacity
<1>2. \A p \in Procs : hand'[p] = IF p = s THEN {} ELSE hand[p]
  BY DEF Finish, TypeOK
<1>3. OneOwner'
  BY <1>2 DEF OneOwner, Holds
<1>4. NoLeak'
  BY <1>0, <1>2 DEF Finish, NoLeak, OneOwner, Holds, Pooled
<1>5. AtWork'
  BY <1>0, <1>2 DEF Finish, AtWork, TypeOK, Procs
<1> QED
  BY <1>1, <1>3, <1>4, <1>5

LEMMA TimeAndReloadInv == IInv /\ (Reload \/ Tick \/ UNCHANGED vars) => IInv'
<1> SUFFICES ASSUME IInv, Reload \/ Tick \/ UNCHANGED vars PROVE IInv'
  OBVIOUS
<1> USE DEF IInv
<1>1. CASE Reload
  BY <1>1 DEF Reload, TypeOK, Capacity, OneOwner, NoLeak, AtWork, Holds, Pooled
<1>2. CASE Tick
  <2>1. \A n, b \in Nat : n \in 0 .. b => AtMost(n, b) \in 0 .. b
    BY DEF AtMost
  <2>2. TypeOK'
    BY <1>2, <2>1, PoolAssumption DEF Tick, TypeOK
  <2> QED
    BY <1>2, <2>2 DEF Tick, Capacity, OneOwner, NoLeak, AtWork, Holds, Pooled
<1>3. CASE UNCHANGED vars
  BY <1>3 DEF vars, TypeOK, Capacity, OneOwner, NoLeak, AtWork, Holds, Pooled
<1> QED
  BY <1>1, <1>2, <1>3

LEMMA StepInv == IInv /\ [Next]_vars => IInv'
<1> SUFFICES ASSUME IInv, [Next]_vars PROVE IInv'
  OBVIOUS
<1>1. CASE Sweep
  BY <1>1, SweepInv
<1>2. ASSUME NEW t \in Tasks, TaskStep(t) PROVE IInv'
  BY <1>2, RefillOneInv, DialOkInv, DialFailInv, PushInv DEF TaskStep
<1>3. ASSUME NEW p \in Procs, NEW c \in Conns, Close(p, c) PROVE IInv'
  BY <1>3, CloseInv
<1>4. ASSUME NEW s \in Sessions, SessionStep(s) PROVE IInv'
  <2>1. CASE \E k \in Keys : AcquireNoSlot(s, k)
    BY <2>1, AcquireNoSlotInv
  <2>2. CASE \E k \in Keys : Acquire(s, k)
    BY <2>2, AcquireInv
  <2>3. CASE EndUnserved(s)
    BY <2>3, FinishInv DEF EndUnserved, IInv, TypeOK
  <2>4. ASSUME NEW t \in OneOffs, EndScheduling(s, t) PROVE IInv'
    <3>1. key[s] \in Served /\ t \in Tasks
      BY <2>4 DEF EndScheduling, Finish, IInv, TypeOK, Procs, Tasks
    <3>2. todo' \in [Tasks -> SUBSET Served]
      BY <2>4, <3>1 DEF EndScheduling, IInv, TypeOK
    <3> QED
      BY <2>4, <3>2, FinishInv DEF EndScheduling
  <2> QED
    BY <1>4, <2>1, <2>2, <2>3, <2>4 DEF SessionStep
<1>5. CASE Reload \/ Tick \/ UNCHANGED vars
  BY <1>5, TimeAndReloadInv
<1> QED
  BY <1>1, <1>2, <1>3, <1>4, <1>5 DEF Next

(***************************************************************************)
(* The inductive invariant of the pool.                                    *)
(***************************************************************************)
THEOREM PoolInvariant == Spec => []IInv
<1> QED
  BY InitInv, StepInv, PTL DEF Spec

(***************************************************************************)
(* Every variable of the pool keeps its type; in particular a refill never *)
(* counts its dials below zero nor starts more than size() of them.        *)
(***************************************************************************)
THEOREM PoolTypes == Spec => []TypeOK
<1>1. IInv => TypeOK
  BY DEF IInv
<1> QED
  BY <1>1, PoolInvariant, PTL

(***************************************************************************)
(* However many tasks refill a slot at once, it never exceeds size().      *)
(***************************************************************************)
THEOREM SlotCapacity == Spec => []Capacity
<1>1. IInv => Capacity
  BY DEF IInv
<1> QED
  BY <1>1, PoolInvariant, PTL

(***************************************************************************)
(* No pooled socket is handed to two sessions, or closed under one.        *)
(***************************************************************************)
THEOREM SingleOwnership == Spec => []OneOwner
<1>1. IInv => OneOwner
  BY DEF IInv
<1> QED
  BY <1>1, PoolInvariant, PTL

(***************************************************************************)
(* Every open connection is still going to be used or closed by its owner. *)
(***************************************************************************)
THEOREM NothingLeaks == Spec => []NoLeak
<1>1. IInv => NoLeak
  BY DEF IInv
<1> QED
  BY <1>1, PoolInvariant, PTL

-----------------------------------------------------------------------------
(***************************************************************************)
(* How one step moves connections between owners: where a connection found *)
(* in a place after the step was before it.                                *)
(***************************************************************************)
InTask(c) == \E t \in Tasks : c \in hand[t]
InSession(c) == \E s \in Sessions : c \in hand[s]
InClose(c) == \E p \in Procs : c \in closing[p]

OnlyForward ==
    \A c \in Conns :
        /\ \A k \in Keys : c \in pool'[k] => c \in pool[k] \/ InTask(c)
        /\ \A t \in Tasks : c \in hand'[t] => c \in hand[t] \/ c \notin live
        /\ \A s \in Sessions : c \in hand'[s] => c \in hand[s] \/ Pooled(c)
        /\ \A p \in Procs :
              c \in closing'[p] => c \in closing[p] \/ Pooled(c) \/ InTask(c)
        /\ c \notin live' => c \notin live \/ InClose(c) \/ InSession(c)

\* The connections a step leases come from one acquire: there is at most one.
NewLease(s, c) == c \in hand'[s] /\ c \notin hand[s]

OneNewLease ==
    \A c, d \in Conns : \A s, r \in Sessions :
        NewLease(s, c) /\ NewLease(r, d) => c = d

\* What acquire leases was fresh in the slot it was asked for.
FreshNewLease ==
    \A s \in Sessions : \A c \in hand'[s] \ hand[s] :
        c \in pool[key'[s]] /\ age[c] <= Ttl

StepMoves == OnlyForward /\ OneNewLease /\ FreshNewLease

LEMMA SweepMoves == IInv /\ Sweep => StepMoves
<1> SUFFICES ASSUME IInv, Sweep PROVE StepMoves
  OBVIOUS
<1>1. \A k \in Keys : pool'[k] \subseteq pool[k]
  BY DEF Sweep, Fresh
<1>2. hand' = hand /\ live' = live
  BY DEF Sweep
<1>3. \A c, p : p \in Procs /\ c \in closing'[p] =>
          c \in closing[p] \/ \E k \in Keys : c \in pool[k]
  BY PoolAssumption DEF Sweep, IInv, TypeOK, Reaped, Expired
<1> QED
  BY <1>1, <1>2, <1>3
     DEF StepMoves, OnlyForward, OneNewLease, NewLease, FreshNewLease, Pooled

LEMMA TaskMoves ==
    ASSUME IInv, NEW t \in Tasks, TaskStep(t)
    PROVE  StepMoves
<1>0. t \in Procs /\ \A s \in Sessions : s # t /\ s \in Procs
  BY PoolAssumption DEF Procs
<1>1. CASE \E k \in Keys : RefillOne(t, k)
  BY <1>1 DEF RefillOne, StepMoves, OnlyForward, OneNewLease, NewLease,
              FreshNewLease
<1>2. ASSUME NEW c \in Conns, DialOk(t, c) PROVE StepMoves
  <2>1. \A p \in Procs : p # t => hand'[p] = hand[p]
    BY <1>2 DEF DialOk, IInv, TypeOK
  <2>2. hand'[t] = {c} /\ c \notin live /\ live \subseteq live'
    BY <1>0, <1>2 DEF DialOk, IInv, TypeOK
  <2>3. UNCHANGED <<pool, closing>>
    BY <1>2 DEF DialOk
  <2> QED
    BY <1>0, <2>1, <2>2, <2>3 DEF StepMoves, OnlyForward, OneNewLease, NewLease,
                            FreshNewLease, Procs
<1>3. CASE DialFail(t)
  BY <1>3 DEF DialFail, StepMoves, OnlyForward, OneNewLease, NewLease,
              FreshNewLease
<1>4. ASSUME NEW c \in Conns, Push(t, c) PROVE StepMoves
  <2> DEFINE k == key[t]
  <2>0. hand[t] = {c} /\ k \in Keys
    BY <1>4, PoolAssumption DEF Push, IInv, AtWork
  <2>1. \A p \in Procs : hand'[p] \subseteq hand[p]
    BY <1>4, <1>0 DEF Push, IInv, TypeOK
  <2>2. live' = live
    BY <1>4 DEF Push
  <2>3. \A j \in Keys : pool'[j] \subseteq pool[j] \cup {c}
    BY <1>4 DEF Push, Fresh, IInv, TypeOK
  <2>4. \A p \in Procs : closing'[p] \subseteq closing[p] \cup pool[k] \cup {c}
    BY <1>4 DEF Push, Expired, Surplus, IInv, TypeOK
  <2>5. InTask(c)
    BY <2>0 DEF InTask
  <2> QED
    BY <1>0, <2>0, <2>1, <2>2, <2>3, <2>4, <2>5
       DEF StepMoves, OnlyForward, OneNewLease, NewLease, FreshNewLease,
           Pooled, Procs
<1> QED
  BY <1>1, <1>2, <1>3, <1>4, TaskStep(t) DEF TaskStep

LEMMA CloseMoves ==
    ASSUME IInv, NEW p \in Procs, NEW c \in Conns, Close(p, c)
    PROVE  StepMoves
<1>1. \A q \in Procs : closing'[q] \subseteq closing[q]
  BY DEF Close, IInv, TypeOK
<1>2. UNCHANGED <<pool, hand>> /\ live' = live \ {c} /\ InClose(c)
  BY DEF Close, InClose
<1> QED
  BY <1>1, <1>2 DEF StepMoves, OnlyForward, OneNewLease, NewLease, FreshNewLease

LEMMA FinishMoves ==
    ASSUME IInv, NEW s \in Sessions, Finish(s), UNCHANGED <<pool, closing>>
    PROVE  StepMoves
<1>1. \A p \in Procs : hand'[p] \subseteq hand[p]
  BY DEF Finish, IInv, TypeOK
<1>2. live' = live \ hand[s]
  BY DEF Finish
<1> QED
  BY <1>1, <1>2 DEF StepMoves, OnlyForward, OneNewLease, NewLease,
                    FreshNewLease, InSession, Procs

LEMMA SessionMoves ==
    ASSUME IInv, NEW s \in Sessions, SessionStep(s)
    PROVE  StepMoves
<1>0. s \in Procs /\ \A t \in Tasks : t # s /\ t \in Procs
  BY PoolAssumption DEF Procs
<1>1. CASE \E k \in Keys : AcquireNoSlot(s, k)
  BY <1>1 DEF AcquireNoSlot, StepMoves, OnlyForward, OneNewLease, NewLease,
              FreshNewLease
<1>2. ASSUME NEW k \in Keys, Acquire(s, k) PROVE StepMoves
  <2>1. PICK got : /\ got = {} \/ \E c \in Fresh(k) : got = {c}
                   /\ hand' = [hand EXCEPT ![s] = got]
                   /\ pool' = [pool EXCEPT ![k] = Left(k, got)]
    BY <1>2 DEF Acquire, Youngest
  <2>2. \A j \in Keys : pool'[j] \subseteq pool[j]
    BY <2>1 DEF Left, Fresh, IInv, TypeOK
  <2>3. \A p \in Procs : hand'[p] = IF p = s THEN got ELSE hand[p]
    BY <2>1 DEF IInv, TypeOK
  <2>4. \A p \in Procs : closing'[p] \subseteq closing[p] \cup pool[k]
    BY <1>2 DEF Acquire, Expired, IInv, TypeOK
  <2>5. live' = live /\ key'[s] = k
    BY <1>0, <1>2 DEF Acquire, IInv, TypeOK
  <2>6. \A c \in got : c \in pool[k] /\ age[c] <= Ttl
    BY <2>1, PoolAssumption DEF Fresh, Expired, IInv, TypeOK
  <2>7. OnlyForward
    BY <1>0, <2>2, <2>3, <2>4, <2>5, <2>6 DEF OnlyForward, Pooled, Procs
  <2>8. OneNewLease /\ FreshNewLease
    BY <2>1, <2>3, <2>5, <2>6 DEF OneNewLease, NewLease, FreshNewLease, Procs
  <2> QED
    BY <2>7, <2>8 DEF StepMoves
<1>3. CASE EndUnserved(s)
  BY <1>3, FinishMoves DEF EndUnserved
<1>4. CASE \E t \in OneOffs : EndScheduling(s, t)
  BY <1>4, FinishMoves DEF EndScheduling
<1> QED
  BY <1>1, <1>2, <1>3, <1>4, SessionStep(s) DEF SessionStep

LEMMA NextMoves == IInv /\ [Next]_vars => StepMoves
<1> SUFFICES ASSUME IInv, [Next]_vars PROVE StepMoves
  OBVIOUS
<1>1. CASE Reload \/ Tick \/ UNCHANGED vars
  BY <1>1 DEF Reload, Tick, vars, StepMoves, OnlyForward, OneNewLease,
              NewLease, FreshNewLease
<1> QED
  BY <1>1, SweepMoves, TaskMoves, CloseMoves, SessionMoves DEF Next

(***************************************************************************)
(* A session is never handed a connection past its ttl, nor one from       *)
(* another slot.                                                           *)
(***************************************************************************)
THEOREM LeasesAreFresh == Spec => FreshLease
<1>1. IInv /\ [Next]_vars =>
          [\A s \in Sessions : \A c \in hand'[s] \ hand[s] :
              c \in pool[key'[s]] /\ age[c] <= Ttl]_vars
  BY NextMoves DEF StepMoves, FreshNewLease
<1> QED
  BY <1>1, PoolInvariant, PTL DEF Spec, FreshLease

-----------------------------------------------------------------------------
(***************************************************************************)
(* Under the invariant the stage of a connection is where it is.           *)
(***************************************************************************)
StageFacts ==
    \A c \in Conns :
        /\ StageOf(c) \in {"closed", "dialled", "offered", "leased", "closing"}
        /\ StageOf(c) = "closed" <=> c \notin live
        /\ StageOf(c) = "offered" <=> Pooled(c)
        /\ StageOf(c) = "closing" <=> InClose(c)
        /\ StageOf(c) = "dialled" <=> InTask(c)
        /\ StageOf(c) = "leased" <=> InSession(c)

LEMMA Stages == IInv => StageFacts
<1> SUFFICES ASSUME IInv, NEW c \in Conns
             PROVE  /\ StageOf(c) \in {"closed", "dialled", "offered", "leased",
                                       "closing"}
                    /\ StageOf(c) = "closed" <=> c \notin live
                    /\ StageOf(c) = "offered" <=> Pooled(c)
                    /\ StageOf(c) = "closing" <=> InClose(c)
                    /\ StageOf(c) = "dialled" <=> InTask(c)
                    /\ StageOf(c) = "leased" <=> InSession(c)
  BY DEF StageFacts
<1>1. c \in live <=> Pooled(c) \/ InClose(c) \/ InTask(c) \/ InSession(c)
  BY DEF IInv, NoLeak, Holds, InClose, InTask, InSession, Procs
<1>2. /\ ~(Pooled(c) /\ InClose(c))
      /\ ~(Pooled(c) /\ InTask(c))
      /\ ~(Pooled(c) /\ InSession(c))
      /\ ~(InClose(c) /\ InTask(c))
      /\ ~(InClose(c) /\ InSession(c))
      /\ ~(InTask(c) /\ InSession(c))
  BY PoolAssumption DEF IInv, OneOwner, Holds, Pooled, InClose, InTask,
                        InSession, Procs
<1> QED
  BY <1>1, <1>2 DEF StageOf, InClose, InTask, InSession

\* The slot of an offered connection is the one that holds it.
SlotFacts ==
    \A c \in Conns :
        /\ SlotOf(c) \in Keys \cup {NoKey}
        /\ \A k \in Keys : Pooled(c) => (SlotOf(c) = k <=> c \in pool[k])

LEMMA Slots == IInv => SlotFacts
BY DEF IInv, OneOwner, SlotFacts, SlotOf, Pooled

\* What the abstract pool offers in a slot is what the slot holds.
LEMMA OfferedIsPool == IInv => \A k \in Keys : Lifecycle!Offered(k) = pool[k]
BY Stages, Slots DEF IInv, TypeOK, StageFacts, SlotFacts, Pooled,
                     Lifecycle!Offered

LEMMA InitRefines == Init => Lifecycle!Init
<1> SUFFICES ASSUME Init PROVE Lifecycle!Init
  OBVIOUS
<1>1. \A c \in Conns : StageOf(c) = "closed" /\ SlotOf(c) = NoKey
  BY DEF Init, StageOf, SlotOf, Pooled, Procs
<1> QED
  BY <1>1 DEF Lifecycle!Init

\* Every step of the pool moves each connection along an arc, or not at all.
LEMMA StepRefines == IInv /\ IInv' /\ [Next]_vars => Lifecycle!Next
<1> SUFFICES ASSUME IInv, IInv', [Next]_vars PROVE Lifecycle!Next
  OBVIOUS
<1>1. StepMoves
  BY NextMoves
<1>2. StageFacts /\ SlotFacts
  BY Stages, Slots
<1>3. StageFacts' /\ SlotFacts'
  <2>1. (IInv => StageFacts)'
    BY Stages, PTL
  <2>2. (IInv => SlotFacts)'
    BY Slots, PTL
  <2> QED
    BY <2>1, <2>2
<1>4. \A k \in Keys : Lifecycle!Offered(k)' = pool'[k]
  <2>1. (IInv => \A k \in Keys : Lifecycle!Offered(k) = pool[k])'
    BY OfferedIsPool, PTL
  <2> QED
    BY <2>1
<1>5. \A c \in Conns : StageOf(c)' = StageOf(c) \/
          <<StageOf(c), StageOf(c)'>> \in Lifecycle!Arcs
  <2> SUFFICES ASSUME NEW c \in Conns, StageOf(c)' # StageOf(c)
               PROVE  <<StageOf(c), StageOf(c)'>> \in Lifecycle!Arcs
    OBVIOUS
  <2>1. CASE StageOf(c)' = "closed"
    BY <1>1, <1>2, <1>3, <2>1
       DEF StepMoves, OnlyForward, StageFacts, Lifecycle!Arcs
  <2>2. CASE StageOf(c)' = "offered"
    BY <1>1, <1>2, <1>3, <2>2
       DEF StepMoves, OnlyForward, StageFacts, Pooled, Lifecycle!Arcs
  <2>3. CASE StageOf(c)' = "closing"
    BY <1>1, <1>2, <1>3, <2>3
       DEF StepMoves, OnlyForward, StageFacts, InClose, Lifecycle!Arcs
  <2>4. CASE StageOf(c)' = "dialled"
    BY <1>1, <1>2, <1>3, <2>4
       DEF StepMoves, OnlyForward, StageFacts, InTask, Lifecycle!Arcs
  <2>5. CASE StageOf(c)' = "leased"
    BY <1>1, <1>2, <1>3, <2>5
       DEF StepMoves, OnlyForward, StageFacts, InSession, Lifecycle!Arcs
  <2> QED
    BY <1>3, <2>1, <2>2, <2>3, <2>4, <2>5 DEF StageFacts
<1>6. \A c \in Conns : Pooled(c) /\ Pooled(c)' => SlotOf(c)' = SlotOf(c)
  <2> SUFFICES ASSUME NEW c \in Conns, Pooled(c), Pooled(c)'
               PROVE  SlotOf(c)' = SlotOf(c)
    OBVIOUS
  <2>1. ~InTask(c)
    BY <1>2 DEF StageFacts
  <2>2. PICK k \in Keys : c \in pool'[k]
    BY DEF Pooled
  <2>3. c \in pool[k]
    BY <1>1, <2>1, <2>2 DEF StepMoves, OnlyForward
  <2> QED
    BY <1>2, <1>3, <2>2, <2>3 DEF SlotFacts
<1>7. Lifecycle!LeasesOne
  BY <1>1, <1>2, <1>3
     DEF StepMoves, OneNewLease, NewLease, StageFacts, InSession,
         Lifecycle!LeasesOne
<1>8. Lifecycle!WithinSize'
  <2>1. \A S : Lifecycle!Cardinality(S) = Cardinality(S)
    BY DEF Cardinality, Lifecycle!Cardinality
  <2> QED
    BY <1>4, <2>1 DEF IInv, Capacity, Lifecycle!WithinSize
<1> QED
  BY <1>2, <1>3, <1>5, <1>6, <1>7, <1>8
     DEF StageFacts, SlotFacts, Lifecycle!Next, Lifecycle!Stages,
         Lifecycle!Moves, Lifecycle!KeepsSlot

(***************************************************************************)
(* The pool implements ConnLifecycle: whatever the interleaving, every     *)
(* connection is dialled, offered in one slot, leased at most once, and    *)
(* closed.                                                                 *)
(***************************************************************************)
THEOREM PoolRefinesLifecycle == Spec => ImplementsLifecycle
<1> QED
  BY InitRefines, StepRefines, PoolInvariant, PTL
     DEF Spec, ImplementsLifecycle, Lifecycle!Spec
-----------------------------------------------------------------------------
(***************************************************************************)
(* The work of a task is its own: others leave its variables alone, and    *)
(* its own steps take from them in the order of ComesCloser.               *)
(***************************************************************************)
StandsStill(t) ==
    /\ todo'[t] = todo[t] /\ need'[t] = need[t]
    /\ hand'[t] = hand[t] /\ closing'[t] = closing[t]

LEMMA StillIsFine == \A t : StandsStill(t) => ComesCloser(t)
BY DEF StandsStill, ComesCloser

LEMMA OwnStep ==
    ASSUME TypeOK, NEW t \in Tasks, TaskStep(t)
    PROVE  /\ ComesCloser(t)
           /\ \A u \in Tasks \ {t} : StandsStill(u)
<1> USE DEF TypeOK
<1>1. t \in Procs /\ Tasks \subseteq Procs /\ need[t] \in Nat
  BY PoolAssumption DEF Procs
<1>2. ASSUME NEW k \in Keys, RefillOne(t, k)
      PROVE  ComesCloser(t) /\ \A u \in Tasks \ {t} : StandsStill(u)
  BY <1>1, <1>2 DEF RefillOne, Rest, ComesCloser, Fewer, StandsStill
<1>3. CASE DialFail(t) \/ \E c \in Conns : DialOk(t, c)
  BY <1>1, <1>3 DEF DialFail, DialOk, Dialling, ComesCloser, StandsStill
<1>4. ASSUME NEW c \in Conns, Push(t, c)
      PROVE  ComesCloser(t) /\ \A u \in Tasks \ {t} : StandsStill(u)
  <2>1. /\ todo' = todo /\ hand[t] = {c} /\ hand' = [hand EXCEPT ![t] = {}]
        /\ need' = need \/ need' = [need EXCEPT ![t] = 0]
        /\ \A u \in Tasks \ {t} : closing'[u] = closing[u]
    BY <1>1, <1>4 DEF Push
  <2>2. Fewer(hand'[t], hand[t])
    BY <1>1, <2>1 DEF Fewer
  <2>3. need'[t] = need[t] \/ need'[t] < need[t]
    BY <1>1, <2>1
  <2>4. ComesCloser(t)
    BY <2>1, <2>2, <2>3 DEF ComesCloser
  <2>5. \A u \in Tasks \ {t} : StandsStill(u)
    BY <1>1, <2>1 DEF StandsStill
  <2> QED
    BY <2>4, <2>5
<1> QED
  BY <1>2, <1>3, <1>4 DEF TaskStep

(***************************************************************************)
(* No refill and no sweep goes on for ever: the steps a task at work has   *)
(* left are bounded by its own locals, for any number of tasks, sessions,  *)
(* slots and connections.                                                  *)
(***************************************************************************)
THEOREM WorkRunsOut == Spec => RefillsEnd
<1> DEFINE Closer == \A t \in Tasks : todo[t] # {} \/ ~Ready(t) => ComesCloser(t)
<1>1. TypeOK /\ [Next]_vars => [Closer]_vars
  <2> SUFFICES ASSUME TypeOK, Next, NEW t \in Tasks, todo[t] # {} \/ ~Ready(t)
               PROVE  ComesCloser(t)
    OBVIOUS
  <2>1. ~Sweep \/ t # Loop
    BY DEF Sweep
  <2>2. Loop \in Procs /\ t \in Procs /\ Tasks \subseteq Procs
    BY DEF Procs, Tasks
  <2>3. CASE Sweep
    BY <2>1, <2>2, <2>3, StillIsFine DEF Sweep, StandsStill, TypeOK
  <2>4. ASSUME NEW u \in Tasks, TaskStep(u) PROVE ComesCloser(t)
    BY <2>4, OwnStep, StillIsFine
  <2>5. ASSUME NEW p \in Procs, NEW c \in Conns, Close(p, c) PROVE ComesCloser(t)
    BY <2>2, <2>5 DEF Close, ComesCloser, TypeOK
  <2>6. ASSUME NEW s \in Sessions, SessionStep(s) PROVE ComesCloser(t)
    <3>1. s # t /\ s \in Procs
      BY PoolAssumption DEF Procs
    <3>2. StandsStill(t)
      BY <2>2, <2>6, <3>1
         DEF SessionStep, AcquireNoSlot, Acquire, EndUnserved, EndScheduling, Finish,
             StandsStill, TypeOK
    <3> QED
      BY <3>2, StillIsFine
  <2>7. CASE Reload \/ Tick
    BY <2>7, StillIsFine DEF Reload, Tick, StandsStill
  <2> QED
    BY <2>3, <2>4, <2>5, <2>6, <2>7 DEF Next
<1> QED
  BY <1>1, PoolTypes, PTL DEF Spec, RefillsEnd
=============================================================================
