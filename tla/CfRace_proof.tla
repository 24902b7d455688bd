---------------------------- MODULE CfRace_proof ----------------------------
(***************************************************************************)
(* Proofs about Cooldown429, for every base and cap of the backoff, every  *)
(* set of keys and every Retry-After; then about CfRace, which extends it, *)
(* for every set of sessions and domains, every window and number of slots.*)
(***************************************************************************)
EXTENDS CfRace, SequenceTheorems, TLAPS

-----------------------------------------------------------------------------
(* One entry of the map *)

\* A backoff is never zero and never beyond the cap.
LEMMA OwnDelayType ==
    ASSUME NEW e \in Entries \cup {None}
    PROVE  OwnDelay(e) \in 1 .. MaxDelay
BY BackoffAssumption, NoneIsNoEntry DEF OwnDelay, Least, Entries, Quiet

\* A mark leaves an entry of the map behind, running and not quiet.
LEMMA MarkedType ==
    ASSUME NEW e \in Entries \cup {None}, NEW r \in Nat
    PROVE  /\ NextDelay(e, r) \in 1 .. MaxDelay
           /\ Marked(e, r) \in Entries
           /\ ~ Quiet(Marked(e, r))
<1>1. NextDelay(e, r) \in 1 .. MaxDelay
    BY BackoffAssumption, OwnDelayType DEF NextDelay, Least
<1>2. Least(2 * OwnDelay(e), MaxDelay) \in 1 .. MaxDelay
    BY BackoffAssumption, OwnDelayType DEF Least
<1>3. NextDelay(e, r) \in -(MaxDelay + 1) .. MaxDelay
    BY <1>1, BackoffAssumption
<1>4. Marked(e, r) \in Entries
    BY <1>2, <1>3 DEF Marked, Entries
<1>5. ~ (NextDelay(e, r) < -MaxDelay)
    BY <1>1, BackoffAssumption
<1>6. ~ Quiet(Marked(e, r))
    BY <1>5 DEF Quiet, Marked
<1> QED BY <1>1, <1>4, <1>6

\* A tick keeps an entry an entry, with the strikes it has.
LEMMA AgedType ==
    ASSUME NEW e \in Entries
    PROVE  /\ Aged(e) \in Entries
           /\ Aged(e).next = e.next
           /\ Quiet(e) => Quiet(Aged(e))
BY BackoffAssumption, NoneIsNoEntry DEF Aged, Entries, Quiet

-----------------------------------------------------------------------------
(* Cooldown429 *)

\* A backoff once granted keeps its entry, with at least the double to come.
Remembering ==
    \A k \in Keys : granted[k] > 0 =>
        /\ map[k] # None /\ ~ Quiet(map[k])
        /\ map[k].next >= Least(2 * granted[k], MaxDelay)

CInv == TypeOK /\ Remembering

LEMMA CInvInit == Init => CInv
BY BackoffAssumption DEF Init, CInv, TypeOK, Remembering

LEMMA RemainingKeepsCInv ==
    ASSUME CInv, NEW k \in Keys, Remaining(k) PROVE CInv'
<1>1. TypeOK'
    BY DEF CInv, TypeOK, Remaining, Pruned
<1>2. Remembering'
    BY DEF CInv, TypeOK, Remembering, Remaining, Pruned
<1> QED BY <1>1, <1>2 DEF CInv

LEMMA MarkKeepsCInv ==
    ASSUME CInv, NEW k \in Keys, NEW r \in RetryAfters, MarkFor(k, r) PROVE CInv'
<1>1. map[k] \in Entries \cup {None} /\ r \in Nat /\ 0 \in Nat
    BY RetryAssumption DEF CInv, TypeOK
<1>2. /\ Marked(map[k], r) \in Entries
      /\ ~ Quiet(Marked(map[k], r))
      /\ NextDelay(map[k], 0) \in 1 .. MaxDelay
    BY <1>1, MarkedType
<1>3. TypeOK'
    BY <1>2, BackoffAssumption DEF CInv, TypeOK, MarkFor
<1>4. OwnDelay(map[k]) \in 1 .. MaxDelay
    BY <1>1, OwnDelayType
<1>5. map'[k] = Marked(map[k], r)
    BY DEF CInv, TypeOK, MarkFor
<1>6. map'[k].next = Least(2 * OwnDelay(map[k]), MaxDelay)
    BY <1>5 DEF Marked
<1>7. granted'[k] > 0 => map'[k].next >= Least(2 * granted'[k], MaxDelay)
    <2>1. CASE r = 0
        <3>1. granted'[k] = OwnDelay(map[k])
            BY <2>1 DEF CInv, TypeOK, MarkFor, NextDelay
        <3> QED BY <3>1, <1>4, <1>6, BackoffAssumption DEF Least
    <2>2. CASE r # 0
        <3>1. granted'[k] = granted[k]
            BY <2>2 DEF MarkFor
        <3>2. granted[k] > 0 => OwnDelay(map[k]) >= Least(2 * granted[k], MaxDelay)
            BY DEF CInv, Remembering, OwnDelay
        <3>3. granted[k] \in 0 .. MaxDelay
            BY DEF CInv, TypeOK
        <3> QED BY <3>1, <3>2, <3>3, <1>4, <1>6, BackoffAssumption DEF Least
    <2> QED BY <2>1, <2>2
<1>8. Remembering'
    <2> SUFFICES ASSUME NEW j \in Keys, granted'[j] > 0
                 PROVE  /\ map'[j] # None /\ ~ Quiet(map'[j])
                        /\ map'[j].next >= Least(2 * granted'[j], MaxDelay)
        BY DEF Remembering
    <2>1. CASE j = k
        BY <2>1, <1>2, <1>5, <1>7, NoneIsNoEntry
    <2>2. CASE j # k
        <3>1. map'[j] = map[j] /\ granted'[j] = granted[j]
            BY <2>2 DEF CInv, TypeOK, MarkFor
        <3> QED BY <3>1 DEF CInv, Remembering
    <2> QED BY <2>1, <2>2
<1> QED BY <1>3, <1>8 DEF CInv

LEMMA ClearKeepsCInv ==
    ASSUME CInv, NEW k \in Keys, Clear(k) PROVE CInv'
BY BackoffAssumption DEF CInv, TypeOK, Remembering, Clear

LEMMA TickKeepsCInv == ASSUME CInv, Tick PROVE CInv'
<1>1. TypeOK'
    <2>1. \A k \in Keys : Aged(map[k]) \in Entries \cup {None}
        BY AgedType DEF CInv, TypeOK, Aged
    <2> QED BY <2>1, BackoffAssumption DEF CInv, TypeOK, Tick
<1>2. Remembering'
    <2> SUFFICES ASSUME NEW k \in Keys, granted'[k] > 0
                 PROVE  /\ map'[k] # None /\ ~ Quiet(map'[k])
                        /\ map'[k].next >= Least(2 * granted'[k], MaxDelay)
        BY DEF Remembering
    <2>1. map[k] # None /\ ~ Quiet(Aged(map[k])) /\ granted'[k] = granted[k]
        BY DEF Tick
    <2>2. map'[k] = Aged(map[k]) /\ map[k] \in Entries
        BY <2>1 DEF CInv, TypeOK, Tick
    <2>3. map'[k] \in Entries /\ map'[k].next = map[k].next
        BY <2>2, AgedType
    <2>4. map[k].next >= Least(2 * granted[k], MaxDelay)
        BY <2>1 DEF CInv, Remembering
    <2> QED BY <2>1, <2>2, <2>3, <2>4, NoneIsNoEntry
<1> QED BY <1>1, <1>2 DEF CInv

LEMMA CInvStep == CInv /\ [Next]_vars => CInv'
<1> SUFFICES ASSUME CInv, [Next]_vars PROVE CInv'
    OBVIOUS
<1>1. CASE UNCHANGED vars
    BY <1>1 DEF vars, CInv, TypeOK, Remembering
<1> QED
    BY <1>1, RemainingKeepsCInv, MarkKeepsCInv, ClearKeepsCInv, TickKeepsCInv
    DEF Next

\* The inductive invariant of remaining(), mark_for() and clear().
THEOREM CooldownInvariant == Spec => []CInv
<1> QED BY CInvInit, CInvStep, PTL DEF Spec

(***************************************************************************)
(* The entries stay within the cap (next_delay(): "capped at `max`").      *)
(***************************************************************************)
THEOREM CooldownIsCapped == Spec => []TypeOK
<1>1. CInv => TypeOK
    BY DEF CInv
<1> QED BY <1>1, CooldownInvariant, PTL

(***************************************************************************)
(* A key that keeps answering 429 is backed off further each time          *)
(* (remaining(), mark_for()).                                              *)
(***************************************************************************)
THEOREM BackoffEscalates == Spec => Escalates
<1>1. ASSUME CInv, NEW k \in Keys, MarkFor(k, 0), granted[k] > 0
      PROVE  map'[k].left >= Least(2 * granted[k], MaxDelay)
    <2>1. map'[k].left = OwnDelay(map[k])
        BY <1>1 DEF CInv, TypeOK, MarkFor, Marked, NextDelay
    <2> QED BY <2>1, <1>1 DEF CInv, Remembering, OwnDelay
<1>2. CInv /\ [Next]_vars =>
        [\A k \in Keys : MarkFor(k, 0) /\ granted[k] > 0 =>
            map'[k].left >= Least(2 * granted[k], MaxDelay)]_vars
    BY <1>1
<1> QED BY <1>2, CooldownInvariant, PTL DEF Spec, Escalates

-----------------------------------------------------------------------------
\* The abstract module's operators are the ones of Backoff.
LEMMA StepMapsToMemory ==
    CInv /\ [Next]_vars => [Abstract!Next]_(Abstract!vars)
<1> SUFFICES ASSUME CInv, [Next]_vars PROVE [Abstract!Next]_(Abstract!vars)
    OBVIOUS
<1> USE DEF Abstract!Entries, Abstract!Least, Abstract!Quiet, Abstract!OwnDelay,
            Abstract!NextDelay, Abstract!Marked, Abstract!Aged
<1>1. ASSUME NEW k \in Keys, Remaining(k) PROVE UNCHANGED Abstract!vars
    <2>1. map' = [map EXCEPT ![k] = Pruned(map[k])]
        BY <1>1 DEF Remaining
    <2>2. Memory' = Memory
        BY <2>1 DEF Memory, Pruned, CInv, TypeOK
    <2> QED BY <1>1, <2>2 DEF Remaining, Abstract!vars
<1>2. ASSUME NEW k \in Keys, NEW r \in RetryAfters, MarkFor(k, r)
      PROVE  Abstract!Strike(k, r)
    <2>1. map' = [map EXCEPT ![k] = Marked(map[k], r)]
        BY <1>2 DEF MarkFor
    <2>2. Marked(map[k], r) # None /\ ~ Quiet(Marked(map[k], r))
        BY MarkedType, RetryAssumption, NoneIsNoEntry DEF CInv, TypeOK
    <2>3. Marked(Memory[k], r) = Marked(map[k], r)
        BY DEF Memory, Marked, NextDelay, OwnDelay
    <2>4. Memory' = [Memory EXCEPT ![k] = Marked(Memory[k], r)]
        <3>1. \A j \in Keys : map'[j] = IF j = k THEN Marked(map[k], r) ELSE map[j]
            BY <2>1 DEF CInv, TypeOK
        <3> HIDE DEF Quiet, Marked
        <3> QED BY <3>1, <2>2, <2>3 DEF Memory
    <2>5. Abstract!Marked(Memory[k], r) = Marked(Memory[k], r)
        BY DEF Marked, NextDelay, OwnDelay, Least, Quiet
    <2> QED BY <1>2, <2>4, <2>5 DEF MarkFor, Abstract!Strike
<1>3. ASSUME NEW k \in Keys, Clear(k) PROVE Abstract!Forgive(k)
    BY <1>3 DEF Clear, Abstract!Forgive, Memory, CInv, TypeOK
<1>4. ASSUME Tick PROVE Abstract!Pass
    <2>1. \A k \in Keys : Memory'[k] = Abstract!Remembered(Memory[k])
        <3> SUFFICES ASSUME NEW k \in Keys
                     PROVE  Memory'[k] = Abstract!Remembered(Memory[k])
            OBVIOUS
        <3>1. map'[k] = Aged(map[k]) /\ map[k] \in Entries \cup {None}
            BY <1>4 DEF Tick, CInv, TypeOK
        <3>2. CASE map[k] = None
            BY <3>1, <3>2 DEF Memory, Abstract!Remembered, Aged
        <3>3. CASE map[k] # None
            <4>1. Aged(map[k]) \in Entries /\ (Quiet(map[k]) => Quiet(Aged(map[k])))
                BY <3>1, <3>3, AgedType
            <4>2. Aged(map[k]) # None
                BY <4>1, NoneIsNoEntry
            <4>3. Memory'[k] = IF Quiet(Aged(map[k])) THEN None ELSE Aged(map[k])
                BY <3>1, <4>2 DEF Memory
            <4>4. Memory[k] = IF Quiet(map[k]) THEN None ELSE map[k]
                BY <3>3 DEF Memory
            <4>5. ~ Quiet(map[k]) =>
                    Abstract!Remembered(map[k]) =
                        IF Quiet(Aged(map[k])) THEN None ELSE Aged(map[k])
                BY <3>3 DEF Abstract!Remembered, Aged, Quiet
            <4>6. Abstract!Remembered(None) = None
                BY DEF Abstract!Remembered
            <4> HIDE DEF Abstract!Quiet, Abstract!Aged
            <4> QED BY <4>1, <4>3, <4>4, <4>5, <4>6
        <3> QED BY <3>2, <3>3
    <2>2. Memory' = [k \in Keys |-> Memory'[k]]
        BY DEF Memory
    <2> QED BY <1>4, <2>1, <2>2 DEF Tick, Abstract!Pass
<1>5. CASE UNCHANGED vars
    BY <1>5 DEF vars, Memory, Abstract!vars
<1> QED BY <1>1, <1>2, <1>3, <1>4, <1>5 DEF Next, Abstract!Next

(***************************************************************************)
(* Dropping an entry when remaining() happens on it is unobservable: the   *)
(* map implements the memory that forgets at the end of the quiet window.  *)
(***************************************************************************)
THEOREM CooldownRefinesMemory == Spec => ImplementsMemory
<1>1. Init => Abstract!Init
    BY DEF Init, Abstract!Init, Memory
<1> QED BY <1>1, StepMapsToMemory, CooldownInvariant, PTL
        DEF Spec, ImplementsMemory, Abstract!Spec

-----------------------------------------------------------------------------
(* CfRace *)


\* An open WebSocket is the one of a task that has it.
OpenOnesAreHad == open = {t \in Tasks : at[t] \in {"up", "won", "winner"}}

\* What is still to be joined has ended, once.
Ended ==
    \A s \in Sessions : \A i \in 1 .. Len(done[s]) :
        /\ at[done[s][i]] \in {"won", "lost"}
        /\ \A j \in 1 .. Len(done[s]) : done[s][i] = done[s][j] => i = j

Winners(s) == {t \in TasksOf(s) : at[t] = "winner"}

\* What the tasks of a session can be at, wherever it is.
StagedAt(s) ==
    /\ pc[s] = "idle" => \A t \in TasksOf(s) : at[t] = "none"
    /\ pc[s] = "primary" =>
          \A t \in TasksOf(s) \ {<<s, 1>>} : at[t] = "none"
    /\ pc[s] \in {"primary", "race"} => Winners(s) = {}
    /\ pc[s] \in {"drain", "relay"} => \E t \in TasksOf(s) : Winners(s) = {t}
    /\ pc[s] = "relay" => \A t \in TasksOf(s) : at[t] \in {"none", "winner"}

Staged == \A s \in Sessions : StagedAt(s)

\* A warned task looks next, and finds its domain cooling.
WarnedLook ==
    \A t \in warned : at[t] \in {"look", "lost"} /\ Cooling(Domain(t))

OwnTypes ==
    /\ pc \in [Sessions -> {"idle", "primary", "race", "drain", "relay"}]
    /\ at \in [Tasks -> Running \cup {"none", "won", "lost", "winner"}]
    /\ host \in [Tasks -> 1 .. 2]
    /\ done \in [Sessions -> Seq(Tasks)]
    /\ \A s \in Sessions : done[s] \in Seq(TasksOf(s))
    /\ open \subseteq Tasks
    /\ warned \subseteq Tasks

RInv == OwnTypes /\ OpenOnesAreHad /\ Ended /\ Staged /\ WarnedLook

-----------------------------------------------------------------------------
LEMMA TaskFacts ==
    /\ \A t \in Tasks : t[1] \in Sessions /\ t \in TasksOf(t[1])
    /\ \A s \in Sessions : TasksOf(s) \subseteq Tasks /\ <<s, 1>> \in TasksOf(s)
    /\ \A s \in Sessions : \A t \in TasksOf(s) : t[1] = s
    /\ \A t \in Tasks : Domain(t) \in Keys
<1>1. \A s \in Sessions : WindowOf[s] \in Seq(Keys) /\ Len(WindowOf[s]) >= 1
    BY RaceAssumption
<1>2. \A s \in Sessions : \A t \in TasksOf(s) :
        t[1] = s /\ t[2] \in 1 .. Len(WindowOf[s])
    BY DEF TasksOf
<1>3. \A s \in Sessions : <<s, 1>> \in TasksOf(s)
    BY <1>1 DEF TasksOf
<1>4. \A s \in Sessions : TasksOf(s) \subseteq Tasks
    BY DEF Tasks
<1>5. \A t \in Tasks : t[1] \in Sessions /\ t \in TasksOf(t[1])
    BY <1>2 DEF Tasks
<1>6. \A t \in Tasks : Domain(t) \in Keys
    <2> TAKE t \in Tasks
    <2>1. t[1] \in Sessions /\ t[2] \in 1 .. Len(WindowOf[t[1]])
        BY <1>5, <1>2
    <2>2. WindowOf[t[1]] \in Seq(Keys)
        BY <2>1, <1>1
    <2> QED BY <2>1, <2>2 DEF Domain
<1> QED BY <1>2, <1>3, <1>4, <1>5, <1>6

LEMMA RInvInit == RaceInit => RInv
<1> SUFFICES ASSUME RaceInit PROVE RInv
    OBVIOUS
<1>1. OwnTypes
    BY DEF RaceInit, OwnTypes
<1>2. OpenOnesAreHad /\ Ended /\ WarnedLook
    BY DEF RaceInit, OpenOnesAreHad, Ended, WarnedLook
<1>3. Staged
    BY TaskFacts DEF RaceInit, Staged, StagedAt
<1> QED BY <1>1, <1>2, <1>3 DEF RInv

\* What a step of a task does to it, and to nothing else.
MovesTo(t, there) ==
    /\ at[t] \in Running
    /\ there \in Running \cup {"won", "lost", "none"}
    /\ there = "none" => pc[t[1]] = "drain"
    /\ at' = [at EXCEPT ![t] = there]
    /\ done' = IF there \in {"won", "lost"}
               THEN [done EXCEPT ![t[1]] = Append(@, t)] ELSE done
    /\ open' = IF there \in {"up", "won"} THEN open \cup {t} ELSE open \ {t}
    /\ host' \in [Tasks -> 1 .. 2]
    /\ pc' = pc

LEMMA TaskMoves ==
    ASSUME RInv, NEW t \in Tasks, TaskStep(t)
    PROVE  \E there : MovesTo(t, there)
<1> USE DEF Running, Waiting, Dialling
<1>0. /\ t[1] \in Sessions /\ HostsOf[t[1]] \in 1 .. 2
      /\ host \in [Tasks -> 1 .. 2] /\ host[t] \in 1 .. 2
      /\ \A n \in 1 .. 2 : [host EXCEPT ![t] = n] \in [Tasks -> 1 .. 2]
      /\ t \in open <=> at[t] \in {"up", "won", "winner"}
    BY TaskFacts, RaceAssumption DEF RInv, OwnTypes, OpenOnesAreHad
<1> USE DEF Goto, Ends, MovesTo
<1>1. CASE Look(t)
    <2>1. CASE Cooling(Domain(t))
        <3>1. MovesTo(t, "lost")
            BY <1>0, <1>1, <2>1 DEF Look
        <3> QED BY <3>1
    <2>2. CASE ~ Cooling(Domain(t))
        <3>1. MovesTo(t, "wait")
            BY <1>0, <1>1, <2>2 DEF Look
        <3> QED BY <3>1
    <2> QED BY <2>1, <2>2
<1>2. CASE Acquire(t)
    <2>1. MovesTo(t, "dial")
        BY <1>0, <1>2 DEF Acquire
    <2> QED BY <2>1
<1>3. CASE DialConnects(t)
    <2>1. MovesTo(t, "up")
        BY <1>0, <1>3 DEF DialConnects
    <2> QED BY <2>1
<1>4. CASE \E r \in RetryAfters : DialLimited(t, r)
    <2>1. MovesTo(t, "lost")
        BY <1>0, <1>4 DEF DialLimited
    <2> QED BY <2>1
<1>5. CASE DialFails(t)
    <2>1. MovesTo(t, "doh")
        BY <1>0, <1>5 DEF DialFails
    <2> QED BY <2>1
<1>6. CASE GivesUp(t)
    <2>1. CASE host[t] < HostsOf[t[1]]
        <3>1. host[t] + 1 \in 1 .. 2
            BY <1>0, <2>1
        <3>2. MovesTo(t, "dial")
            BY <1>0, <1>6, <2>1, <3>1 DEF GivesUp, NextHost
        <3> QED BY <3>2
    <2>2. CASE ~ (host[t] < HostsOf[t[1]])
        <3>1. MovesTo(t, "lost")
            BY <1>0, <1>6, <2>2 DEF GivesUp, NextHost
        <3> QED BY <3>1
    <2> QED BY <2>1, <2>2
<1>7. CASE TimesOut(t)
    <2>1. MovesTo(t, "lost")
        BY <1>0, <1>7 DEF TimesOut
    <2> QED BY <2>1
<1>8. CASE SendsInit(t)
    <2>1. MovesTo(t, "won") \/ MovesTo(t, "lost")
        BY <1>0, <1>8 DEF SendsInit, Closed
    <2> QED BY <2>1
<1>9. CASE Cancelled(t)
    <2>1. MovesTo(t, "none")
        BY <1>0, <1>9 DEF Cancelled
    <2> QED BY <2>1
<1> QED BY <1>1, <1>2, <1>3, <1>4, <1>5, <1>6, <1>7, <1>8, <1>9 DEF TaskStep

-----------------------------------------------------------------------------
\* The parts of the invariant that are about the tasks and their sessions.
Consistent == OwnTypes /\ OpenOnesAreHad /\ Ended /\ Staged

LEMMA MoveKeepsConsistent ==
    ASSUME Consistent, NEW t \in Tasks, NEW there, MovesTo(t, there),
           warned' \subseteq Tasks
    PROVE  Consistent'
<1>1. /\ at \in [Tasks -> Running \cup {"none", "won", "lost", "winner"}]
      /\ done \in [Sessions -> Seq(Tasks)]
      /\ \A s \in Sessions : done[s] \in Seq(TasksOf(s))
      /\ t[1] \in Sessions /\ t \in TasksOf(t[1])
      /\ at[t] \notin {"none", "won", "lost", "winner"}
    BY TaskFacts DEF Consistent, OwnTypes, MovesTo, Running, Waiting, Dialling
<1>2. \A u \in Tasks : at'[u] = IF u = t THEN there ELSE at[u]
    BY <1>1 DEF MovesTo
<1>3. there \in Running \cup {"won", "lost", "none"} /\ there # "winner"
    BY DEF MovesTo, Running, Waiting, Dialling
<1>4. /\ done' \in [Sessions -> Seq(Tasks)]
      /\ \A s \in Sessions : done'[s] \in Seq(TasksOf(s))
    <2>1. CASE there \in {"won", "lost"}
        <3>1. done' = [done EXCEPT ![t[1]] = Append(done[t[1]], t)]
            BY <2>1 DEF MovesTo
        <3> QED BY <1>1, <3>1
    <2>2. CASE there \notin {"won", "lost"}
        BY <1>1, <2>2 DEF MovesTo
    <2> QED BY <2>1, <2>2
<1>5. OwnTypes'
    <2>1. at' \in [Tasks -> Running \cup {"none", "won", "lost", "winner"}]
        BY <1>1, <1>3 DEF MovesTo
    <2>2. open' \subseteq Tasks /\ pc' = pc /\ host' \in [Tasks -> 1 .. 2]
        BY DEF MovesTo, Consistent, OwnTypes
    <2> QED BY <2>1, <2>2, <1>4 DEF Consistent, OwnTypes
<1>6. OpenOnesAreHad'
    <2>1. there \in {"up", "won"} <=> there \in {"up", "won", "winner"}
        BY <1>3
    <2>2. open' = {u \in Tasks : at'[u] \in {"up", "won", "winner"}}
        BY <1>2, <2>1 DEF MovesTo, Consistent, OpenOnesAreHad
    <2> QED BY <2>2 DEF OpenOnesAreHad
<1>7. Ended'
    <2> SUFFICES ASSUME NEW s \in Sessions, NEW i \in 1 .. Len(done'[s])
                 PROVE  /\ at'[done'[s][i]] \in {"won", "lost"}
                        /\ \A j \in 1 .. Len(done'[s]) :
                              done'[s][i] = done'[s][j] => i = j
        BY DEF Ended
    <2>1. \A j \in 1 .. Len(done[s]) : /\ done[s][j] \in Tasks
                                       /\ at'[done[s][j]] \in {"won", "lost"}
                                       /\ done[s][j] # t
        <3> SUFFICES ASSUME NEW j \in 1 .. Len(done[s])
                     PROVE  /\ done[s][j] \in Tasks
                            /\ at'[done[s][j]] \in {"won", "lost"}
                            /\ done[s][j] # t
            OBVIOUS
        <3>1. done[s][j] \in Tasks
            BY <1>1
        <3>2. at[done[s][j]] \in {"won", "lost"}
            BY DEF Consistent, Ended
        <3>3. done[s][j] # t
            BY <1>1, <3>2
        <3> QED BY <3>1, <3>2, <3>3, <1>2
    <2>2. \A j, k \in 1 .. Len(done[s]) : done[s][j] = done[s][k] => j = k
        BY DEF Consistent, Ended
    <2>3. CASE there \in {"won", "lost"} /\ s = t[1]
        <3>1. done'[s] = Append(done[s], t)
            BY <1>1, <2>3 DEF MovesTo
        <3>2. /\ Len(done'[s]) = Len(done[s]) + 1 /\ Len(done[s]) \in Nat
              /\ done'[s][Len(done[s]) + 1] = t
              /\ \A j \in 1 .. Len(done[s]) : done'[s][j] = done[s][j]
            BY <3>1, <1>1
        <3>3. at'[t] \in {"won", "lost"}
            BY <1>2, <2>3
        <3>4. i \in 1 .. Len(done[s]) \/ i = Len(done[s]) + 1
            BY <3>2
        <3>5. at'[done'[s][i]] \in {"won", "lost"}
            BY <2>1, <3>2, <3>3, <3>4
        <3>6. ASSUME NEW j \in 1 .. Len(done'[s]), done'[s][i] = done'[s][j]
              PROVE  i = j
            <4>1. j \in 1 .. Len(done[s]) \/ j = Len(done[s]) + 1
                BY <3>2
            <4>2. CASE i \in 1 .. Len(done[s]) /\ j \in 1 .. Len(done[s])
                BY <4>2, <3>2, <3>6, <2>2
            <4>3. CASE i = Len(done[s]) + 1 /\ j \in 1 .. Len(done[s])
                BY <4>3, <3>2, <3>6, <2>1
            <4>4. CASE i \in 1 .. Len(done[s]) /\ j = Len(done[s]) + 1
                BY <4>4, <3>2, <3>6, <2>1
            <4> QED BY <3>4, <4>1, <4>2, <4>3, <4>4
        <3> QED BY <3>5, <3>6
    <2>4. CASE ~ (there \in {"won", "lost"} /\ s = t[1])
        <3>1. done'[s] = done[s]
            BY <1>1, <2>4 DEF MovesTo
        <3> QED BY <3>1, <2>1, <2>2
    <2> QED BY <2>3, <2>4
<1>8. Staged'
    <2> SUFFICES ASSUME NEW s \in Sessions PROVE StagedAt(s)'
        BY DEF Staged
    <2>1. Winners(s)' = Winners(s)
        <3>1. \A u \in TasksOf(s) : at'[u] = "winner" <=> at[u] = "winner"
            BY <1>1, <1>2, <1>3, TaskFacts
        <3> QED BY <3>1 DEF Winners
    <2>2. \A u \in TasksOf(s) : at[u] \in {"none", "winner"} => at'[u] = at[u]
        BY <1>1, <1>2, TaskFacts
    <2> QED BY <2>1, <2>2 DEF Consistent, Staged, StagedAt, MovesTo
<1> QED BY <1>5, <1>6, <1>7, <1>8 DEF Consistent

-----------------------------------------------------------------------------
\* Joining a task takes it, and no other, off what is still to be joined.
LEMMA JoinFacts ==
    ASSUME Consistent, NEW s \in Sessions, JoinFirst(s)
    PROVE  /\ Joined(s) \in TasksOf(s) /\ Joined(s) \in Tasks
           /\ at[Joined(s)] \in {"won", "lost"}
           /\ done' \in [Sessions -> Seq(Tasks)]
           /\ \A r \in Sessions : done'[r] \in Seq(TasksOf(r))
           /\ \A r \in Sessions : \A i \in 1 .. Len(done'[r]) :
                 /\ done'[r][i] \in TasksOf(r)
                 /\ at[done'[r][i]] \in {"won", "lost"}
                 /\ done'[r][i] # Joined(s)
                 /\ \A j \in 1 .. Len(done'[r]) :
                       done'[r][i] = done'[r][j] => i = j
<1>1. /\ done \in [Sessions -> Seq(Tasks)]
      /\ \A r \in Sessions : done[r] \in Seq(TasksOf(r))
      /\ done[s] # <<>>
      /\ done' = [done EXCEPT ![s] = Tail(done[s])]
    BY DEF Consistent, OwnTypes, JoinFirst
<1>2. /\ Len(done[s]) \in Nat \ {0} /\ Joined(s) = done[s][1]
      /\ Joined(s) \in TasksOf(s)
      /\ Tail(done[s]) \in Seq(TasksOf(s)) /\ Tail(done[s]) \in Seq(Tasks)
      /\ Len(Tail(done[s])) = Len(done[s]) - 1
      /\ \A i \in 1 .. Len(Tail(done[s])) : Tail(done[s])[i] = done[s][i + 1]
    BY <1>1 DEF Joined
<1>3. /\ done' \in [Sessions -> Seq(Tasks)]
      /\ \A r \in Sessions : done'[r] \in Seq(TasksOf(r))
    BY <1>1, <1>2
<1>4. \A r \in Sessions : \A i \in 1 .. Len(done[r]) :
        /\ done[r][i] \in TasksOf(r)
        /\ at[done[r][i]] \in {"won", "lost"}
        /\ \A j \in 1 .. Len(done[r]) : done[r][i] = done[r][j] => i = j
    BY <1>1 DEF Consistent, Ended
<1>5. Joined(s) \in Tasks /\ at[Joined(s)] \in {"won", "lost"}
    BY <1>2, <1>4, TaskFacts
<1>6. ASSUME NEW r \in Sessions, NEW i \in 1 .. Len(done'[r])
      PROVE  /\ done'[r][i] \in TasksOf(r)
             /\ at[done'[r][i]] \in {"won", "lost"}
             /\ done'[r][i] # Joined(s)
             /\ \A j \in 1 .. Len(done'[r]) : done'[r][i] = done'[r][j] => i = j
    <2>1. CASE r = s
        <3>1. /\ done'[s] = Tail(done[s])
              /\ i + 1 \in 1 .. Len(done[s]) /\ 1 \in 1 .. Len(done[s])
              /\ i + 1 # 1
            BY <2>1, <1>1, <1>2
        <3>2. /\ done'[s][i] = done[s][i + 1]
              /\ \A j \in 1 .. Len(done'[s]) :
                    done'[s][j] = done[s][j + 1] /\ j + 1 \in 1 .. Len(done[s])
            BY <2>1, <1>2, <3>1
        <3>3. done'[s][i] # Joined(s)
            BY <3>1, <3>2, <1>2, <1>4
        <3>4. \A j \in 1 .. Len(done'[s]) : done'[s][i] = done'[s][j] => i + 1 = j + 1
            BY <3>1, <3>2, <1>4
        <3> QED BY <2>1, <3>1, <3>2, <3>3, <3>4, <1>4
    <2>2. CASE r # s
        <3>1. done'[r] = done[r]
            BY <2>2, <1>1
        <3> QED BY <2>2, <3>1, <1>4, <1>2, TaskFacts
    <2> QED BY <2>1, <2>2
<1> QED BY <1>2, <1>3, <1>5, <1>6

\* A join after which the joined task is no longer one that has ended, and the
\* others of other sessions are as before.
LEMMA JoinKeepsEnded ==
    ASSUME Consistent, NEW s \in Sessions, JoinFirst(s),
           \A t \in Tasks : at[t] \in {"won", "lost"} /\ t # Joined(s) => at'[t] = at[t]
    PROVE  Ended'
<1>1. \A r \in Sessions : \A i \in 1 .. Len(done'[r]) : done'[r][i] \in Tasks
    BY JoinFacts, TaskFacts
<1> QED BY <1>1, JoinFacts DEF Ended

\* A step of one session leaves the tasks of the others alone.
LEMMA OthersStayStaged ==
    ASSUME Consistent, NEW s \in Sessions, StagedAt(s)',
           \A r \in Sessions \ {s} : pc'[r] = pc[r],
           \A t \in Tasks \ TasksOf(s) : at'[t] = at[t]
    PROVE  Staged'
<1> SUFFICES ASSUME NEW r \in Sessions \ {s} PROVE StagedAt(r)'
    BY DEF Staged
<1>1. \A t \in TasksOf(r) : at'[t] = at[t]
    BY TaskFacts
<1>2. Winners(r)' = Winners(r)
    BY <1>1 DEF Winners
<1> QED BY <1>1, <1>2 DEF Consistent, Staged, StagedAt

LEMMA SessionKeepsConsistent ==
    ASSUME Consistent, NEW s \in Sessions, SessionStep(s), warned' \subseteq Tasks
    PROVE  Consistent'
<1>1. /\ at \in [Tasks -> Running \cup {"none", "won", "lost", "winner"}]
      /\ pc \in [Sessions -> {"idle", "primary", "race", "drain", "relay"}]
      /\ host \in [Tasks -> 1 .. 2] /\ open \subseteq Tasks
      /\ done \in [Sessions -> Seq(Tasks)]
      /\ \A r \in Sessions : done[r] \in Seq(TasksOf(r))
      /\ \A t \in Tasks : t \in open <=> at[t] \in {"up", "won", "winner"}
      /\ StagedAt(s)
    BY DEF Consistent, OwnTypes, OpenOnesAreHad, Staged
<1>2. /\ TasksOf(s) \subseteq Tasks /\ <<s, 1>> \in TasksOf(s) /\ <<s, 1>> \in Tasks
      /\ {"none", "look", "winner"} \cap {"won", "lost"} = {}
      /\ "winner" \notin Running /\ "look" \in Running
    BY TaskFacts DEF Running, Waiting, Dialling
<1>3. CASE Begin(s)
    <2>1. \A t \in Tasks : at'[t] = IF t = <<s, 1>> THEN "look" ELSE at[t]
        BY <1>1, <1>2, <1>3 DEF Begin, Goto
    <2>2. pc' = [pc EXCEPT ![s] = "primary"] /\ pc[s] = "idle"
        BY <1>3 DEF Begin
    <2>3. \A t \in TasksOf(s) : at[t] = "none"
        BY <2>2, <1>1 DEF StagedAt
    <2>4. OwnTypes'
        <3>1. at' \in [Tasks -> Running \cup {"none", "won", "lost", "winner"}]
            BY <1>1, <1>2, <1>3 DEF Begin, Goto
        <3> QED BY <3>1, <1>1, <1>3, <2>2 DEF Begin, OwnTypes
    <2>5. OpenOnesAreHad'
        BY <1>1, <1>2, <1>3, <2>1, <2>3 DEF Begin, OpenOnesAreHad
    <2>6. Ended'
        <3>1. \A r \in Sessions : \A i \in 1 .. Len(done[r]) :
                done[r][i] \in Tasks /\ at[done[r][i]] \in {"won", "lost"}
            BY <1>1 DEF Consistent, Ended
        <3>2. \A t \in Tasks : at[t] \in {"won", "lost"} => at'[t] = at[t]
            BY <2>1, <2>3, <1>2
        <3> QED BY <3>1, <3>2, <1>3 DEF Begin, Consistent, Ended
    <2>7. Staged'
        <3>1. StagedAt(s)'
            <4>1. Winners(s)' = {}
                BY <2>1, <2>3, <1>2 DEF Winners
            <4> QED BY <4>1, <2>1, <2>2, <2>3, <1>1, <1>2 DEF StagedAt
        <3> QED BY <3>1, <2>1, <2>2, <1>1, <1>2, OthersStayStaged
    <2> QED BY <2>4, <2>5, <2>6, <2>7 DEF Consistent
<1>4. CASE Wins(s)
    <2>1. /\ JoinFirst(s) /\ at[Joined(s)] = "won" /\ pc[s] \in {"primary", "race"}
          /\ at' = [at EXCEPT ![Joined(s)] = "winner"]
          /\ pc' = [pc EXCEPT ![s] = IF @ = "primary" THEN "relay" ELSE "drain"]
          /\ UNCHANGED <<host, open>>
        BY <1>4 DEF Wins, Goto
    <2>2. Joined(s) \in TasksOf(s) /\ Joined(s) \in Tasks
        BY <2>1, JoinFacts
    <2>3. \A t \in Tasks : at'[t] = IF t = Joined(s) THEN "winner" ELSE at[t]
        BY <1>1, <2>1, <2>2
    <2>4. OwnTypes'
        <3>1. at' \in [Tasks -> Running \cup {"none", "won", "lost", "winner"}]
            BY <1>1, <2>1, <2>2
        <3> QED BY <3>1, <1>1, <2>1, JoinFacts DEF OwnTypes
    <2>5. OpenOnesAreHad'
        BY <1>1, <2>1, <2>2, <2>3 DEF OpenOnesAreHad
    <2>6. Ended'
        BY <2>1, <2>3, JoinKeepsEnded
    <2>7. Staged'
        <3>1. Winners(s)' = {Joined(s)}
            BY <2>1, <2>2, <2>3, <1>1, <1>2 DEF StagedAt, Winners
        <3>2. pc[s] = "primary" => \A t \in TasksOf(s) \ {Joined(s)} : at[t] = "none"
            BY <2>1, <2>2, <1>1, <1>2 DEF StagedAt
        <3>3. StagedAt(s)'
            BY <3>1, <3>2, <2>1, <2>2, <2>3, <1>1, <1>2 DEF StagedAt
        <3>4. \A r \in Sessions \ {s} : pc'[r] = pc[r]
            BY <2>1, <1>1
        <3>5. \A t \in Tasks \ TasksOf(s) : at'[t] = at[t]
            BY <2>2, <2>3
        <3> QED BY <3>3, <3>4, <3>5, OthersStayStaged
    <2> QED BY <2>4, <2>5, <2>6, <2>7 DEF Consistent
<1>5. CASE PrimaryLost(s)
    <2>1. /\ JoinFirst(s) /\ at[Joined(s)] = "lost" /\ pc[s] = "primary"
          /\ at' = [t \in Tasks |-> IF t \notin TasksOf(s) THEN at[t]
                                    ELSE IF t = Joined(s) THEN "none" ELSE "look"]
          /\ pc' = [pc EXCEPT ![s] = IF Len(WindowOf[s]) > 1 THEN "race" ELSE "idle"]
          /\ UNCHANGED <<host, open>>
        BY <1>5 DEF PrimaryLost
    <2>2. Joined(s) \in TasksOf(s) /\ Joined(s) = <<s, 1>>
        BY <2>1, <1>1, <1>2, JoinFacts DEF StagedAt
    <2>3. \A t \in TasksOf(s) \ {Joined(s)} : at[t] = "none"
        BY <2>1, <2>2, <1>1 DEF StagedAt
    <2>4. OwnTypes'
        <3>1. at' \in [Tasks -> Running \cup {"none", "won", "lost", "winner"}]
            BY <1>1, <1>2, <2>1
        <3> QED BY <3>1, <1>1, <2>1, JoinFacts DEF OwnTypes
    <2>5. OpenOnesAreHad'
        BY <1>1, <1>2, <2>1, <2>3 DEF OpenOnesAreHad
    <2>6. Ended'
        <3>1. \A t \in Tasks : at[t] \in {"won", "lost"} /\ t # Joined(s) => at'[t] = at[t]
            BY <2>1, <2>3, <1>2
        <3> QED BY <3>1, <2>1, JoinKeepsEnded
    <2>7. Staged'
        <3>1. Winners(s)' = {}
            BY <2>1, <1>2 DEF Winners
        <3>2. Len(WindowOf[s]) = 1 => TasksOf(s) = {<<s, 1>>}
            BY DEF TasksOf
        <3>3. Len(WindowOf[s]) \in Nat \ {0}
            BY RaceAssumption
        <3>4. pc'[s] = "idle" => TasksOf(s) = {Joined(s)}
            <4>1. pc'[s] = IF Len(WindowOf[s]) > 1 THEN "race" ELSE "idle"
                BY <2>1, <1>1
            <4>2. \A n \in Nat \ {0} : n > 1 \/ n = 1
                OBVIOUS
            <4> QED BY <4>1, <4>2, <2>2, <3>2, <3>3
        <3>5. pc'[s] \in {"race", "idle"}
            BY <2>1, <1>1
        <3>6. StagedAt(s)'
            BY <3>1, <3>4, <3>5, <2>1, <2>2, <1>2 DEF StagedAt
        <3>7. \A r \in Sessions \ {s} : pc'[r] = pc[r]
            BY <2>1, <1>1
        <3>8. \A t \in Tasks \ TasksOf(s) : at'[t] = at[t]
            BY <2>1
        <3> QED BY <3>6, <3>7, <3>8, OthersStayStaged
    <2> QED BY <2>4, <2>5, <2>6, <2>7 DEF Consistent
<1>6. CASE RacerLost(s)
    <2>1. /\ JoinFirst(s) /\ at[Joined(s)] = "lost" /\ pc[s] = "race"
          /\ at' = [at EXCEPT ![Joined(s)] = "none"]
          /\ pc' = [pc EXCEPT ![s] =
                IF \A t \in TasksOf(s) \ {Joined(s)} : at[t] = "none" THEN "idle" ELSE @]
          /\ UNCHANGED <<host, open>>
        BY <1>6 DEF RacerLost, Goto
    <2>2. Joined(s) \in TasksOf(s) /\ Joined(s) \in Tasks
        BY <2>1, JoinFacts
    <2>3. \A t \in Tasks : at'[t] = IF t = Joined(s) THEN "none" ELSE at[t]
        BY <1>1, <2>1, <2>2
    <2>4. OwnTypes'
        <3>1. at' \in [Tasks -> Running \cup {"none", "won", "lost", "winner"}]
            BY <1>1, <2>1, <2>2
        <3> QED BY <3>1, <1>1, <2>1, JoinFacts DEF OwnTypes
    <2>5. OpenOnesAreHad'
        BY <1>1, <2>1, <2>2, <2>3 DEF OpenOnesAreHad
    <2>6. Ended'
        BY <2>1, <2>3, JoinKeepsEnded
    <2>7. Staged'
        <3>1. Winners(s)' = {}
            BY <2>1, <2>3, <1>1, <1>2 DEF StagedAt, Winners
        <3>2. pc'[s] \in {"race", "idle"}
            BY <2>1, <1>1
        <3>3. pc'[s] = "idle" => \A t \in TasksOf(s) \ {Joined(s)} : at[t] = "none"
            BY <2>1, <1>1
        <3>4. StagedAt(s)'
            BY <3>1, <3>2, <3>3, <2>3, <1>2 DEF StagedAt
        <3>5. \A r \in Sessions \ {s} : pc'[r] = pc[r]
            BY <2>1, <1>1
        <3>6. \A t \in Tasks \ TasksOf(s) : at'[t] = at[t]
            BY <2>2, <2>3
        <3> QED BY <3>4, <3>5, <3>6, OthersStayStaged
    <2> QED BY <2>4, <2>5, <2>6, <2>7 DEF Consistent
<1>7. CASE Drains(s)
    <2>1. /\ JoinFirst(s) /\ pc[s] = "drain"
          /\ at' = [at EXCEPT ![Joined(s)] = "none"]
          /\ open' = IF at[Joined(s)] = "won" THEN open \ {Joined(s)} ELSE open
          /\ UNCHANGED <<pc, host>>
        BY <1>7 DEF Drains, Goto, Closed
    <2>2. /\ Joined(s) \in TasksOf(s) /\ Joined(s) \in Tasks
          /\ at[Joined(s)] \in {"won", "lost"}
        BY <2>1, JoinFacts
    <2>3. \A t \in Tasks : at'[t] = IF t = Joined(s) THEN "none" ELSE at[t]
        BY <1>1, <2>1, <2>2
    <2>4. OwnTypes'
        <3>1. at' \in [Tasks -> Running \cup {"none", "won", "lost", "winner"}]
            BY <1>1, <2>1, <2>2
        <3> QED BY <3>1, <1>1, <2>1, JoinFacts DEF OwnTypes
    <2>5. OpenOnesAreHad'
        BY <1>1, <2>1, <2>2, <2>3 DEF OpenOnesAreHad
    <2>6. Ended'
        BY <2>1, <2>3, JoinKeepsEnded
    <2>7. Staged'
        <3>1. Winners(s)' = Winners(s)
            BY <2>2, <2>3, <1>2 DEF Winners
        <3>2. StagedAt(s)'
            BY <3>1, <2>1, <2>3, <1>1, <1>2 DEF StagedAt
        <3>3. \A t \in Tasks \ TasksOf(s) : at'[t] = at[t]
            BY <2>2, <2>3
        <3> QED BY <2>1, <3>2, <3>3, OthersStayStaged
    <2> QED BY <2>4, <2>5, <2>6, <2>7 DEF Consistent
<1>8. CASE Drained(s)
    <2>1. /\ pc[s] = "drain" /\ \A t \in TasksOf(s) : at[t] \in {"none", "winner"}
          /\ pc' = [pc EXCEPT ![s] = "relay"]
          /\ UNCHANGED <<at, host, done, open>>
        BY <1>8 DEF Drained
    <2>2. OwnTypes' /\ OpenOnesAreHad' /\ Ended'
        BY <2>1, <1>1 DEF Consistent, OwnTypes, OpenOnesAreHad, Ended
    <2>3. Staged'
        <3>1. Winners(s)' = Winners(s)
            BY <2>1 DEF Winners
        <3>2. StagedAt(s)'
            BY <3>1, <2>1, <1>1 DEF StagedAt
        <3>3. \A r \in Sessions \ {s} : pc'[r] = pc[r]
            BY <2>1, <1>1
        <3> QED BY <2>1, <3>2, <3>3, OthersStayStaged
    <2> QED BY <2>2, <2>3 DEF Consistent
<1>9. CASE Relays(s)
    <2>1. /\ pc[s] = "relay" /\ pc' = [pc EXCEPT ![s] = "idle"]
          /\ at' = [t \in Tasks |-> IF t \in TasksOf(s) THEN "none" ELSE at[t]]
          /\ open' = {t \in open : at[t] # "winner" \/ t \notin TasksOf(s)}
          /\ UNCHANGED <<host, done>>
        BY <1>9 DEF Relays
    <2>2. \A t \in TasksOf(s) : at[t] \in {"none", "winner"}
        BY <2>1, <1>1 DEF StagedAt
    <2>3. OwnTypes'
        <3>1. at' \in [Tasks -> Running \cup {"none", "won", "lost", "winner"}]
            BY <1>1, <2>1
        <3> QED BY <3>1, <1>1, <2>1 DEF Consistent, OwnTypes
    <2>4. OpenOnesAreHad'
        BY <1>1, <1>2, <2>1, <2>2 DEF OpenOnesAreHad
    <2>5. Ended'
        <3>1. \A t \in Tasks : at[t] \in {"won", "lost"} => at'[t] = at[t]
            BY <2>1, <2>2, <1>2
        <3>2. \A r \in Sessions : \A i \in 1 .. Len(done[r]) :
                done[r][i] \in Tasks /\ at[done[r][i]] \in {"won", "lost"}
            BY <1>1 DEF Consistent, Ended
        <3> QED BY <3>1, <3>2, <2>1 DEF Consistent, Ended
    <2>6. Staged'
        <3>1. StagedAt(s)'
            BY <2>1, <1>1, <1>2 DEF StagedAt
        <3>2. \A r \in Sessions \ {s} : pc'[r] = pc[r]
            BY <2>1, <1>1
        <3>3. \A t \in Tasks \ TasksOf(s) : at'[t] = at[t]
            BY <2>1
        <3> QED BY <3>1, <3>2, <3>3, OthersStayStaged
    <2> QED BY <2>3, <2>4, <2>5, <2>6 DEF Consistent
<1> QED BY <1>3, <1>4, <1>5, <1>6, <1>7, <1>8, <1>9 DEF SessionStep

-----------------------------------------------------------------------------
\* A step of a task on its own domain is a step of the cooldown map, or none.
LEMMA RaceStepsAreMapSteps ==
    RaceNext => /\ [Next]_vars
                /\ warned' \subseteq Tasks
<1> SUFFICES ASSUME RaceNext PROVE [Next]_vars /\ warned' \subseteq Tasks
    OBVIOUS
<1>1. ASSUME NEW t \in Tasks, TaskStep(t) PROVE [Next]_vars
    <2>1. Domain(t) \in Keys
        BY TaskFacts
    <2>2. CASE Look(t)
        BY <2>1, <2>2 DEF Look, Next
    <2>3. CASE DialConnects(t)
        BY <2>1, <2>3 DEF DialConnects, Next
    <2>4. CASE \E r \in RetryAfters : DialLimited(t, r)
        BY <2>1, <2>4 DEF DialLimited, Next
    <2>5. CASE \/ Acquire(t) \/ DialFails(t) \/ GivesUp(t)
               \/ TimesOut(t) \/ SendsInit(t) \/ Cancelled(t)
        BY <2>5 DEF Acquire, DialFails, GivesUp, NextHost, TimesOut, SendsInit, Cancelled
    <2> QED BY <1>1, <2>2, <2>3, <2>4, <2>5 DEF TaskStep
<1>2. ASSUME NEW s \in Sessions, SessionStep(s) PROVE UNCHANGED vars
    BY <1>2 DEF SessionStep, Begin, Wins, PrimaryLost, RacerLost, Drains, Drained, Relays
<1>3. Clock => Next
    BY DEF Clock, Next
<1>4. warned' \subseteq Tasks
    BY DEF RaceNext, Heed
<1> QED BY <1>1, <1>2, <1>3, <1>4 DEF RaceNext

\* Only Look() takes a warned task on, and it finds the domain cooling.
LEMMA LookingIsEnough == ASSUME RInv, RaceNext PROVE WarnedLook'
<1> SUFFICES ASSUME NEW t \in warned' PROVE (at[t] \in {"look", "lost"} /\ Cooling(Domain(t)))'
    BY DEF WarnedLook
<1>1. /\ t \in Tasks /\ at'[t] # "none" /\ TimeLeft(map'[Domain(t)]) > 0
      /\ at[t] # "none" => t \in warned
    BY DEF RaceNext, Heed
<1>2. Cooling(Domain(t))'
    BY <1>1 DEF Cooling, Domain
<1>3. /\ at \in [Tasks -> Running \cup {"none", "won", "lost", "winner"}]
      /\ at[t] = "none" \/ (at[t] \in {"look", "lost"} /\ Cooling(Domain(t)))
    BY <1>1 DEF RInv, OwnTypes, WarnedLook
<1>4. ASSUME NEW u \in Tasks, TaskStep(u) PROVE at'[t] \in {"look", "lost"}
    <2>1. CASE u # t
        <3>1. PICK there : MovesTo(u, there)
            BY <1>4, TaskMoves
        <3>2. at'[t] = at[t]
            BY <3>1, <2>1, <1>1, <1>3 DEF MovesTo
        <3> QED BY <3>2, <1>1, <1>3
    <2>2. CASE u = t
        <3>1. at[t] = "look"
            <4>1. PICK there : MovesTo(t, there)
                BY <1>4, <2>2, TaskMoves
            <4> QED BY <4>1, <1>3 DEF MovesTo, Running, Waiting, Dialling
        <3>2. Look(t) \/ Cancelled(t)
            BY <1>4, <2>2, <3>1
            DEF TaskStep, Acquire, DialConnects, DialLimited, DialFails, GivesUp,
                TimesOut, SendsInit, Waiting, Dialling
        <3>3. CASE Look(t)
            BY <3>1, <3>3, <1>1, <1>3 DEF Look, Ends, Goto
        <3>4. CASE Cancelled(t)
            BY <3>4, <1>1, <1>3 DEF Cancelled, Goto
        <3> QED BY <3>2, <3>3, <3>4
    <2> QED BY <2>1, <2>2
<1>5. ASSUME NEW s \in Sessions, SessionStep(s) PROVE at'[t] \in {"look", "lost"}
    <2>1. /\ <<s, 1>> \in Tasks
          /\ JoinFirst(s) => Joined(s) \in Tasks /\ at[Joined(s)] \in {"won", "lost"}
        BY TaskFacts, JoinFacts DEF RInv, Consistent
    <2>2. CASE Begin(s)
        BY <2>1, <2>2, <1>1, <1>3 DEF Begin, Goto
    <2>3. CASE Wins(s)
        BY <2>1, <2>3, <1>1, <1>3 DEF Wins, Goto
    <2>4. CASE PrimaryLost(s)
        BY <2>4, <1>1, <1>3 DEF PrimaryLost
    <2>5. CASE RacerLost(s)
        BY <2>1, <2>5, <1>1, <1>3 DEF RacerLost, Goto
    <2>6. CASE Drains(s)
        BY <2>1, <2>6, <1>1, <1>3 DEF Drains, Goto
    <2>7. CASE Drained(s)
        BY <2>7, <1>1, <1>3 DEF Drained
    <2>8. CASE Relays(s)
        BY <2>8, <1>1, <1>3 DEF Relays
    <2> QED BY <1>5, <2>2, <2>3, <2>4, <2>5, <2>6, <2>7, <2>8 DEF SessionStep
<1>6. Clock => at'[t] \in {"look", "lost"}
    BY <1>1, <1>3 DEF Clock, raceVars
<1> QED BY <1>2, <1>4, <1>5, <1>6 DEF RaceNext

LEMMA RInvStep == RInv /\ [RaceNext]_allVars => RInv'
<1> SUFFICES ASSUME RInv, [RaceNext]_allVars PROVE RInv'
    OBVIOUS
<1>1. CASE UNCHANGED allVars
    <2>1. UNCHANGED <<map, pc, at, host, done, open, warned>>
        BY <1>1 DEF allVars, vars, raceVars
    <2>2. OwnTypes' /\ OpenOnesAreHad' /\ Ended'
        BY <2>1 DEF RInv, OwnTypes, OpenOnesAreHad, Ended
    <2>3. Staged'
        <3>1. \A s \in Sessions : Winners(s)' = Winners(s)
            BY <2>1 DEF Winners
        <3> QED BY <2>1, <3>1 DEF RInv, Staged, StagedAt
    <2>4. WarnedLook'
        BY <2>1 DEF RInv, WarnedLook, Cooling, Domain
    <2> QED BY <2>2, <2>3, <2>4 DEF RInv
<1>2. CASE RaceNext
    <2>1. WarnedLook' /\ warned' \subseteq Tasks /\ Consistent
        BY <1>2, LookingIsEnough, RaceStepsAreMapSteps DEF RInv, Consistent
    <2>2. ASSUME NEW t \in Tasks, TaskStep(t) PROVE Consistent'
        <3>1. PICK there : MovesTo(t, there)
            BY <2>2, TaskMoves
        <3> QED BY <3>1, <2>1, MoveKeepsConsistent
    <2>3. ASSUME NEW s \in Sessions, SessionStep(s) PROVE Consistent'
        BY <2>1, <2>3, SessionKeepsConsistent
    <2>4. ASSUME Clock PROVE Consistent'
        <3>1. UNCHANGED <<pc, at, host, done, open>>
            BY <2>4 DEF Clock, raceVars
        <3>2. OwnTypes' /\ OpenOnesAreHad' /\ Ended'
            BY <3>1, <2>1 DEF Consistent, OwnTypes, OpenOnesAreHad, Ended
        <3>3. Staged'
            <4>1. \A s \in Sessions : Winners(s)' = Winners(s)
                BY <3>1 DEF Winners
            <4> QED BY <3>1, <4>1, <2>1 DEF Consistent, Staged, StagedAt
        <3> QED BY <3>2, <3>3 DEF Consistent
    <2>5. Consistent'
        BY <1>2, <2>2, <2>3, <2>4 DEF RaceNext
    <2> QED BY <2>1, <2>5 DEF RInv, Consistent
<1> QED BY <1>1, <1>2

\* The inductive invariant: what the tasks of a session are at fits where the
\* session is, whatever other tasks and the aborts do.
THEOREM RaceInvariant == RaceSpec => []RInv
<1> QED BY RInvInit, RInvStep, PTL DEF RaceSpec

\* Whatever the races do to the map, it is a cooldown map.
THEOREM RacesKeepTheMap == RaceSpec => Spec
<1>1. RaceInit => Init
    BY DEF RaceInit
<1>2. [RaceNext]_allVars => [Next]_vars
    <2>1. UNCHANGED allVars => UNCHANGED vars
        BY DEF allVars
    <2> QED BY <2>1, RaceStepsAreMapSteps
<1> QED BY <1>1, <1>2, PTL DEF RaceSpec, Spec

(***************************************************************************)
(* Type correctness of the races and of the map they share.                *)
(***************************************************************************)
THEOREM RaceTypes == RaceSpec => []RaceTypeOK
<1>1. TypeOK /\ RInv => RaceTypeOK
    BY DEF RInv, OwnTypes, RaceTypeOK
<1> QED BY <1>1, RaceInvariant, RacesKeepTheMap, CooldownIsCapped, PTL

(***************************************************************************)
(* However a race and its aborts interleave, only the WebSocket that is    *)
(* relayed over survives it (try_cf_fallback()).                           *)
(***************************************************************************)
THEOREM LosersAreClosed == RaceSpec => []NothingLeaks
<1>1. RInv => NothingLeaks
    <2> SUFFICES ASSUME RInv, NEW s \in Sessions
                 PROVE  /\ pc[s] = "relay" => \E t \in TasksOf(s) :
                              open \cap TasksOf(s) = {t} /\ at[t] = "winner"
                        /\ pc[s] = "idle" => open \cap TasksOf(s) = {}
        BY DEF NothingLeaks
    <2>1. open = {t \in Tasks : at[t] \in {"up", "won", "winner"}} /\ StagedAt(s)
        BY DEF RInv, OpenOnesAreHad, Staged
    <2>2. TasksOf(s) \subseteq Tasks
        BY TaskFacts
    <2>3. ASSUME pc[s] = "relay" PROVE open \cap TasksOf(s) = Winners(s)
        BY <2>1, <2>2, <2>3 DEF StagedAt, Winners
    <2>4. ASSUME pc[s] = "relay" PROVE \E t \in TasksOf(s) :
                              open \cap TasksOf(s) = {t} /\ at[t] = "winner"
        <3>1. PICK t \in TasksOf(s) : Winners(s) = {t}
            BY <2>1, <2>4 DEF StagedAt
        <3> QED BY <3>1, <2>3, <2>4 DEF Winners
    <2>5. ASSUME pc[s] = "idle" PROVE open \cap TasksOf(s) = {}
        BY <2>1, <2>2, <2>5 DEF StagedAt
    <2> QED BY <2>4, <2>5
<1> QED BY <1>1, RaceInvariant, PTL

(***************************************************************************)
(* The one look at the cooldown before the wait for a slot spares every    *)
(* domain that was cooling when the task began and has been since          *)
(* (try_cf_proxy_domain()).                                                *)
(***************************************************************************)
THEOREM CoolingIsHeeded == RaceSpec => []CoolingAreSpared
<1>1. RInv => CoolingAreSpared
    BY DEF RInv, WarnedLook, CoolingAreSpared, Holding, Dialling
<1> QED BY <1>1, RaceInvariant, PTL

(***************************************************************************)
(* A domain that keeps answering 429 to the races is backed off further    *)
(* each time.                                                              *)
(***************************************************************************)
THEOREM RacesEscalate == RaceSpec => Escalates
<1> QED BY RacesKeepTheMap, BackoffEscalates, PTL

(***************************************************************************)
(* What the races leave in the map is the memory that forgets at the end   *)
(* of the quiet window.                                                    *)
(***************************************************************************)
THEOREM RacesRefineMemory == RaceSpec => ImplementsMemory
<1> QED BY RacesKeepTheMap, CooldownRefinesMemory, PTL

-----------------------------------------------------------------------------
(***************************************************************************)
(* Why a race comes to its end.  A task that has ended stays to be joined  *)
(* until it is (Delivered), and a session that joins has begun at least    *)
(* one task it has not joined (Manned).                                    *)
(***************************************************************************)
InDone(t) == \E i \in 1 .. Len(done[t[1]]) : done[t[1]][i] = t

Delivered == \A t \in Tasks : at[t] \in {"won", "lost"} => InDone(t)

MannedAt(s) ==
    /\ pc[s] = "primary" => at[<<s, 1>>] # "none"
    /\ pc[s] = "race" => \E t \in TasksOf(s) : at[t] # "none"

Manned == \A s \in Sessions : MannedAt(s)

LEMMA DoneShape ==
    ASSUME RInv
    PROVE  /\ done \in [Sessions -> Seq(Tasks)]
           /\ \A t \in Tasks : t[1] \in Sessions /\ Len(done[t[1]]) \in Nat
<1>1. done \in [Sessions -> Seq(Tasks)]
    BY DEF RInv, OwnTypes
<1> QED BY <1>1, TaskFacts

LEMMA JoinLeavesTheRest ==
    ASSUME RInv, NEW s \in Sessions, JoinFirst(s),
           NEW t \in Tasks, InDone(t), t # Joined(s)
    PROVE  InDone(t)'
<1>1. t[1] \in Sessions /\ done \in [Sessions -> Seq(Tasks)]
    BY DoneShape
<1>2. PICK i \in 1 .. Len(done[t[1]]) : done[t[1]][i] = t
    BY DEF InDone
<1>3. done' = [done EXCEPT ![s] = Tail(done[s])] /\ done[s] # <<>>
    BY DEF JoinFirst
<1>4. CASE t[1] # s
    <2>1. done'[t[1]] = done[t[1]]
        BY <1>1, <1>3, <1>4
    <2> QED BY <1>2, <2>1 DEF InDone
<1>5. CASE t[1] = s
    <2>1. /\ done'[s] = Tail(done[s]) /\ done[s] \in Seq(Tasks) /\ done[s] # <<>>
          /\ Joined(s) = done[s][1]
        BY <1>1, <1>3 DEF Joined
    <2>2. i # 1 /\ Len(done[s]) \in Nat /\ i \in 1 .. Len(done[s]) /\ done[s][i] = t
        BY <1>2, <1>5, <2>1
    <2> DEFINE j == i - 1
    <2>3. j \in 1 .. Len(done[s]) - 1 /\ j + 1 = i
        BY <2>2
    <2> HIDE DEF j
    <2>4. j \in 1 .. Len(done'[s]) /\ done'[s][j] = t
        BY <2>1, <2>2, <2>3, HeadTailProperties
    <2> QED BY <1>5, <2>4 DEF InDone
<1> QED BY <1>4, <1>5

LEMMA EndingDelivers ==
    ASSUME RInv, NEW t \in Tasks, done' = [done EXCEPT ![t[1]] = Append(@, t)]
    PROVE  InDone(t)' /\ \A u \in Tasks : InDone(u) => InDone(u)'
<1> DEFINE s == t[1]
<1>1. s \in Sessions /\ done \in [Sessions -> Seq(Tasks)]
    BY DoneShape
<1>2. /\ done[s] \in Seq(Tasks) /\ Len(done[s]) \in Nat
      /\ done'[s] = Append(done[s], t)
      /\ \A r \in Sessions \ {s} : done'[r] = done[r]
    BY <1>1
<1>3. /\ Len(done'[s]) = Len(done[s]) + 1
      /\ \A i \in 1 .. Len(done[s]) : done'[s][i] = done[s][i]
      /\ done'[s][Len(done[s]) + 1] = t
    BY <1>2, AppendProperties
<1> HIDE DEF s
<1>4. Len(done[s]) + 1 \in 1 .. Len(done'[s])
    BY <1>2, <1>3
<1>5. InDone(t)'
    BY <1>3, <1>4 DEF InDone, s
<1>6. ASSUME NEW u \in Tasks, InDone(u) PROVE InDone(u)'
    <2>1. PICK i \in 1 .. Len(done[u[1]]) : done[u[1]][i] = u
        BY <1>6 DEF InDone
    <2>2. u[1] \in Sessions
        BY DoneShape
    <2>3. CASE u[1] # s
        BY <1>2, <2>1, <2>2, <2>3 DEF InDone
    <2>4. CASE u[1] = s
        <3>1. i \in 1 .. Len(done'[s]) /\ done'[s][i] = u
            BY <1>2, <1>3, <2>1, <2>4
        <3> QED BY <2>4, <3>1 DEF InDone
    <2> QED BY <2>3, <2>4
<1> QED BY <1>5, <1>6

\* What a step of a session does to its tasks.
Effects(s) ==
    /\ \/ done' = done
       \/ JoinFirst(s) /\ at'[Joined(s)] \notin {"won", "lost"}
    /\ \A t \in Tasks : at'[t] \in {"won", "lost"} => at[t] \in {"won", "lost"}
    /\ \A t \in Tasks \ TasksOf(s) : at'[t] = at[t]
    /\ \A r \in Sessions \ {s} : pc'[r] = pc[r]
    /\ MannedAt(s)'
    /\ \A t \in Tasks : at[t] # "none" => Onward(t)

LEMMA AheadIs ==
    /\ Ahead("none", 1) = 0 /\ Ahead("none", 2) = 0
    /\ \A h \in 1 .. 2 :
          /\ Ahead("look", h) = 9 /\ Ahead("wait", h) = 8
          /\ Ahead("dial", h) = 9 - 2 * h /\ Ahead("doh", h) = 8 - 2 * h
          /\ Ahead("up", h) = 3 /\ Ahead("won", h) = 2 /\ Ahead("lost", h) = 2
          /\ Ahead("winner", h) = 1 /\ Ahead("none", h) = 0
BY DEF Ahead

\* Every place but one is above the end, and what runs is above what has ended.
LEMMA AheadAbove ==
    ASSUME NEW h \in 1 .. 2, NEW g \in 1 .. 2
    PROVE  /\ \A w \in Running \cup {"won", "lost", "winner"} :
                 Ahead("none", g) < Ahead(w, h)
           /\ \A w \in Running : /\ Ahead("won", g) < Ahead(w, h)
                                 /\ Ahead("lost", g) < Ahead(w, h)
           /\ \A w \in Dialling : Ahead("up", g) < Ahead(w, h)
           /\ Ahead("winner", g) < Ahead("won", h)
<1>1. 4 <= 9 - 2 * h /\ 4 <= 8 - 2 * h
    OBVIOUS
<1> QED BY <1>1, AheadIs DEF Running, Waiting, Dialling

LEMMA TaskGoesOnward ==
    ASSUME RInv, NEW t \in Tasks, TaskStep(t)
    PROVE  \A u \in Tasks : Onward(u)
<1>1. /\ at \in [Tasks -> Running \cup {"none", "won", "lost", "winner"}]
      /\ host \in [Tasks -> 1 .. 2] /\ HostsOf[t[1]] \in 1 .. 2 /\ host[t] \in 1 .. 2
    BY TaskFacts, RaceAssumption DEF RInv, OwnTypes
<1>2. ASSUME NEW where, NEW h \in 1 .. 2,
             at' = [at EXCEPT ![t] = where], host' = [host EXCEPT ![t] = h],
             Ahead(where, h) < Ahead(at[t], host[t])
      PROVE  \A u \in Tasks : Onward(u)
    BY <1>1, <1>2 DEF Onward
<1>3. host = [host EXCEPT ![t] = host[t]] /\ 1 \in 1 .. 2
    BY <1>1
<1>4. CASE Look(t)
    <2>1. CASE Cooling(Domain(t))
        <3>1. /\ at[t] = "look" /\ at' = [at EXCEPT ![t] = "lost"]
              /\ host' = [host EXCEPT ![t] = 1]
            BY <1>4, <2>1 DEF Look, Ends, Goto
        <3>2. Ahead("lost", 1) < Ahead(at[t], host[t])
            BY <1>1, <1>3, <3>1, AheadIs
        <3> QED BY <1>2, <1>3, <3>1, <3>2
    <2>2. CASE ~ Cooling(Domain(t))
        <3>1. /\ at[t] = "look" /\ at' = [at EXCEPT ![t] = "wait"] /\ host' = host
            BY <1>4, <2>2 DEF Look, Goto
        <3>2. Ahead("wait", host[t]) < Ahead(at[t], host[t])
            BY <1>1, <3>1, AheadIs
        <3> QED BY <1>1, <1>2, <1>3, <3>1, <3>2
    <2> QED BY <2>1, <2>2
<1>5. CASE Acquire(t)
    <2>1. at[t] = "wait" /\ at' = [at EXCEPT ![t] = "dial"] /\ host' = host
        BY <1>5 DEF Acquire, Goto
    <2>2. Ahead("dial", host[t]) < Ahead(at[t], host[t])
        BY <1>1, <2>1, AheadIs
    <2> QED BY <1>1, <1>2, <1>3, <2>1, <2>2
<1>6. CASE DialConnects(t)
    <2>1. /\ at[t] \in Dialling /\ at' = [at EXCEPT ![t] = "up"]
          /\ host' = [host EXCEPT ![t] = 1]
        BY <1>6 DEF DialConnects, Goto
    <2>2. Ahead("up", 1) < Ahead(at[t], host[t])
        BY <1>1, <1>3, <2>1, AheadAbove
    <2> QED BY <1>2, <1>3, <2>1, <2>2
<1>7. CASE DialFails(t)
    <2>1. at[t] = "dial" /\ at' = [at EXCEPT ![t] = "doh"] /\ host' = host
        BY <1>7 DEF DialFails, Goto
    <2>2. Ahead("doh", host[t]) < Ahead(at[t], host[t])
        BY <1>1, <2>1, AheadIs
    <2> QED BY <1>1, <1>2, <1>3, <2>1, <2>2
<1>8. CASE GivesUp(t) /\ host[t] < HostsOf[t[1]]
    <2>1. host[t] = 1
        BY <1>1, <1>8
    <2>2. /\ at[t] \in Dialling /\ at' = [at EXCEPT ![t] = "dial"]
          /\ host' = [host EXCEPT ![t] = 2]
        BY <1>8, <2>1 DEF GivesUp, NextHost, Goto
    <2>3. Ahead("dial", 2) < Ahead(at[t], host[t]) /\ 2 \in 1 .. 2
        BY <1>3, <2>1, <2>2, AheadIs DEF Dialling
    <2> QED BY <1>2, <2>2, <2>3
<1>9. CASE \/ \E r \in RetryAfters : DialLimited(t, r)
           \/ GivesUp(t) /\ ~ (host[t] < HostsOf[t[1]])
           \/ TimesOut(t) \/ SendsInit(t)
    <2>1. PICK where \in {"won", "lost"} :
            /\ at[t] \in Running /\ at' = [at EXCEPT ![t] = where]
            /\ host' = [host EXCEPT ![t] = 1]
        BY <1>9 DEF DialLimited, GivesUp, NextHost, TimesOut, SendsInit, Ends, Goto,
           Running, Waiting, Dialling
    <2>2. Ahead(where, 1) < Ahead(at[t], host[t])
        BY <1>1, <1>3, <2>1, AheadAbove
    <2> QED BY <1>2, <1>3, <2>1, <2>2
<1>10. CASE Cancelled(t)
    <2>1. /\ at[t] \in Running /\ at' = [at EXCEPT ![t] = "none"]
          /\ host' = [host EXCEPT ![t] = 1]
        BY <1>10 DEF Cancelled, Goto
    <2>2. Ahead("none", 1) < Ahead(at[t], host[t])
        BY <1>1, <1>3, <2>1, AheadAbove
    <2> QED BY <1>2, <1>3, <2>1, <2>2
<1> QED BY <1>4, <1>5, <1>6, <1>7, <1>8, <1>9, <1>10 DEF TaskStep

LEMMA SessionEffects ==
    ASSUME RInv, Manned, NEW s \in Sessions, SessionStep(s)
    PROVE  Effects(s)
<1>1. /\ at \in [Tasks -> Running \cup {"none", "won", "lost", "winner"}]
      /\ pc \in [Sessions -> {"idle", "primary", "race", "drain", "relay"}]
      /\ \A t \in Tasks : host[t] \in 1 .. 2
      /\ StagedAt(s) /\ MannedAt(s) /\ Consistent
    BY DEF RInv, OwnTypes, Staged, Manned, Consistent
<1>2. /\ TasksOf(s) \subseteq Tasks /\ <<s, 1>> \in TasksOf(s) /\ <<s, 1>> \in Tasks
      /\ {"none", "look", "winner"} \cap {"won", "lost"} = {}
    BY TaskFacts
<1>3. JoinFirst(s) => /\ Joined(s) \in TasksOf(s) /\ Joined(s) \in Tasks
                      /\ at[Joined(s)] \in {"won", "lost"}
    BY <1>1, JoinFacts
<1>4. ASSUME NEW t \in Tasks, at[t] \in Running \cup {"won", "lost", "winner"},
             at'[t] = "none", host' = host
      PROVE  Onward(t)
    BY <1>1, <1>4, AheadAbove DEF Onward
<1>5. ASSUME NEW t \in Tasks, at'[t] = at[t], host' = host
      PROVE  Onward(t)
    BY <1>5 DEF Onward
<1>6. CASE Begin(s)
    <2>1. /\ pc[s] = "idle" /\ pc' = [pc EXCEPT ![s] = "primary"]
          /\ at' = [at EXCEPT ![<<s, 1>>] = "look"] /\ UNCHANGED <<host, done, open>>
        BY <1>6 DEF Begin, Goto
    <2>2. /\ \A t \in Tasks : at'[t] = IF t = <<s, 1>> THEN "look" ELSE at[t]
          /\ at[<<s, 1>>] = "none" /\ pc'[s] = "primary"
        BY <1>1, <1>2, <2>1 DEF StagedAt
    <2>3. MannedAt(s)'
        BY <1>2, <2>2 DEF MannedAt
    <2>4. \A t \in Tasks : at[t] # "none" => Onward(t)
        BY <1>5, <2>1, <2>2
    <2> QED BY <1>1, <1>2, <2>1, <2>2, <2>3, <2>4 DEF Effects
<1>7. CASE Wins(s)
    <2>1. /\ JoinFirst(s) /\ at[Joined(s)] = "won"
          /\ at' = [at EXCEPT ![Joined(s)] = "winner"] /\ host' = host
          /\ pc[s] \in {"primary", "race"}
          /\ pc' = [pc EXCEPT ![s] = IF @ = "primary" THEN "relay" ELSE "drain"]
        BY <1>7 DEF Wins, Goto
    <2>2. /\ \A t \in Tasks : at'[t] = IF t = Joined(s) THEN "winner" ELSE at[t]
          /\ pc'[s] \in {"relay", "drain"}
        BY <1>1, <1>3, <2>1
    <2>3. Onward(Joined(s))
        <3>1. host[Joined(s)] \in 1 .. 2 /\ host'[Joined(s)] = host[Joined(s)]
            BY <1>1, <1>3, <2>1
        <3>2. Ahead("winner", host'[Joined(s)]) < Ahead("won", host[Joined(s)])
            BY <3>1, AheadAbove
        <3> QED BY <1>3, <2>1, <2>2, <3>2 DEF Onward
    <2>4. \A t \in Tasks : Onward(t)
        BY <1>5, <2>1, <2>2, <2>3
    <2>5. MannedAt(s)'
        BY <2>2 DEF MannedAt
    <2> QED BY <1>1, <1>2, <1>3, <2>1, <2>2, <2>4, <2>5 DEF Effects
<1>8. CASE PrimaryLost(s)
    <2>1. /\ JoinFirst(s) /\ at[Joined(s)] = "lost" /\ pc[s] = "primary" /\ host' = host
          /\ at' = [t \in Tasks |-> IF t \notin TasksOf(s) THEN at[t]
                                    ELSE IF t = Joined(s) THEN "none" ELSE "look"]
          /\ pc' = [pc EXCEPT ![s] = IF Len(WindowOf[s]) > 1 THEN "race" ELSE "idle"]
        BY <1>8 DEF PrimaryLost
    <2>2. Joined(s) = <<s, 1>> /\ \A t \in TasksOf(s) \ {Joined(s)} : at[t] = "none"
        BY <1>1, <1>3, <2>1 DEF StagedAt
    <2>3. \A t \in Tasks : at[t] # "none" => Onward(t)
        <3>1. Onward(Joined(s))
            BY <1>3, <1>4, <2>1
        <3>2. \A t \in Tasks \ TasksOf(s) : Onward(t)
            BY <1>5, <2>1
        <3> QED BY <2>2, <3>1, <3>2
    <2>4. MannedAt(s)'
        <3>1. CASE Len(WindowOf[s]) > 1
            <4>1. 2 \in 1 .. Len(WindowOf[s])
                BY <3>1, RaceAssumption
            <4>2. <<s, 2>> \in TasksOf(s) /\ <<s, 2>> # Joined(s)
                BY <2>2, <4>1 DEF TasksOf
            <4>3. at'[<<s, 2>>] = "look" /\ pc'[s] = "race"
                BY <1>1, <1>2, <2>1, <3>1, <4>2
            <4> QED BY <4>2, <4>3 DEF MannedAt
        <3>2. CASE ~ (Len(WindowOf[s]) > 1)
            BY <1>1, <2>1, <3>2 DEF MannedAt
        <3> QED BY <3>1, <3>2
    <2>5. /\ at'[Joined(s)] = "none"
          /\ \A t \in Tasks : at'[t] \in {"won", "lost"} => at[t] \in {"won", "lost"}
          /\ \A t \in Tasks \ TasksOf(s) : at'[t] = at[t]
        BY <1>2, <1>3, <2>1
    <2>6. \A r \in Sessions \ {s} : pc'[r] = pc[r]
        BY <1>1, <2>1
    <2> QED BY <2>1, <2>3, <2>4, <2>5, <2>6 DEF Effects
<1>9. CASE RacerLost(s) \/ Drains(s)
    <2>1. /\ JoinFirst(s) /\ at' = [at EXCEPT ![Joined(s)] = "none"] /\ host' = host
          /\ pc[s] \in {"race", "drain"}
          /\ pc' = pc \/ pc' = [pc EXCEPT ![s] = "idle"]
          /\ pc'[s] = "race" =>
                ~ \A t \in TasksOf(s) \ {Joined(s)} : at[t] = "none"
        BY <1>1, <1>9 DEF RacerLost, Drains, Goto
    <2>2. \A t \in Tasks : at'[t] = IF t = Joined(s) THEN "none" ELSE at[t]
        BY <1>1, <1>3, <2>1
    <2>3. \A t \in Tasks : Onward(t)
        BY <1>3, <1>4, <1>5, <2>1, <2>2
    <2>4. MannedAt(s)'
        <3>1. pc'[s] # "primary"
            BY <1>1, <2>1
        <3>2. ASSUME pc'[s] = "race" PROVE \E t \in TasksOf(s) : at'[t] # "none"
            BY <1>2, <2>1, <2>2, <3>2
        <3> QED BY <3>1, <3>2 DEF MannedAt
    <2>5. \A r \in Sessions \ {s} : pc'[r] = pc[r]
        BY <1>1, <2>1
    <2> QED BY <1>2, <1>3, <2>1, <2>2, <2>3, <2>4, <2>5 DEF Effects
<1>10. CASE Drained(s)
    BY <1>1, <1>5, <1>10 DEF Drained, Effects, MannedAt
<1>11. CASE Relays(s)
    <2>1. /\ pc[s] = "relay" /\ pc' = [pc EXCEPT ![s] = "idle"]
          /\ at' = [t \in Tasks |-> IF t \in TasksOf(s) THEN "none" ELSE at[t]]
          /\ UNCHANGED <<host, done>>
        BY <1>11 DEF Relays
    <2>2. \A t \in TasksOf(s) : at[t] \in {"none", "winner"}
        BY <1>1, <2>1 DEF StagedAt
    <2>3. \A t \in Tasks : Onward(t)
        BY <1>2, <1>4, <1>5, <2>1, <2>2
    <2>4. MannedAt(s)'
        BY <1>1, <2>1 DEF MannedAt
    <2>5. \A r \in Sessions \ {s} : pc'[r] = pc[r]
        BY <1>1, <2>1
    <2> QED BY <2>1, <2>2, <2>3, <2>4, <2>5 DEF Effects
<1> QED BY <1>6, <1>7, <1>8, <1>9, <1>10, <1>11 DEF SessionStep

AInv == Delivered /\ Manned

LEMMA TaskKeepsAInv ==
    ASSUME RInv, AInv, NEW t \in Tasks, TaskStep(t)
    PROVE  AInv'
<1>1. /\ at \in [Tasks -> Running \cup {"none", "won", "lost", "winner"}]
      /\ t[1] \in Sessions /\ t \in TasksOf(t[1])
    BY TaskFacts DEF RInv, OwnTypes
<1>2. PICK there : MovesTo(t, there)
    BY TaskMoves
<1>3. /\ \A u \in Tasks : at'[u] = IF u = t THEN there ELSE at[u]
      /\ pc' = pc /\ at[t] # "none"
      /\ there = "none" => pc[t[1]] = "drain"
    BY <1>1, <1>2 DEF MovesTo, Running, Waiting, Dialling
<1>4. Delivered'
    <2>1. CASE there \in {"won", "lost"}
        <3>1. done' = [done EXCEPT ![t[1]] = Append(@, t)]
            BY <1>2, <2>1 DEF MovesTo
        <3>2. InDone(t)' /\ \A u \in Tasks : InDone(u) => InDone(u)'
            BY <3>1, EndingDelivers
        <3> QED BY <1>3, <3>2 DEF AInv, Delivered
    <2>2. CASE there \notin {"won", "lost"}
        <3>1. done' = done
            BY <1>2, <2>2 DEF MovesTo
        <3> QED BY <1>3, <2>2, <3>1 DEF AInv, Delivered, InDone
    <2> QED BY <2>1, <2>2
<1>5. Manned'
    <2> SUFFICES ASSUME NEW s \in Sessions PROVE MannedAt(s)'
        BY DEF Manned
    <2>1. /\ MannedAt(s) /\ TasksOf(s) \subseteq Tasks /\ <<s, 1>> \in TasksOf(s)
          /\ \A u \in TasksOf(s) : u[1] = s
        BY TaskFacts DEF AInv, Manned
    <2>2. ASSUME pc[s] # "drain", NEW u \in TasksOf(s), at[u] # "none"
          PROVE  at'[u] # "none"
        BY <1>3, <2>1, <2>2
    <2>3. pc'[s] = pc[s]
        BY <1>3
    <2> HIDE DEF TasksOf
    <2> QED BY <2>1, <2>2, <2>3 DEF MannedAt
<1> QED BY <1>4, <1>5 DEF AInv

LEMMA SessionKeepsAInv ==
    ASSUME RInv, AInv, NEW s \in Sessions, SessionStep(s)
    PROVE  AInv'
<1>1. Effects(s)
    BY SessionEffects DEF AInv
<1>2. Delivered'
    <2> SUFFICES ASSUME NEW t \in Tasks, at'[t] \in {"won", "lost"}
                 PROVE  InDone(t)'
        BY DEF Delivered
    <2>1. InDone(t)
        BY <1>1 DEF Effects, AInv, Delivered
    <2>2. CASE done' = done
        BY <2>1, <2>2 DEF InDone
    <2>3. CASE JoinFirst(s) /\ at'[Joined(s)] \notin {"won", "lost"}
        BY <2>1, <2>3, JoinLeavesTheRest
    <2> QED BY <1>1, <2>2, <2>3 DEF Effects
<1>3. Manned'
    <2> SUFFICES ASSUME NEW r \in Sessions \ {s} PROVE MannedAt(r)'
        BY <1>1 DEF Manned, Effects
    <2>1. /\ MannedAt(r) /\ <<r, 1>> \in TasksOf(r) /\ pc'[r] = pc[r]
          /\ TasksOf(r) \subseteq Tasks /\ TasksOf(r) \cap TasksOf(s) = {}
        BY <1>1, TaskFacts DEF AInv, Manned, Effects
    <2>2. \A t \in TasksOf(r) : at'[t] = at[t]
        BY <1>1, <2>1 DEF Effects
    <2> QED BY <2>1, <2>2 DEF MannedAt
<1> QED BY <1>2, <1>3 DEF AInv

LEMMA AInvStep == RInv /\ AInv /\ [RaceNext]_allVars => AInv'
<1> SUFFICES ASSUME RInv, AInv, [RaceNext]_allVars PROVE AInv'
    OBVIOUS
<1>1. ASSUME UNCHANGED <<pc, at, done>> PROVE AInv'
    BY <1>1 DEF AInv, Delivered, InDone, Manned, MannedAt
<1> QED BY <1>1, TaskKeepsAInv, SessionKeepsAInv DEF RaceNext, Clock, allVars, raceVars

(***************************************************************************)
(* A session that joins the tasks of its race has a result to join or one  *)
(* that is still to come (try_cf_fallback()), however time limits, losses  *)
(* and aborts interleave: for any windows, slots and number of sessions.   *)
(***************************************************************************)
THEOREM RacesAnswer == RaceSpec => []SomeoneAnswers
<1>1. RaceInit => AInv
    BY DEF RaceInit, AInv, Delivered, Manned, MannedAt
<1>2. RInv /\ AInv => SomeoneAnswers
    <2> SUFFICES ASSUME RInv, AInv, NEW s \in Sessions,
                        pc[s] \in {"primary", "race", "drain"}, done[s] = <<>>
                 PROVE  \/ \E t \in TasksOf(s) : at[t] \in Running
                        \/ /\ pc[s] = "drain"
                           /\ \A t \in TasksOf(s) : at[t] \in {"none", "winner"}
        BY DEF SomeoneAnswers
    <2>1. /\ at \in [Tasks -> Running \cup {"none", "won", "lost", "winner"}]
          /\ StagedAt(s) /\ MannedAt(s)
        BY DEF RInv, OwnTypes, Staged, AInv, Manned
    <2>2. /\ TasksOf(s) \subseteq Tasks /\ <<s, 1>> \in TasksOf(s)
          /\ \A t \in TasksOf(s) : t[1] = s
        BY TaskFacts
    <2>3. \A t \in TasksOf(s) : at[t] \notin {"won", "lost"}
        <3> SUFFICES ASSUME NEW t \in TasksOf(s), InDone(t) PROVE FALSE
            BY <2>2 DEF AInv, Delivered
        <3>1. t[1] = s /\ Len(<<>>) = 0
            BY <2>2
        <3> QED BY <3>1 DEF InDone
    <2>4. \A t \in TasksOf(s) : at[t] \in Running \cup {"none", "winner"}
        BY <2>1, <2>2, <2>3
    <2>5. CASE pc[s] = "drain"
        BY <2>4, <2>5
    <2>6. CASE pc[s] \in {"primary", "race"}
        <3>1. \A t \in TasksOf(s) : at[t] # "winner"
            BY <2>1, <2>6 DEF StagedAt, Winners
        <3>2. \E t \in TasksOf(s) : at[t] # "none"
            BY <2>1, <2>2, <2>6 DEF MannedAt
        <3> QED BY <2>4, <3>1, <3>2
    <2> QED BY <2>5, <2>6
<1> QED BY <1>1, <1>2, AInvStep, RaceInvariant, PTL DEF RaceSpec

(***************************************************************************)
(* A task of a race waits for a slot once and dials each host of its       *)
(* domain at most twice (finish_cf_proxy_connect(), cf_connect_domain()),  *)
(* whatever the other tasks and the aborts do.                             *)
(***************************************************************************)
THEOREM TasksRunOut == RaceSpec => NothingIsRepeated
<1>1. RaceInit => AInv
    BY DEF RaceInit, AInv, Delivered, Manned, MannedAt
<1>2. RInv /\ AInv /\ [RaceNext]_allVars =>
          [\A t \in Tasks : at[t] # "none" => Onward(t)]_allVars
    <2> SUFFICES ASSUME RInv, AInv, RaceNext
                 PROVE  \A t \in Tasks : at[t] # "none" => Onward(t)
        OBVIOUS
    <2>1. ASSUME NEW s \in Sessions, SessionStep(s)
          PROVE  \A t \in Tasks : at[t] # "none" => Onward(t)
        BY <2>1, SessionEffects DEF AInv, Effects
    <2>2. Clock => \A t \in Tasks : Onward(t)
        BY DEF Clock, raceVars, Onward
    <2> QED BY <2>1, <2>2, TaskGoesOnward DEF RaceNext
<1> QED BY <1>1, <1>2, AInvStep, RaceInvariant, PTL DEF RaceSpec, NothingIsRepeated
=============================================================================
