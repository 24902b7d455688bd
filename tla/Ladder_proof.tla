---------------------------- MODULE Ladder_proof ----------------------------
(***************************************************************************)
(* Proofs about Ladder: its types, and that whatever sessions and pool     *)
(* dials do to the flags is what SkipState allows.  What is proved of      *)
(* SkipState then holds of the flags under the whole ladder.               *)
(***************************************************************************)
EXTENDS Ladder, TLAPS

\* An operation on the flags keeps each within its time to live.
LEMMA SkipTypesStep == Skip!TypeOK /\ [Skip!Next]_(Skip!vars) => Skip!TypeOK'
<1> SUFFICES ASSUME Skip!TypeOK, [Skip!Next]_(Skip!vars) PROVE Skip!TypeOK'
  OBVIOUS
<1> USE LadderAssumption DEF Skip!TypeOK
<1>1. ASSUME NEW k \in Targets, NEW c \in Slots, NEW timedOut \in BOOLEAN,
             Skip!RungFails(k, c, timedOut)
      PROVE Skip!TypeOK'
  BY <1>1 DEF Skip!RungFails, Skip!MarkIp, Skip!MarkIfAbsent, Skip!HeldSince
<1>2. ASSUME NEW k \in Targets, NEW c \in Slots, Skip!ComesUp(k, c)
      PROVE Skip!TypeOK'
  BY <1>2 DEF Skip!ComesUp, Skip!Lowered
<1>3. ASSUME NEW k \in Targets, Skip!FrontingFails(k) PROVE Skip!TypeOK'
  BY <1>3 DEF Skip!FrontingFails, Skip!Mark
<1>4. ASSUME NEW k \in Targets, Skip!TcpFails(k) PROVE Skip!TypeOK'
  BY <1>4 DEF Skip!TcpFails, Skip!MarkIp, Skip!MarkIfAbsent, Skip!HeldSince
<1>5. ASSUME NEW c \in Slots, Skip!Redirected(c) PROVE Skip!TypeOK'
  BY <1>5 DEF Skip!Redirected, Skip!MarkIfAbsent, Skip!HeldSince
<1>6. CASE Skip!Tick
  BY <1>6 DEF Skip!Tick, Skip!Later
<1>7. CASE UNCHANGED Skip!vars
  BY <1>7 DEF Skip!vars
<1>8. QED
  BY <1>1, <1>2, <1>3, <1>4, <1>5, <1>6, <1>7 DEF Skip!Next

\* It keeps the sum of what a flag has been up for and what is left.
LEMMA SkipHeldStep ==
    Skip!TypeOK /\ Skip!HeldNoLonger /\ [Skip!Next]_(Skip!vars) => Skip!HeldNoLonger'
<1> SUFFICES ASSUME Skip!TypeOK, Skip!HeldNoLonger, [Skip!Next]_(Skip!vars)
             PROVE Skip!HeldNoLonger'
  OBVIOUS
<1> USE LadderAssumption DEF Skip!TypeOK, Skip!HeldNoLonger
<1>1. ASSUME NEW k \in Targets, Skip!MarkIp(k)
      PROVE \A j \in Targets : ipFail'[j] > 0 => ipHeld'[j] + ipFail'[j] <= IpTtl
  BY <1>1 DEF Skip!MarkIp, Skip!MarkIfAbsent, Skip!HeldSince
<1>2. ASSUME NEW k \in Targets, NEW c \in Slots, NEW timedOut \in BOOLEAN,
             Skip!RungFails(k, c, timedOut)
      PROVE Skip!HeldNoLonger'
  BY <1>1, <1>2 DEF Skip!RungFails
<1>3. ASSUME NEW k \in Targets, NEW c \in Slots, Skip!ComesUp(k, c)
      PROVE Skip!HeldNoLonger'
  BY <1>3 DEF Skip!ComesUp, Skip!Lowered
<1>4. ASSUME NEW k \in Targets, Skip!FrontingFails(k) PROVE Skip!HeldNoLonger'
  BY <1>4 DEF Skip!FrontingFails
<1>5. ASSUME NEW k \in Targets, Skip!TcpFails(k) PROVE Skip!HeldNoLonger'
  BY <1>1, <1>5 DEF Skip!TcpFails
<1>6. ASSUME NEW c \in Slots, Skip!Redirected(c) PROVE Skip!HeldNoLonger'
  BY <1>6 DEF Skip!Redirected, Skip!MarkIfAbsent, Skip!HeldSince
<1>7. CASE Skip!Tick
  BY <1>7 DEF Skip!Tick, Skip!Later
<1>8. CASE UNCHANGED Skip!vars
  BY <1>8 DEF Skip!vars
<1>9. QED
  BY <1>2, <1>3, <1>4, <1>5, <1>6, <1>7, <1>8 DEF Skip!Next

(***************************************************************************)
(* mark_if_absent(): failures on a flagged path never push the end of the  *)
(* flag forward, whoever works on the flags, for any times to live.        *)
(***************************************************************************)
THEOREM FlagsEnd == Skip!Spec => []Skip!HeldNoLonger
<1>1. Skip!Init => Skip!TypeOK /\ Skip!HeldNoLonger
  BY LadderAssumption DEF Skip!Init, Skip!TypeOK, Skip!HeldNoLonger
<1>2. QED
  BY <1>1, SkipTypesStep, SkipHeldStep, PTL DEF Skip!Spec

-----------------------------------------------------------------------------
LEMMA TargetsReached ==
    \A c \in Slots, o \in Origs :
        /\ Target(c, o) \in Targets
        /\ \A listed \in BOOLEAN : TcpTargets(c, o, listed) \in Seq(Targets)
<1> SUFFICES ASSUME NEW c \in Slots, NEW o \in Origs
             PROVE /\ Target(c, o) \in Targets
                   /\ \A listed \in BOOLEAN : TcpTargets(c, o, listed) \in Seq(Targets)
  OBVIOUS
<1>1. Target(c, o) \in Targets
  BY DEF Targets
<1>2. o \in DOMAIN Alt => <<o, DC(c)>> \in Targets
  BY LadderAssumption DEF Targets
<1>3. QED
  BY <1>1, <1>2 DEF TcpTargets

-----------------------------------------------------------------------------
\* A step of a session or of the pool is one operation on the flags.
LEMMA StepIsSkip ==
    ASSUME TypeOK, NEW s \in Sessions, Step(s)
    PROVE  Skip!Next \/ UNCHANGED Skip!vars
<1> USE DEF TypeOK, Skip!vars
<1>1. pc[s] \notin {"idle", "blind"} => job[s].slot \in Slots /\ At(s) \in Targets
  BY TargetsReached DEF At
<1>2. job[s] \in Jobs
  OBVIOUS
<1>3. CASE \E c \in Slots, o \in Origs : Begin(s, c, o)
  BY <1>3 DEF Begin, flags
<1>4. CASE \E o \in Origs \cup {NoIp} : BeginUnknown(s, o)
  BY <1>4 DEF BeginUnknown, flags
<1>5. CASE GateBlacklist(s) \/ GateIp(s)
  BY <1>5 DEF GateBlacklist, GateIp, flags
<1>6. CASE Connect(s)
  BY <1>1, <1>6 DEF Connect, Opens, Skip!Next
<1>7. CASE PoolMisses(s)
  BY <1>7 DEF PoolMisses, flags
<1>8. CASE \E v \in Verdicts : DialFails(s, v)
  BY <1>8 DEF DialFails, flags
<1>9. CASE \E v \in Verdicts : LastDialFails(s, v)
  BY <1>1, <1>9 DEF LastDialFails, flags, Skip!Next
<1>10. CASE SkipFronting(s) \/ GateFronting(s)
  BY <1>10 DEF SkipFronting, GateFronting, flags
<1>11. CASE Verdict(s)
  <2>1. job[s].total.timedOut \in BOOLEAN
    BY <1>2 DEF Jobs, Rungs
  <2>2. QED
    BY <1>1, <1>11, <2>1 DEF Verdict, Skip!Next
<1>12. CASE Blacklist(s)
  BY <1>1, <1>12 DEF Blacklist, flags, Skip!Next
<1>13. CASE FallbackConnects(s) \/ CfFails(s)
  BY <1>13 DEF FallbackConnects, CfFails, flags
<1>14. CASE TcpFails(s)
  <2>1. job[s].todo # <<>> => Head(job[s].todo) \in Targets
    BY <1>2 DEF Jobs
  <2>2. QED
    BY <1>14, <2>1 DEF TcpFails, flags, Skip!Next
<1>15. CASE TcpExhausted(s) \/ BlindRelay(s)
  BY <1>15 DEF TcpExhausted, BlindRelay, flags
<1>16. QED
  BY <1>3, <1>4, <1>5, <1>6, <1>7, <1>8, <1>9, <1>10, <1>11, <1>12, <1>13,
     <1>14, <1>15 DEF Step

LEMMA NextIsSkip == TypeOK /\ [Next]_vars => [Skip!Next]_(Skip!vars)
<1> SUFFICES ASSUME TypeOK, [Next]_vars PROVE Skip!Next \/ UNCHANGED Skip!vars
  OBVIOUS
<1>1. ASSUME NEW c \in Slots, NEW o \in Origs, PoolDials(c, o) PROVE Skip!Next
  BY <1>1, TargetsReached DEF PoolDials, Opens, Skip!Next
<1>2. CASE Clock
  BY <1>2 DEF Clock, Skip!Next
<1>3. CASE UNCHANGED vars
  BY <1>3 DEF vars, Skip!vars
<1>4. QED
  BY <1>1, <1>2, <1>3, StepIsSkip DEF Next
-----------------------------------------------------------------------------
\* Updates that leave a job a job.
LEMMA JobUpdates ==
    ASSUME NEW j \in Jobs, NEW n \in 0 .. DomainCount,
           NEW r \in Rungs, NEW t \in Rungs, NEW w \in SUBSET Verdicts
    PROVE  /\ [j EXCEPT !.left = n] \in Jobs
           /\ [j EXCEPT !.left = n, !.rung = r, !.saw = w] \in Jobs
           /\ [j EXCEPT !.left = n, !.rung = r, !.saw = w, !.total = t] \in Jobs
           /\ [j EXCEPT !.total = t, !.saw = w] \in Jobs
<1> DEFINE Left == 0 .. DomainCount
           Saw == SUBSET Verdicts
<1>1. n \in Left /\ w \in Saw
  OBVIOUS
<1>2. Jobs = [slot : Slots \cup {NoSlot}, orig : Origs \cup {NoIp},
              left : Left, rung : Rungs, total : Rungs, saw : Saw, todo : Seq(Targets)]
  BY DEF Jobs
<1> HIDE DEF Left, Saw
<1>3. [j EXCEPT !.left = n] \in Jobs
  BY <1>1, <1>2
<1>4. [j EXCEPT !.left = n, !.rung = r, !.saw = w] \in Jobs
  BY <1>1, <1>2
<1>5. [j EXCEPT !.left = n, !.rung = r, !.saw = w, !.total = t] \in Jobs
  BY <1>1, <1>2
<1>6. [j EXCEPT !.total = t, !.saw = w] \in Jobs
  BY <1>1, <1>2
<1>7. QED
  BY <1>3, <1>4, <1>5, <1>6

\* What a step leaves of the session that takes it.
LEMMA JobStep ==
    ASSUME TypeOK, NEW s \in Sessions, Step(s)
    PROVE  /\ pc' = [pc EXCEPT ![s] = pc'[s]]
           /\ job' = [job EXCEPT ![s] = job'[s]]
           /\ pc'[s] \in Pcs /\ job'[s] \in Jobs
           /\ pc'[s] \notin {"idle", "blind"} =>
                 job'[s].slot \in Slots /\ job'[s].orig \in Origs
<1> USE DEF TypeOK
<1>1. /\ job[s] \in Jobs
      /\ pc[s] \notin {"idle", "blind"} =>
            job[s].slot \in Slots /\ job[s].orig \in Origs
  OBVIOUS
<1>2. /\ NoJob \in Jobs
      /\ DomainCount \in Nat \ {0}
      /\ Fresh \in Rungs
  BY LadderAssumption DEF NoJob, Jobs, Rungs, Fresh
<1>3. ASSUME Leave(s)
      PROVE  /\ pc' = [pc EXCEPT ![s] = "idle"] /\ pc'[s] = "idle"
             /\ job' = [job EXCEPT ![s] = NoJob] /\ job'[s] = NoJob
  BY <1>3 DEF Leave, Goto
<1>4. CASE \E c \in Slots, o \in Origs : Begin(s, c, o)
  <2>1. PICK c \in Slots, o \in Origs : Begin(s, c, o)
    BY <1>4
  <2>2. [NoJob EXCEPT !.slot = c, !.orig = o] \in Jobs
    BY <1>2 DEF Jobs, NoJob
  <2>3. QED
    BY <2>1, <2>2 DEF Begin, Goto, Pcs, NoJob
<1>5. CASE \E o \in Origs \cup {NoIp} : BeginUnknown(s, o)
  <2>1. PICK o \in Origs \cup {NoIp} : BeginUnknown(s, o)
    BY <1>5
  <2>2. [NoJob EXCEPT !.orig = o] \in Jobs
    BY <1>2 DEF Jobs, NoJob
  <2>3. QED
    BY <2>1, <2>2 DEF BeginUnknown, Goto, Pcs
<1>6. CASE GateBlacklist(s) \/ PoolMisses(s) \/ SkipFronting(s) \/ Verdict(s)
           \/ TcpExhausted(s)
  BY <1>1, <1>6 DEF GateBlacklist, PoolMisses, SkipFronting, Verdict, TcpExhausted,
     Goto, Pcs
<1>7. CASE GateIp(s) \/ GateFronting(s)
  <2>1. DomainCount \in 0 .. DomainCount
    BY <1>2
  <2>2. [job[s] EXCEPT !.left = DomainCount] \in Jobs
    BY <1>1, <1>2, <2>1, JobUpdates, {} \in SUBSET Verdicts
  <2>3. QED
    BY <1>1, <1>7, <2>2 DEF GateIp, GateFronting, Goto, Pcs, Jobs
<1>8. CASE Connect(s) \/ FallbackConnects(s) \/ BlindRelay(s)
  BY <1>2, <1>3, <1>8 DEF Connect, FallbackConnects, BlindRelay, Pcs
<1>9. ASSUME NEW v \in Verdicts, NEW rung \in Rungs, NEW total \in Rungs
      PROVE After(rung, v) \in Rungs /\ Folded(total, After(rung, v)) \in Rungs
  BY DEF After, Folded, Rungs
<1>10. CASE \E v \in Verdicts : DialFails(s, v)
  <2>1. PICK v \in Verdicts : DialFails(s, v)
    BY <1>10
  <2> DEFINE n == job[s].left - 1
             r == After(job[s].rung, v)
             w == job[s].saw \cup {v}
  <2>2. /\ job[s].left \in 0 .. DomainCount /\ job[s].left > 1
        /\ job[s].rung \in Rungs /\ job[s].saw \in SUBSET Verdicts
    BY <1>1, <2>1 DEF Jobs, DialFails
  <2>3. n \in 0 .. DomainCount
    BY <1>2, <2>2
  <2>4. r \in Rungs /\ w \in SUBSET Verdicts
    BY <1>9, <2>2
  <2>5. job' = [job EXCEPT ![s] = [job[s] EXCEPT !.left = n, !.rung = r, !.saw = w]]
    BY <2>1 DEF DialFails
  <2> HIDE DEF n, r, w
  <2>6. [job[s] EXCEPT !.left = n, !.rung = r, !.saw = w] \in Jobs
    BY <1>1, <1>2, <2>3, <2>4, JobUpdates
  <2>7. job'[s] \in Jobs /\ job'[s].slot = job[s].slot /\ job'[s].orig = job[s].orig
    BY <1>1, <2>5, <2>6 DEF Jobs
  <2>8. QED
    BY <1>1, <2>1, <2>5, <2>7 DEF DialFails, Pcs
<1>11. CASE \E v \in Verdicts : LastDialFails(s, v)
  <2>1. PICK v \in Verdicts : LastDialFails(s, v)
    BY <1>11
  <2> DEFINE t == Folded(job[s].total, After(job[s].rung, v))
             w == job[s].saw \cup {v}
             j == [job[s] EXCEPT !.left = 0, !.rung = Fresh, !.saw = w, !.total = t]
  <2>2. t \in Rungs /\ 0 \in 0 .. DomainCount /\ w \in SUBSET Verdicts
    BY <1>1, <1>2, <1>9 DEF Jobs
  <2>3. job' = [job EXCEPT ![s] = j]
    BY <2>1 DEF LastDialFails
  <2> HIDE DEF t, w
  <2>4. j \in Jobs
    BY <1>1, <1>2, <2>2, JobUpdates
  <2>5. j.slot = job[s].slot /\ j.orig = job[s].orig
    BY <1>1 DEF Jobs
  <2> HIDE DEF j
  <2>6. QED
    BY <1>1, <2>1, <2>3, <2>4, <2>5 DEF LastDialFails, Goto, Pcs
<1>12. CASE Blacklist(s)
  <2> DEFINE j == [job[s] EXCEPT !.total = Fresh, !.saw = {}]
  <2>1. 0 \in 0 .. DomainCount /\ {} \in SUBSET Verdicts
    BY <1>2
  <2>2. j \in Jobs
    BY <1>1, <1>2, <2>1, JobUpdates
  <2>3. j.slot = job[s].slot /\ j.orig = job[s].orig
    BY <1>1 DEF Jobs
  <2>4. job' = [job EXCEPT ![s] = j]
    BY <1>12 DEF Blacklist
  <2> HIDE DEF j
  <2>5. QED
    BY <1>1, <1>12, <2>2, <2>3, <2>4 DEF Blacklist, Goto, Pcs
<1>13. CASE CfFails(s)
  <2> DEFINE plan == TcpTargets(job[s].slot, job[s].orig, blacklist[job[s].slot] > 0)
  <2>1. (blacklist[job[s].slot] > 0) \in BOOLEAN
    OBVIOUS
  <2>2. plan \in Seq(Targets)
    BY <1>1, <1>13, <2>1, TargetsReached DEF CfFails
  <2>3. job' = [job EXCEPT ![s].todo = plan]
    BY <1>13 DEF CfFails
  <2> HIDE DEF plan
  <2>4. job'[s] \in Jobs /\ job'[s].slot = job[s].slot /\ job'[s].orig = job[s].orig
    BY <1>1, <2>2, <2>3 DEF Jobs
  <2>5. QED
    BY <1>1, <1>13, <2>3, <2>4 DEF CfFails, Goto, Pcs
<1>14. CASE TcpFails(s)
  <2>1. Tail(job[s].todo) \in Seq(Targets)
    BY <1>1, <1>14 DEF Jobs, TcpFails
  <2>2. job'[s] \in Jobs /\ job'[s].slot = job[s].slot /\ job'[s].orig = job[s].orig
    BY <1>1, <1>14, <2>1 DEF Jobs, TcpFails
  <2>3. QED
    BY <1>1, <1>14, <2>2 DEF TcpFails, Pcs
<1>15. QED
  BY <1>4, <1>5, <1>6, <1>7, <1>8, <1>10, <1>11, <1>12, <1>13, <1>14 DEF Step

LEMMA BlockedStep ==
    ASSUME TypeOK, Skip!TypeOK', [Next]_vars
    PROVE  blocked' \in [Targets -> 0 .. IpTtl] /\ warned' \in [Sessions -> BOOLEAN]
<1> USE LadderAssumption DEF TypeOK, flags
<1>1. ASSUME NEW k \in Targets, NEW c \in Slots, Opens(k, c)
      PROVE  blocked' \in [Targets -> 0 .. IpTtl]
  BY <1>1 DEF Opens
<1>2. ASSUME NEW s \in Sessions, Step(s)
      PROVE  blocked' \in [Targets -> 0 .. IpTtl]
  <2>1. pc[s] \notin {"idle", "blind"} => At(s) \in Targets /\ job[s].slot \in Slots
    BY TargetsReached DEF At
  <2>2. CASE Connect(s)
    BY <1>1, <2>1, <2>2 DEF Connect
  <2>3. CASE Verdict(s)
    <3>1. ipFail[At(s)] \in 0 .. IpTtl
      BY <2>1, <2>3 DEF Verdict, Skip!TypeOK
    <3> DEFINE left == IF ipFail[At(s)] > 0 THEN ipFail[At(s)] ELSE IpTtl
    <3>2. left \in 0 .. IpTtl
      BY <3>1
    <3>3. blocked' = blocked \/ blocked' = [blocked EXCEPT ![At(s)] = left]
      BY <2>3 DEF Verdict
    <3> HIDE DEF left
    <3>4. QED
      BY <3>2, <3>3
  <2>4. CASE blocked' = blocked
    BY <2>4
  <2>5. QED
    BY <1>2, <2>2, <2>3, <2>4 DEF Step, Begin, BeginUnknown, GateBlacklist, GateIp,
       PoolMisses, DialFails, LastDialFails, SkipFronting, GateFronting, Blacklist,
       FallbackConnects, CfFails, TcpFails, TcpExhausted, BlindRelay
<1>3. ASSUME NEW c \in Slots, NEW o \in Origs, PoolDials(c, o)
      PROVE  blocked' \in [Targets -> 0 .. IpTtl]
  BY <1>1, <1>3, TargetsReached DEF PoolDials
<1>4. ASSUME Clock
      PROVE  blocked' \in [Targets -> 0 .. IpTtl]
  BY <1>4 DEF Clock, Skip!Later
<1>5. ASSUME Next
      PROVE  warned' \in [Sessions -> BOOLEAN]
  BY <1>5 DEF Next, Heed
<1>6. QED
  BY <1>2, <1>3, <1>4, <1>5 DEF Next, vars

LEMMA TypesStep == TypeOK /\ [Next]_vars => TypeOK'
<1> SUFFICES ASSUME TypeOK, [Next]_vars PROVE TypeOK'
  OBVIOUS
<1>1. Skip!TypeOK'
  BY NextIsSkip, SkipTypesStep DEF TypeOK
<1>2. blocked' \in [Targets -> 0 .. IpTtl] /\ warned' \in [Sessions -> BOOLEAN]
  BY <1>1, BlockedStep
<1> DEFINE Placed ==
      /\ pc \in [Sessions -> Pcs]
      /\ job \in [Sessions -> Jobs]
      /\ \A s \in Sessions : pc[s] \notin {"idle", "blind"} =>
            job[s].slot \in Slots /\ job[s].orig \in Origs
<1>3. Placed
  BY DEF TypeOK
<1>4. ASSUME NEW s \in Sessions, Step(s) PROVE Placed'
  <2>1. /\ pc' = [pc EXCEPT ![s] = pc'[s]]
        /\ job' = [job EXCEPT ![s] = job'[s]]
        /\ pc'[s] \in Pcs /\ job'[s] \in Jobs
        /\ pc'[s] \notin {"idle", "blind"} =>
              job'[s].slot \in Slots /\ job'[s].orig \in Origs
    BY <1>4, JobStep
  <2>2. QED
    BY <1>3, <2>1
<1>5. ASSUME UNCHANGED <<pc, job>> PROVE Placed'
  BY <1>3, <1>5
<1>6. Placed'
  BY <1>4, <1>5 DEF Next, PoolDials, Clock, vars
<1>7. QED
  BY <1>1, <1>2, <1>6 DEF TypeOK

(***************************************************************************)
(* A session that is on a rung knows its slot and destination, and no      *)
(* flag outgrows its time to live, for any number of sessions and slots.   *)
(***************************************************************************)
THEOREM LadderTypes == Spec => []TypeOK
<1>1. Init => TypeOK
  BY LadderAssumption DEF Init, TypeOK, Skip!Init, Skip!TypeOK, Pcs, Jobs, NoJob,
     Rungs, Fresh
<1>2. QED
  BY <1>1, TypesStep, PTL DEF Spec

\* Each step of the ladder is one of SkipState, or leaves the flags alone.
LEMMA LadderIsSkip == Spec => Skip!Spec
<1>1. Init => Skip!Init
  BY DEF Init
<1>2. QED
  BY <1>1, LadderTypes, NextIsSkip, PTL DEF Spec, Skip!Spec

(***************************************************************************)
(* Sessions that go on failing on a path that is flagged, by the direct    *)
(* rung or by TCP, do not keep it flagged: the direct rung is probed again *)
(* at the end of its time to live (mark_if_absent()).                      *)
(***************************************************************************)
THEOREM LadderFlagsEnd == Spec => []HeldNoLonger
<1> QED BY LadderIsSkip, FlagsEnd, PTL DEF HeldNoLonger

-----------------------------------------------------------------------------
(***************************************************************************)
(* Why blocked paths are spared.  The flag of a target is up for at least  *)
(* as long as the target is known to time out (Flagged); that holds        *)
(* because the verdict of a session forgets no timeout it saw (Recalled),  *)
(* in whichever loop and through the fold.  So a warned session never      *)
(* passes the gate (Held).                                                 *)
(***************************************************************************)
Flagged == \A k \in Targets : blocked[k] <= ipFail[k]

Remembers(p, j) ==
    /\ "timeout" \in j.saw => j.rung.timedOut \/ j.total.timedOut
    /\ p \notin {"direct", "fronting"} => j.rung = Fresh

Recalled == \A s \in Sessions : Remembers(pc[s], job[s])

Held ==
    \A s \in Sessions : warned[s] =>
        pc[s] \in {"gate", "gateIp"} /\ blocked[At(s)] > 0

LEMMA Remembered ==
    ASSUME NEW rung \in Rungs, NEW total \in Rungs, NEW v \in Verdicts
    PROVE  /\ After(rung, v).timedOut <=> (rung.timedOut \/ v = "timeout")
           /\ Folded(total, After(rung, v)).timedOut
                 <=> (total.timedOut \/ rung.timedOut \/ v = "timeout")
BY DEF After, Folded, Rungs

LEMMA RecalledStep == TypeOK /\ Recalled /\ [Next]_vars => Recalled'
<1> SUFFICES ASSUME TypeOK, Recalled, [Next]_vars PROVE Recalled'
  OBVIOUS
<1>1. ASSUME UNCHANGED <<pc, job>> PROVE Recalled'
  BY <1>1 DEF Recalled
<1>2. ASSUME NEW s \in Sessions, Step(s) PROVE Recalled'
  <2>1. Remembers(pc[s], job[s])
    BY DEF Recalled
  <2>2. /\ pc' = [pc EXCEPT ![s] = pc'[s]]
        /\ job' = [job EXCEPT ![s] = job'[s]]
    BY <1>2, JobStep
  <2>3. job[s] \in Jobs /\ job \in [Sessions -> Jobs] /\ pc \in [Sessions -> Pcs]
    BY DEF TypeOK
  <2>4. SUFFICES Remembers(pc'[s], job'[s])
    BY <2>1, <2>2, <2>3 DEF Recalled
  <2>5. Remembers("gate", NoJob) /\ Remembers("idle", NoJob)
    BY DEF Remembers, NoJob
  <2>6. CASE \/ \E c \in Slots, o \in Origs : Begin(s, c, o)
             \/ \E o \in Origs \cup {NoIp} : BeginUnknown(s, o)
    BY <2>3, <2>6 DEF Begin, BeginUnknown, Goto, Remembers, NoJob
  <2>7. CASE Connect(s) \/ FallbackConnects(s) \/ BlindRelay(s)
    BY <2>3, <2>5, <2>7 DEF Connect, FallbackConnects, BlindRelay, Leave, Goto
  <2>8. CASE \/ GateBlacklist(s) \/ GateIp(s) \/ PoolMisses(s) \/ SkipFronting(s)
             \/ GateFronting(s) \/ Verdict(s) \/ CfFails(s) \/ TcpFails(s)
             \/ TcpExhausted(s)
    <3>1. /\ pc[s] \notin {"direct", "fronting"}
          /\ job'[s].saw = job[s].saw /\ job'[s].rung = job[s].rung
          /\ job'[s].total = job[s].total
      BY <2>3, <2>8 DEF GateBlacklist, GateIp, PoolMisses, SkipFronting,
         GateFronting, Verdict, CfFails, TcpFails, TcpExhausted, Jobs
    <3>2. QED
      BY <2>1, <3>1 DEF Remembers
  <2>9. CASE \E v \in Verdicts : DialFails(s, v)
    <3>1. PICK v \in Verdicts : DialFails(s, v)
      BY <2>9
    <3>2. /\ job'[s].saw = job[s].saw \cup {v}
          /\ job'[s].rung = After(job[s].rung, v)
          /\ job'[s].total = job[s].total
          /\ pc'[s] \in {"direct", "fronting"}
      BY <2>3, <3>1 DEF DialFails, Jobs
    <3>3. job[s].rung \in Rungs /\ job[s].total \in Rungs
      BY <2>3 DEF Jobs
    <3>4. QED
      BY <2>1, <3>2, <3>3, Remembered DEF Remembers
  <2>10. CASE \E v \in Verdicts : LastDialFails(s, v)
    <3>1. PICK v \in Verdicts : LastDialFails(s, v)
      BY <2>10
    <3>2. /\ job'[s].saw = job[s].saw \cup {v}
          /\ job'[s].rung = Fresh
          /\ job'[s].total = Folded(job[s].total, After(job[s].rung, v))
      BY <2>3, <3>1 DEF LastDialFails, Jobs
    <3>3. job[s].rung \in Rungs /\ job[s].total \in Rungs
      BY <2>3 DEF Jobs
    <3>4. QED
      BY <2>1, <3>2, <3>3, Remembered DEF Remembers
  <2>11. CASE Blacklist(s)
    <3>1. /\ job'[s].saw = {} /\ job'[s].rung = job[s].rung
          /\ pc[s] = "redirect"
      BY <2>3, <2>11 DEF Blacklist, Jobs
    <3>2. QED
      BY <2>1, <3>1 DEF Remembers
  <2>12. QED
    BY <1>2, <2>6, <2>7, <2>8, <2>9, <2>10, <2>11 DEF Step
<1>3. QED
  BY <1>1, <1>2 DEF Next, PoolDials, Clock, vars

LEMMA FlaggedStep ==
    TypeOK /\ TypeOK' /\ Recalled /\ Flagged /\ [Next]_vars => Flagged'
<1> SUFFICES ASSUME TypeOK, TypeOK', Recalled, Flagged, [Next]_vars PROVE Flagged'
  OBVIOUS
<1> USE LadderAssumption
<1>1. /\ ipFail \in [Targets -> 0 .. IpTtl]
      /\ blocked \in [Targets -> 0 .. IpTtl]
  BY DEF TypeOK, Skip!TypeOK
<1>2. ASSUME UNCHANGED <<ipFail, blocked>> PROVE Flagged'
  BY <1>2 DEF Flagged
<1>3. ASSUME NEW k \in Targets, NEW c \in Slots, Opens(k, c) PROVE Flagged'
  BY <1>1, <1>3 DEF Flagged, Opens, Skip!ComesUp, Skip!Lowered
<1>4. ASSUME NEW k \in Targets, Skip!MarkIp(k), UNCHANGED blocked PROVE Flagged'
  BY <1>1, <1>4 DEF Flagged, Skip!MarkIp, Skip!MarkIfAbsent
<1>5. ASSUME Clock PROVE Flagged'
  BY <1>1, <1>5 DEF Flagged, Clock, Skip!Tick, Skip!Later
<1>6. ASSUME NEW s \in Sessions, Step(s) PROVE Flagged'
  <2>1. /\ pc[s] \notin {"idle", "blind"} => At(s) \in Targets /\ job[s].slot \in Slots
        /\ job[s] \in Jobs
    BY TargetsReached DEF At, TypeOK
  <2>2. CASE Connect(s)
    BY <1>3, <2>1, <2>2 DEF Connect
  <2>3. CASE Verdict(s)
    <3>1. CASE job[s].total.timedOut
      <4> DEFINE left == IF ipFail[At(s)] > 0 THEN ipFail[At(s)] ELSE IpTtl
      <4>1. At(s) \in Targets /\ ipFail' = [ipFail EXCEPT ![At(s)] = left]
        BY <2>1, <2>3, <3>1 DEF Verdict, Skip!RungFails, Skip!MarkIp, Skip!MarkIfAbsent
      <4>2. blocked' = blocked \/ blocked' = [blocked EXCEPT ![At(s)] = left]
        BY <2>3 DEF Verdict
      <4>3. left \in 0 .. IpTtl /\ blocked[At(s)] <= left
        BY <1>1, <4>1 DEF Flagged
      <4> HIDE DEF left
      <4>4. QED
        BY <1>1, <4>1, <4>2, <4>3 DEF Flagged
    <3>2. CASE ~job[s].total.timedOut
      <4>1. "timeout" \notin job[s].saw
        BY <2>3, <3>2 DEF Recalled, Remembers, Verdict, Fresh
      <4>2. UNCHANGED <<ipFail, blocked>>
        BY <2>3, <3>2, <4>1 DEF Verdict, Skip!RungFails
      <4>3. QED
        BY <1>2, <4>2
    <3>3. QED
      BY <3>1, <3>2
  <2>4. CASE TcpFails(s)
    <3>1. job[s].todo # <<>> => Head(job[s].todo) \in Targets
      BY <2>1 DEF Jobs
    <3>2. QED
      BY <1>2, <1>4, <2>4, <3>1 DEF TcpFails, Skip!TcpFails, flags
  <2>5. CASE UNCHANGED <<ipFail, blocked>>
    BY <1>2, <2>5
  <2>6. QED
    BY <1>6, <2>2, <2>3, <2>4, <2>5 DEF Step, Begin, BeginUnknown, GateBlacklist,
       GateIp, PoolMisses, DialFails, LastDialFails, SkipFronting, GateFronting,
       Blacklist, FallbackConnects, CfFails, TcpExhausted, BlindRelay, flags,
       Skip!FrontingFails, Skip!Redirected
<1>7. ASSUME NEW c \in Slots, NEW o \in Origs, PoolDials(c, o) PROVE Flagged'
  BY <1>3, <1>7, TargetsReached DEF PoolDials
<1>8. CASE UNCHANGED vars
  BY <1>2, <1>8 DEF vars
<1>9. QED
  BY <1>5, <1>6, <1>7, <1>8 DEF Next

LEMMA HeldStep == TypeOK /\ TypeOK' /\ Flagged /\ Held /\ [Next]_vars => Held'
<1> SUFFICES ASSUME TypeOK, TypeOK', Flagged, Held, [Next]_vars PROVE Held'
  OBVIOUS
<1>1. CASE UNCHANGED vars
  BY <1>1 DEF vars, Held, At
<1>2. CASE Next
  <2> SUFFICES ASSUME NEW s \in Sessions, warned'[s]
               PROVE  pc'[s] \in {"gate", "gateIp"} /\ blocked'[At(s)'] > 0
    BY DEF Held
  <2>1. /\ pc'[s] \notin {"idle", "redirect", "cf", "tcp", "blind"}
        /\ blocked'[At(s)'] > 0
        /\ pc[s] # "idle" => warned[s]
    BY <1>2 DEF Next, Heed, At
  <2>2. pc[s] # "idle" => pc[s] \in {"gate", "gateIp"} /\ ipFail[At(s)] > 0
    <3> SUFFICES ASSUME pc[s] # "idle"
                 PROVE  pc[s] \in {"gate", "gateIp"} /\ ipFail[At(s)] > 0
      OBVIOUS
    <3>1. pc[s] \in {"gate", "gateIp"} /\ blocked[At(s)] > 0
      BY <2>1 DEF Held
    <3>2. At(s) \in Targets
      BY <3>1, TargetsReached DEF At, TypeOK
    <3>3. PICK k \in Targets : k = At(s)
      BY <3>2
    <3>4. blocked[k] <= ipFail[k] /\ blocked[k] \in 0 .. IpTtl /\ ipFail[k] \in 0 .. IpTtl
      BY DEF Flagged, TypeOK, Skip!TypeOK
    <3>5. ipFail[k] > 0
      <4>1. blocked[k] > 0
        BY <3>1, <3>3
      <4>2. blocked[k] \in Nat /\ ipFail[k] \in Nat
        BY <3>4, LadderAssumption
      <4>3. QED
        BY <3>4, <4>1, <4>2
    <3>6. QED
      BY <3>1, <3>3, <3>5
  <2>3. pc \in [Sessions -> Pcs]
    BY DEF TypeOK
  <2>4. ASSUME NEW t \in Sessions, Step(t) PROVE pc'[s] \in {"gate", "gateIp"}
    <3>1. CASE t # s
      <4>1. pc' = [pc EXCEPT ![t] = pc'[t]]
        BY <2>4, JobStep
      <4>2. pc'[s] = pc[s]
        BY <2>3, <3>1, <4>1
      <4>3. QED
        BY <2>1, <2>2, <4>2
    <3>2. CASE t = s
      BY <2>1, <2>2, <2>3, <2>4, <3>2 DEF Step, Begin, BeginUnknown, GateBlacklist,
         GateIp, GatedBy, Connect, PoolMisses, DialFails, LastDialFails, SkipFronting,
         GateFronting, Verdict, Blacklist, FallbackConnects, CfFails, TcpFails,
         TcpExhausted, BlindRelay, Goto, Leave
    <3>3. QED
      BY <3>1, <3>2
  <2>5. CASE UNCHANGED pc
    BY <2>1, <2>2, <2>5
  <2>6. QED
    BY <1>2, <2>1, <2>4, <2>5 DEF Next, PoolDials, Clock
<1>3. QED
  BY <1>1, <1>2

(***************************************************************************)
(* A session that begins while its target is known to time out never       *)
(* reaches the direct rung, whatever the other sessions, their fallbacks,  *)
(* the pool and the clock do meanwhile.                                    *)
(***************************************************************************)
THEOREM PathsAreSpared == Spec => []BlockedPathIsSpared
<1> DEFINE IInv == Recalled /\ Flagged /\ Held
<1>1. Init => IInv
  BY LadderAssumption DEF Init, Skip!Init, Recalled, Remembers, Flagged, Held, NoJob
<1>2. TypeOK /\ TypeOK' /\ IInv /\ [Next]_vars => IInv'
  BY RecalledStep, FlaggedStep, HeldStep
<1>3. IInv => BlockedPathIsSpared
  BY DEF Held, BlockedPathIsSpared
<1>4. QED
  BY <1>1, <1>2, <1>3, LadderTypes, PTL DEF Spec

-----------------------------------------------------------------------------
(***************************************************************************)
(* Why a blacklisting is earned: a session that still holds "all blocked"  *)
(* has seen nothing but redirects, and on the way from its last direct     *)
(* dial to the decision it has seen something.                             *)
(***************************************************************************)
Judges(p, j) ==
    /\ j.rung.allBlocked /\ j.total.allBlocked => j.saw \subseteq {"redirect"}
    /\ p \in {"gateFront", "fronting", "verdict", "redirect"} => j.saw # {}

Judged == \A s \in Sessions : Judges(pc[s], job[s])

\* all_blocked survives a redirect, in the loop and through the fold.
LEMMA BlockedByAll ==
    ASSUME NEW rung \in Rungs, NEW total \in Rungs, NEW v \in Verdicts
    PROVE  /\ After(rung, v).allBlocked <=> (rung.allBlocked /\ v = "redirect")
           /\ Folded(total, After(rung, v)).allBlocked
                 <=> (total.allBlocked /\ rung.allBlocked /\ v = "redirect")
BY DEF After, Folded, Rungs

\* No step of a session makes it judge by less than it saw.
LEMMA JudgedStep == TypeOK /\ Recalled /\ Judged /\ [Next]_vars => Judged'
<1> SUFFICES ASSUME TypeOK, Recalled, Judged, [Next]_vars PROVE Judged'
  OBVIOUS
<1>1. ASSUME UNCHANGED <<pc, job>> PROVE Judged'
  BY <1>1 DEF Judged
<1>2. ASSUME NEW s \in Sessions, Step(s) PROVE Judged'
  <2>1. Judges(pc[s], job[s])
    BY DEF Judged
  <2>2. /\ pc' = [pc EXCEPT ![s] = pc'[s]]
        /\ job' = [job EXCEPT ![s] = job'[s]]
    BY <1>2, JobStep
  <2>3. job[s] \in Jobs /\ job \in [Sessions -> Jobs] /\ pc \in [Sessions -> Pcs]
    BY DEF TypeOK
  <2>4. SUFFICES Judges(pc'[s], job'[s])
    BY <2>1, <2>2, <2>3 DEF Judged
  <2>5. CASE \/ \E c \in Slots, o \in Origs : Begin(s, c, o)
             \/ \E o \in Origs \cup {NoIp} : BeginUnknown(s, o)
    BY <2>3, <2>5 DEF Begin, BeginUnknown, Goto, Judges, NoJob
  <2>6. CASE Connect(s) \/ FallbackConnects(s) \/ BlindRelay(s)
    <3>1. pc'[s] = "idle" /\ job'[s] = NoJob
      BY <2>3, <2>6 DEF Connect, FallbackConnects, BlindRelay, Leave, Goto
    <3>2. QED
      BY <3>1 DEF Judges, NoJob
  <2>7. CASE \/ GateBlacklist(s) \/ GateIp(s) \/ PoolMisses(s) \/ SkipFronting(s)
             \/ GateFronting(s) \/ Verdict(s) \/ CfFails(s) \/ TcpFails(s)
             \/ TcpExhausted(s)
    <3>1. /\ job'[s].saw = job[s].saw /\ job'[s].rung = job[s].rung
          /\ job'[s].total = job[s].total
      <4>1. \/ job' = job
            \/ job' = [job EXCEPT ![s].left = DomainCount]
            \/ \E q : job' = [job EXCEPT ![s].todo = q]
        BY <2>7 DEF GateBlacklist, GateIp, PoolMisses, SkipFronting, GateFronting,
           Verdict, CfFails, TcpFails, TcpExhausted
      <4>2. QED
        BY <2>3, <4>1 DEF Jobs
    <3>2. \/ pc'[s] \in {"cf", "gateIp", "direct", "pool", "tcp", "blind"}
          \/ pc[s] \in {"gateFront", "verdict"}
      BY <2>3, <2>7 DEF GateBlacklist, GateIp, PoolMisses, SkipFronting,
         GateFronting, Verdict, CfFails, TcpFails, TcpExhausted, Goto
    <3>3. QED
      BY <2>1, <3>1, <3>2 DEF Judges
  <2>8. CASE \E v \in Verdicts : DialFails(s, v)
    <3>1. PICK v \in Verdicts : DialFails(s, v)
      BY <2>8
    <3>2. /\ job'[s].saw = job[s].saw \cup {v}
          /\ job'[s].rung = After(job[s].rung, v)
          /\ job'[s].total = job[s].total
      BY <2>3, <3>1 DEF DialFails, Jobs
    <3>3. job[s].rung \in Rungs /\ job[s].total \in Rungs
      BY <2>3 DEF Jobs
    <3>4. After(job[s].rung, v).allBlocked <=> (job[s].rung.allBlocked /\ v = "redirect")
      BY <3>3, BlockedByAll
    <3>5. pc'[s] \in {"gateFront", "fronting", "verdict", "redirect"} => job'[s].saw # {}
      BY <3>2
    <3>6. job'[s].rung.allBlocked /\ job'[s].total.allBlocked => job'[s].saw \subseteq {"redirect"}
      BY <2>1, <3>2, <3>4 DEF Judges
    <3>7. QED
      BY <3>5, <3>6 DEF Judges
  <2>9. CASE \E v \in Verdicts : LastDialFails(s, v)
    <3>1. PICK v \in Verdicts : LastDialFails(s, v)
      BY <2>9
    <3>2. /\ job'[s].saw = job[s].saw \cup {v}
          /\ job'[s].total = Folded(job[s].total, After(job[s].rung, v))
      BY <2>3, <3>1 DEF LastDialFails, Jobs
    <3>3. job[s].rung \in Rungs /\ job[s].total \in Rungs
      BY <2>3 DEF Jobs
    <3>4. Folded(job[s].total, After(job[s].rung, v)).allBlocked
            <=> (job[s].total.allBlocked /\ job[s].rung.allBlocked /\ v = "redirect")
      BY <3>3, BlockedByAll
    <3>5. pc'[s] \in {"gateFront", "fronting", "verdict", "redirect"} => job'[s].saw # {}
      BY <3>2
    <3>6. job'[s].total.allBlocked => job'[s].saw \subseteq {"redirect"}
      BY <2>1, <3>2, <3>4 DEF Judges
    <3>7. QED
      BY <3>5, <3>6 DEF Judges
  <2>10. CASE Blacklist(s)
    <3>1. job'[s].saw = {} /\ pc'[s] = "cf"
      BY <2>3, <2>10 DEF Blacklist, Goto, Jobs
    <3>2. QED
      BY <3>1 DEF Judges
  <2>11. QED
    BY <1>2, <2>5, <2>6, <2>7, <2>8, <2>9, <2>10 DEF Step
<1>3. QED
  BY <1>1, <1>2 DEF Next, PoolDials, Clock, vars

(***************************************************************************)
(* A slot becomes blacklisted (mark_ws_blacklisted(), for 45 minutes) only *)
(* by a session of it that dialled and saw nothing but redirects, and      *)
(* never on account of a DC the stock front does not serve: for any slots, *)
(* fronts and numbers of domains.                                          *)
(***************************************************************************)
THEOREM BlacklistingIsEarned == Spec => BlacklistIsEarned
<1> DEFINE IInv == Recalled /\ Judged
           Earned ==
              \A c \in Slots : blacklist[c] = 0 /\ blacklist'[c] > 0 =>
                \E s \in Sessions :
                  /\ pc[s] = "redirect" /\ pc'[s] = "cf" /\ job[s].slot = c
                  /\ job[s].saw = {"redirect"}
                  /\ ~(FrontOf[DC(c)] = StockFront /\ StockFront # NoIp
                       /\ DC(c) \notin {2, 4, 203})
<1>1. Init => IInv
  BY DEF Init, Recalled, Remembers, Judged, Judges, NoJob
<1>2. TypeOK /\ IInv /\ [Next]_vars => IInv'
  BY RecalledStep, JudgedStep
<1>3. TypeOK /\ IInv /\ [Next]_vars => [Earned]_vars
  <2> SUFFICES ASSUME TypeOK, IInv, Next, NEW c \in Slots,
                      blacklist[c] = 0, blacklist'[c] > 0
               PROVE  \E s \in Sessions :
                        /\ pc[s] = "redirect" /\ pc'[s] = "cf" /\ job[s].slot = c
                        /\ job[s].saw = {"redirect"}
                        /\ ~(FrontOf[DC(c)] = StockFront /\ StockFront # NoIp
                             /\ DC(c) \notin {2, 4, 203})
    OBVIOUS
  <2>1. blacklist \in [Slots -> 0 .. BlackTtl] /\ ~(0 > 0)
    BY DEF TypeOK, Skip!TypeOK
  <2>2. blacklist' # blacklist
    BY <2>1
  <2>3. ~ Clock
    BY <2>1 DEF Clock, Skip!Tick, Skip!Later
  <2>4. PICK s \in Sessions : Step(s)
    BY <2>2, <2>3 DEF Next, PoolDials, Opens, Skip!ComesUp
  <2>5. Blacklist(s)
    BY <2>2, <2>4 DEF Step, Begin, BeginUnknown, GateBlacklist, GateIp, Connect, Opens,
       PoolMisses, DialFails, LastDialFails, SkipFronting, GateFronting, Verdict,
       FallbackConnects, CfFails, TcpFails, TcpExhausted, BlindRelay, flags,
       Skip!ComesUp, Skip!FrontingFails, Skip!RungFails, Skip!TcpFails
  <2>6. /\ pc[s] = "redirect" /\ pc'[s] = "cf" /\ job[s] \in Jobs
        /\ job[s].total.allBlocked /\ Warranted(job[s].slot, job[s].orig)
        /\ Skip!Redirected(job[s].slot)
    BY <2>2, <2>5 DEF Blacklist, Goto, TypeOK, flags
  <2>7. job[s].slot = c
    BY <2>1, <2>6 DEF Skip!Redirected, Skip!MarkIfAbsent
  <2>8. job[s].saw = {"redirect"}
    <3>1. Remembers(pc[s], job[s]) /\ Judges(pc[s], job[s])
      BY DEF Recalled, Judged
    <3>2. job[s].rung.allBlocked
      BY <2>6, <3>1 DEF Remembers, Fresh
    <3>3. QED
      BY <2>6, <3>1, <3>2 DEF Judges
  <2>9. ~(FrontOf[DC(c)] = StockFront /\ StockFront # NoIp /\ DC(c) \notin {2, 4, 203})
    BY <2>6, <2>7 DEF Warranted, TargetIp
  <2>10. QED
    BY <2>6, <2>7, <2>8, <2>9
<1>4. QED
  BY <1>1, <1>2, <1>3, LadderTypes, PTL DEF Spec, BlacklistIsEarned
-----------------------------------------------------------------------------
(***************************************************************************)
(* The way of a session is bounded: its own steps lower its rung, or what  *)
(* is left to dial on it, and no step of another touches either.           *)
(***************************************************************************)
LEMMA Heights ==
    /\ Height("gate") = 11 /\ Height("gateIp") = 10 /\ Height("pool") = 9
    /\ Height("direct") = 8 /\ Height("gateFront") = 7 /\ Height("fronting") = 6
    /\ Height("verdict") = 5 /\ Height("redirect") = 4 /\ Height("cf") = 3
    /\ Height("tcp") = 2 /\ Height("blind") = 1 /\ Height("idle") = 0
BY DEF Height

LEMMA HeightType == \A p \in Pcs : Height(p) \in 0 .. 11
BY DEF Height, Pcs

\* Each rung is above those a session goes to from it.
LEMMA Below ==
    /\ \A p \in Pcs \ {"idle"} : Height("idle") < Height(p)
    /\ \A p \in {"gate", "gateIp", "pool", "direct", "gateFront", "fronting",
                 "verdict", "redirect"} : Height("cf") < Height(p)
<1>1. ASSUME NEW p \in Pcs \ {"idle"} PROVE Height("idle") < Height(p)
  BY Heights, HeightType DEF Pcs
<1>2. ASSUME NEW p \in {"gate", "gateIp", "pool", "direct", "gateFront", "fronting",
                        "verdict", "redirect"}
      PROVE  Height("cf") < Height(p)
  BY Heights, HeightType DEF Pcs
<1>3. QED
  BY <1>1, <1>2

LEMMA Downwards ==
    ASSUME TypeOK, NEW s \in Sessions, Step(s), pc[s] # "idle"
    PROVE  GoesDown(s)
<1>1. /\ pc \in [Sessions -> Pcs] /\ job \in [Sessions -> Jobs]
      /\ pc[s] \in Pcs /\ job[s] \in Jobs
  BY DEF TypeOK
<1>2. job[s].left \in Nat /\ job[s].todo \in Seq(Targets)
  BY <1>1, LadderAssumption DEF Jobs
<1>3. ASSUME Leave(s) PROVE GoesDown(s)
  BY <1>1, <1>3, Below DEF Leave, Goto, GoesDown
<1>4. CASE GateBlacklist(s) \/ GateIp(s)
  BY <1>1, <1>4, Heights DEF GateBlacklist, GateIp, Goto, GoesDown
<1>5. CASE Connect(s) \/ FallbackConnects(s) \/ BlindRelay(s)
  BY <1>3, <1>5 DEF Connect, FallbackConnects, BlindRelay
<1>6. CASE PoolMisses(s) \/ SkipFronting(s) \/ GateFronting(s)
  BY <1>1, <1>6, Heights DEF PoolMisses, SkipFronting, GateFronting, Goto, GoesDown
<1>7. ASSUME NEW v \in Verdicts, DialFails(s, v) PROVE GoesDown(s)
  <2>1. /\ pc' = pc
        /\ job'[s].left = job[s].left - 1 /\ job'[s].todo = job[s].todo
    BY <1>1, <1>7 DEF DialFails, Jobs
  <2>2. ToDial(job'[s]) < ToDial(job[s])
    BY <1>2, <2>1 DEF ToDial
  <2>3. QED
    BY <2>1, <2>2 DEF GoesDown
<1>8. ASSUME NEW v \in Verdicts, LastDialFails(s, v) PROVE GoesDown(s)
  BY <1>1, <1>8, Heights DEF LastDialFails, Goto, GoesDown
<1>9. CASE Verdict(s) \/ Blacklist(s) \/ CfFails(s) \/ TcpExhausted(s)
  BY <1>1, <1>9, Heights DEF Verdict, Blacklist, CfFails, TcpExhausted, Goto, GoesDown
<1>10. CASE TcpFails(s)
  <2>1. /\ pc' = pc /\ job[s].todo # <<>>
        /\ job'[s].left = job[s].left /\ job'[s].todo = Tail(job[s].todo)
    BY <1>1, <1>10 DEF TcpFails, Jobs
  <2>2. Len(Tail(job[s].todo)) = Len(job[s].todo) - 1 /\ Len(job[s].todo) \in Nat
    BY <1>2, <2>1
  <2>3. ToDial(job'[s]) < ToDial(job[s])
    BY <1>2, <2>1, <2>2 DEF ToDial
  <2>4. QED
    BY <2>1, <2>3 DEF GoesDown
<1>11. QED
  BY <1>4, <1>5, <1>6, <1>7, <1>8, <1>9, <1>10 DEF Step, Begin, BeginUnknown

(***************************************************************************)
(* handle_handshake() comes to its end: from rung to rung only downwards,  *)
(* and on a rung only towards its last dial, for any number of domains and *)
(* of sessions beside it.                                                  *)
(***************************************************************************)
THEOREM LadderEnds == Spec => OnlyDownwards
<1> DEFINE Down == \A s \in Sessions : pc[s] # "idle" => GoesDown(s)
<1>1. TypeOK /\ [Next]_vars => [Down]_vars
  <2> SUFFICES ASSUME TypeOK, Next, NEW s \in Sessions, pc[s] # "idle"
               PROVE  GoesDown(s)
    OBVIOUS
  <2>1. CASE Step(s)
    BY <2>1, Downwards
  <2>2. ASSUME NEW r \in Sessions, Step(r), r # s PROVE GoesDown(s)
    <3>1. /\ pc' = [pc EXCEPT ![r] = pc'[r]]
          /\ job' = [job EXCEPT ![r] = job'[r]]
      BY <2>2, JobStep
    <3>2. pc'[s] = pc[s] /\ job'[s] = job[s]
      BY <2>2, <3>1 DEF TypeOK
    <3>3. QED
      BY <3>2 DEF GoesDown
  <2>3. CASE UNCHANGED <<pc, job>>
    BY <2>3 DEF GoesDown
  <2>4. QED
    BY <2>1, <2>2, <2>3 DEF Next, PoolDials, Clock
<1>2. QED
  BY <1>1, LadderTypes, PTL DEF Spec, OnlyDownwards
=============================================================================
