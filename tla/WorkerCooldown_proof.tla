------------------------ MODULE WorkerCooldown_proof ------------------------
(***************************************************************************)
(* Proofs about WorkerCooldown, for any number of Workers, accounts and    *)
(* dialers.                                                                *)
(***************************************************************************)
EXTENDS WorkerCooldown, TLAPS

-----------------------------------------------------------------------------
(* One entry of a map *)

\* A backoff is never zero and never beyond the cap.
LEMMA OwnDelayType ==
    ASSUME NEW e \in Entries \cup {None}
    PROVE  OwnDelay(e) \in 1 .. MaxDelay
BY BackoffAssumption, NoneIsNoEntry DEF OwnDelay, Least, Entries, Quiet

\* A mark leaves an entry of the map behind, running and not quiet.
LEMMA MarkedType ==
    ASSUME NEW e \in Entries \cup {None}, NEW r \in Nat
    PROVE  /\ NextDelay(e, r) \in 1 .. MaxDelay
           /\ Marked(e, r) \in Entries
           /\ ~ Quiet(Marked(e, r))
<1>1. NextDelay(e, r) \in 1 .. MaxDelay
    BY BackoffAssumption, OwnDelayType DEF NextDelay, Least
<1>2. Least(2 * OwnDelay(e), MaxDelay) \in 1 .. MaxDelay
    BY BackoffAssumption, OwnDelayType DEF Least
<1>3. NextDelay(e, r) \in -(MaxDelay + 1) .. MaxDelay
    BY <1>1, BackoffAssumption
<1>4. Marked(e, r) \in Entries
    BY <1>2, <1>3 DEF Marked, Entries
<1>5. ~ (NextDelay(e, r) < -MaxDelay)
    BY <1>1, BackoffAssumption
<1>6. ~ Quiet(Marked(e, r))
    BY <1>5 DEF Quiet, Marked
<1> QED BY <1>1, <1>4, <1>6

\* A tick keeps an entry an entry, with the strikes it has.
LEMMA AgedType ==
    ASSUME NEW e \in Entries
    PROVE  /\ Aged(e) \in Entries
           /\ Aged(e).next = e.next
           /\ Quiet(e) => Quiet(Aged(e))
BY BackoffAssumption, NoneIsNoEntry DEF Aged, Entries, Quiet

\* The same for a memory that forgets.
LEMMA RememberedType ==
    ASSUME NEW e \in Entries \cup {None}
    PROVE  Remembered(e) \in Entries \cup {None}
BY AgedType DEF Remembered, Aged

-----------------------------------------------------------------------------
(* What holds in every state *)

\* A dialer goes through the siblings of the Worker that answered 429.
PeersAreSiblings ==
    \A d \in Dialers : \A p \in peers[d] : SharesAccount(at[d], p)

\* A query under way is one of the filter or one of that loop.
QueriesHavePlace ==
    \A d \in Dialers : half[d] # None =>
        IF peers[d] = {} THEN at[d] = None ELSE half[d] \in peers[d]

\* Whoever dials has looked at the whole list, and has what it dials behind it.
Behind == \A d \in Dialers : at[d] # None => unseen[d] = {} /\ at[d] \notin usable[d]

WInv == TypeOK /\ PeersAreSiblings /\ QueriesHavePlace /\ Behind

LEMMA WInvInit == Init => WInv
BY WorkerAssumption
   DEF Init, WInv, TypeOK, PeersAreSiblings, QueriesHavePlace, Behind

\* The two lookups of the filter, and the dial of what passed it.
LEMMA FilterKeeps ==
    ASSUME WInv, NEW d \in Dialers,
           \/ Begin(d) \/ Look503(d)
           \/ \E w \in Workers : Look(d, w) \/ Dial(d, w)
    PROVE  WInv'
<1>1. CASE Begin(d)
    BY <1>1 DEF WInv, TypeOK, PeersAreSiblings, QueriesHavePlace, Behind,
        Begin, SharesAccount, cooldowns
<1>2. CASE Look503(d)
    <2>1. half[d] \in Workers /\ at[d] = None /\ peers[d] = {}
        BY <1>2 DEF WInv, TypeOK, QueriesHavePlace, Look503
    <2> QED BY <1>2, <2>1 DEF WInv, TypeOK, PeersAreSiblings,
            QueriesHavePlace, Behind, Look503, SharesAccount, cooldowns
<1>3. ASSUME NEW w \in Workers, Look(d, w) PROVE WInv'
    <2>1. at[d] = None /\ peers[d] = {} /\ due[d] = None
        BY <1>3 DEF WInv, TypeOK, Behind, Look
    <2>2. half' = [half EXCEPT ![d] = None] \/ half' = [half EXCEPT ![d] = w]
        BY <1>3 DEF Look
    <2>3. /\ unseen' = [unseen EXCEPT ![d] = @ \ {w}]
          /\ UNCHANGED <<m429, m503, usable, at, peers, due, asked, clearing>>
        BY <1>3 DEF Look, cooldowns
    <2> QED BY <2>1, <2>2, <2>3 DEF WInv, TypeOK, PeersAreSiblings,
            QueriesHavePlace, Behind, SharesAccount
<1>4. ASSUME NEW w \in Workers, Dial(d, w) PROVE WInv'
    <2>1. peers[d] = {} /\ w # None
        BY <1>4, WorkerAssumption DEF WInv, TypeOK, Dial
    <2> QED BY <1>4, <2>1 DEF WInv, TypeOK, PeersAreSiblings,
            QueriesHavePlace, Behind, Dial, SharesAccount, cooldowns
<1> QED BY <1>1, <1>2, <1>3, <1>4

\* Who dials has nothing else in hand.
LEMMA DiallingIsAll ==
    ASSUME WInv, NEW d \in Dialers, Dialling(d)
    PROVE  /\ at[d] \in Workers /\ at[d] # None
           /\ peers[d] = {} /\ due[d] = None /\ half[d] = None
           /\ at[d] \notin usable[d]
BY DEF WInv, TypeOK, QueriesHavePlace, Behind, Dialling

\* What the dial comes to, and the second clear.
LEMMA OutcomesKeep ==
    ASSUME WInv, NEW d \in Dialers,
           \/ Succeed(d) \/ Clear503(d) \/ Fail(d)
           \/ \E r \in RetryAfters : Answer503(d, r)
    PROVE  WInv'
<1>1. CASE Succeed(d)
    <2>1. at[d] \in Workers /\ peers[d] = {} /\ due[d] = None /\ half[d] = None
        BY <1>1, DiallingIsAll DEF Succeed
    <2> QED BY <1>1, <2>1 DEF WInv, TypeOK, PeersAreSiblings,
            QueriesHavePlace, Behind, Succeed, SharesAccount
<1>2. CASE Clear503(d)
    BY <1>2 DEF WInv, TypeOK, PeersAreSiblings, QueriesHavePlace, Behind,
        Clear503, SharesAccount
<1>3. CASE Fail(d)
    <2>1. at[d] \in Workers /\ peers[d] = {} /\ due[d] = None /\ half[d] = None
        BY <1>3, DiallingIsAll DEF Fail
    <2> QED BY <1>3, <2>1 DEF WInv, TypeOK, PeersAreSiblings,
            QueriesHavePlace, Behind, Fail, SharesAccount, cooldowns
<1>4. ASSUME NEW r \in RetryAfters, Answer503(d, r) PROVE WInv'
    <2>1. /\ at[d] \in Workers /\ peers[d] = {} /\ due[d] = None /\ half[d] = None
          /\ r \in Nat
        BY <1>4, DiallingIsAll, WorkerAssumption DEF Answer503
    <2>2. m503[at[d]] \in Entries \cup {None}
        BY <2>1 DEF WInv, TypeOK
    <2>3. Marked(m503[at[d]], r) \in Entries
        BY <2>1, <2>2, MarkedType
    <2> QED BY <1>4, <2>1, <2>3 DEF WInv, TypeOK, PeersAreSiblings,
            QueriesHavePlace, Behind, Answer503, SharesAccount
<1> QED BY <1>1, <1>2, <1>3, <1>4

\* The Worker that answered has nobody to answer for but its siblings.
LEMMA Answer429Keeps ==
    ASSUME WInv, NEW d \in Dialers, NEW r \in RetryAfters, Answer429(d, r)
    PROVE  WInv'
<1> DEFINE siblings == {p \in Workers : SharesAccount(at[d], p)}
<1>1. /\ at[d] \in Workers /\ peers[d] = {} /\ due[d] = None /\ half[d] = None
      /\ at[d] \notin usable[d] /\ r \in Nat
    BY DiallingIsAll, WorkerAssumption DEF Answer429
<1>2. m429[at[d]] \in Entries \cup {None}
    BY <1>1 DEF WInv, TypeOK
<1>3. Marked(m429[at[d]], r) \in Entries
    BY <1>1, <1>2, MarkedType
<1>4. /\ m429' = [m429 EXCEPT ![at[d]] = Marked(@, r)]
      /\ peers' = [peers EXCEPT ![d] = siblings]
      /\ asked' = [asked EXCEPT ![d] = IF siblings = {} THEN @ ELSE r]
      /\ at' = IF siblings = {} THEN [at EXCEPT ![d] = None] ELSE at
      /\ UNCHANGED <<m503, unseen, half, usable, due, clearing>>
    BY DEF Answer429
<1>5. TypeOK'
    BY <1>1, <1>3, <1>4, WorkerAssumption DEF WInv, TypeOK
<1>6. PeersAreSiblings'
    <2> SUFFICES ASSUME NEW c \in Dialers, NEW p \in peers'[c]
                 PROVE  SharesAccount(at'[c], p)
        BY DEF PeersAreSiblings, SharesAccount
    <2>1. CASE c = d
        BY <2>1, <1>1, <1>4 DEF WInv, TypeOK
    <2>2. CASE c # d
        BY <2>2, <1>1, <1>4 DEF WInv, TypeOK, PeersAreSiblings
    <2> QED BY <2>1, <2>2
<1>7. QueriesHavePlace' /\ Behind'
    BY <1>1, <1>4 DEF WInv, TypeOK, QueriesHavePlace, Behind
<1> QED BY <1>5, <1>6, <1>7 DEF WInv

\* The loop over the siblings: what it leaves in hand.
LEMMA PassOnKeeps ==
    ASSUME WInv, NEW d \in Dialers, NEW p \in peers[d], PassOn(d, p),
           m429' \in [Workers -> Entries \cup {None}], m503' = m503,
           due' = due \/ due' = [due EXCEPT ![d] = None],
           half' = half \/ half' = [half EXCEPT ![d] = None],
           due'[d] = None, half'[d] = None,
           UNCHANGED <<unseen, usable, clearing>>
    PROVE  WInv'
<1>1. /\ peers' = [peers EXCEPT ![d] = @ \ {p}]
      /\ at' = at \/ (peers[d] = {p} /\ at' = [at EXCEPT ![d] = None])
      /\ peers[d] # {p} => at' = at
      /\ asked' = asked \/ asked' = [asked EXCEPT ![d] = 0]
    BY DEF PassOn
<1>2. TypeOK'
    BY <1>1, WorkerAssumption DEF WInv, TypeOK
<1>3. PeersAreSiblings'
    BY <1>1 DEF WInv, TypeOK, PeersAreSiblings, SharesAccount
<1>4. QueriesHavePlace' /\ Behind'
    BY <1>1 DEF WInv, TypeOK, QueriesHavePlace, Behind
<1> QED BY <1>2, <1>3, <1>4 DEF WInv

LEMMA SiblingsKeep ==
    ASSUME WInv, NEW d \in Dialers,
           \/ \E p \in Workers : AskPeer(d, p)
           \/ AskPeer503(d) \/ CoolPeer(d)
    PROVE  WInv'
<1>1. ASSUME NEW p \in Workers, AskPeer(d, p) PROVE WInv'
    <2>1. CASE Spared(p)
        BY <1>1, <2>1, PassOnKeeps DEF AskPeer, WInv, TypeOK, cooldowns
    <2>2. CASE ~Spared(p)
        <3>1. /\ p \in peers[d] /\ half[d] = None /\ due[d] = None
              /\ half' = [half EXCEPT ![d] = p]
              /\ UNCHANGED <<m429, m503, unseen, usable, at, peers, due, asked, clearing>>
            BY <1>1, <2>2 DEF AskPeer, cooldowns
        <3> QED BY <3>1 DEF WInv, TypeOK, PeersAreSiblings,
                QueriesHavePlace, Behind, SharesAccount
    <2> QED BY <2>1, <2>2
<1>2. CASE AskPeer503(d)
    <2>1. half[d] \in peers[d] /\ half[d] \in Workers /\ due[d] = None
        BY <1>2 DEF AskPeer503, WInv, TypeOK, QueriesHavePlace
    <2>2. CASE Limited503(half[d])
        BY <1>2, <2>1, <2>2, PassOnKeeps DEF AskPeer503, WInv, TypeOK, cooldowns
    <2>3. CASE ~Limited503(half[d])
        <3>1. /\ half' = [half EXCEPT ![d] = None]
              /\ due' = [due EXCEPT ![d] = half[d]]
              /\ UNCHANGED <<m429, m503, unseen, usable, at, peers, asked, clearing>>
            BY <1>2, <2>3 DEF AskPeer503, cooldowns
        <3> QED BY <2>1, <3>1 DEF WInv, TypeOK, PeersAreSiblings,
                QueriesHavePlace, Behind, SharesAccount
    <2> QED BY <2>2, <2>3
<1>3. CASE CoolPeer(d)
    <2>1. /\ due[d] \in Workers /\ due[d] \in peers[d] /\ half[d] = None
          /\ asked[d] \in Nat
        BY <1>3, WorkerAssumption DEF CoolPeer, WInv, TypeOK
    <2>2. m429[due[d]] \in Entries \cup {None}
        BY <2>1 DEF WInv, TypeOK
    <2>3. Marked(m429[due[d]], asked[d]) \in Entries
        BY <2>1, <2>2, MarkedType
    <2>4. m429' \in [Workers -> Entries \cup {None}]
        BY <1>3, <2>3 DEF CoolPeer, WInv, TypeOK
    <2> QED BY <1>3, <2>1, <2>4, PassOnKeeps DEF CoolPeer, WInv, TypeOK
<1> QED BY <1>1, <1>2, <1>3

LEMMA TickKeeps == ASSUME WInv, Tick PROVE WInv'
<1>1. \A w \in Workers : /\ Remembered(m429[w]) \in Entries \cup {None}
                         /\ Remembered(m503[w]) \in Entries \cup {None}
    BY RememberedType DEF WInv, TypeOK
<1>2. TypeOK'
    BY <1>1 DEF WInv, TypeOK, Tick
<1>3. PeersAreSiblings' /\ QueriesHavePlace' /\ Behind'
    BY DEF WInv, Tick, PeersAreSiblings, QueriesHavePlace, Behind, SharesAccount
<1> QED BY <1>2, <1>3 DEF WInv

LEMMA StepKeepsWInv == WInv /\ [Next]_vars => WInv'
<1> SUFFICES ASSUME WInv, [Next]_vars PROVE WInv'
    OBVIOUS
<1>1. ASSUME NEW d \in Dialers, DialerStep(d) PROVE WInv'
    BY <1>1, FilterKeeps, OutcomesKeep, Answer429Keeps, SiblingsKeep DEF DialerStep
<1>2. CASE UNCHANGED vars
    BY <1>2 DEF WInv, vars, cooldowns, TypeOK, PeersAreSiblings,
        QueriesHavePlace, Behind, SharesAccount
<1> QED BY <1>1, <1>2, TickKeeps DEF Next

LEMMA WInvAlways == Spec => []WInv
<1>1. Init => WInv
    BY WInvInit
<1>2. WInv /\ [Next]_vars => WInv'
    BY StepKeepsWInv
<1> QED BY <1>1, <1>2, PTL DEF Spec

(***************************************************************************)
(* The memories of usable_workers and mark_worker_429_with_peers hold      *)
(* entries of the capped backoff, and a dialer that is about to mark a     *)
(* sibling is in the loop over the siblings.                               *)
(***************************************************************************)
THEOREM WorkerTypes == Spec => []TypeOK
<1>1. WInv => TypeOK
    BY DEF WInv
<1> QED BY <1>1, WInvAlways, PTL

-----------------------------------------------------------------------------
(* What a step does to the cooldowns *)

\* Time lengthens no cooldown.
LEMMA TimeShortens ==
    ASSUME NEW e \in Entries \cup {None}
    PROVE  ~ (TimeLeft(Remembered(e)) > TimeLeft(e))
<1>1. CASE e = None
    BY <1>1 DEF Remembered, TimeLeft
<1>2. CASE e # None
    <2>1. e \in Entries /\ Aged(e) \in Entries /\ e.left \in Int
        BY <1>2, AgedType, BackoffAssumption DEF Entries
    <2>2. Aged(e).left = e.left \/ Aged(e).left = e.left - 1
        BY <1>2, <2>1 DEF Aged, Entries
    <2>3. Remembered(e) = None \/ Remembered(e) = Aged(e)
        BY DEF Remembered
    <2>4. TimeLeft(None) = 0 /\ TimeLeft(e) >= 0
        BY <2>1 DEF TimeLeft
    <2> QED BY <1>2, <2>1, <2>2, <2>3, <2>4 DEF TimeLeft
<1> QED BY <1>1, <1>2


\* A step that leaves a cooldown of a Worker as it is does not lengthen it.
LEMMA LeftAlone ==
    ASSUME WInv, NEW w \in Workers
    PROVE  /\ m429'[w] = m429[w] => ~ (TimeLeft(m429'[w]) > TimeLeft(m429[w]))
           /\ m503'[w] = m503[w] => ~ (TimeLeft(m503'[w]) > TimeLeft(m503[w]))
<1>1. \A e \in Entries \cup {None} : ~ (TimeLeft(e) > TimeLeft(e))
    BY BackoffAssumption DEF TimeLeft, Entries
<1> QED BY <1>1 DEF WInv, TypeOK

Longer429(w) == TimeLeft(m429'[w]) > TimeLeft(m429[w])
Longer503(w) == TimeLeft(m503'[w]) > TimeLeft(m503[w])

\* Nobody new comes to strike a cooldown of w that runs.
NobodyNew(w) ==
    /\ Runs429(w) /\ Runs429(w)' =>
          Bound429(w)' \subseteq Bound429(w) /\ Marking429(w)' \subseteq Marking429(w)
    /\ Runs503(w) /\ Runs503(w)' => Bound503(w)' \subseteq Bound503(w)

\* Whoever lengthens one was known, is of the account, and is done with it.
Accounted(w) ==
    /\ Longer429(w) =>
          /\ \/ Bound429(w)' # Bound429(w)
             \/ Marking429(w)' # Marking429(w)
          /\ \E d \in Dialers : at[d] = w \/ (at[d] # None /\ SharesAccount(at[d], w))
    /\ Longer503(w) => Bound503(w)' # Bound503(w)

\* What the sets of NobodyNew are made of, dialer by dialer.
LEMMA DialerByDialer ==
    ASSUME NEW w \in Workers,
           \A d \in Dialers :
              /\ d \in Bound503(w)' => d \in Bound503(w) \/ ~ Runs503(w)
              /\ d \in Bound429(w)' => d \in Bound429(w) \/ ~ Runs429(w)
              /\ d \in Marking429(w)' => d \in Marking429(w) \/ ~ Runs429(w)
    PROVE  NobodyNew(w)
BY DEF NobodyNew, Bound503, Bound429, Marking429

LEMMA FilterSpares ==
    ASSUME WInv, NEW d \in Dialers, NEW w \in Workers,
           \/ Begin(d) \/ Look503(d)
           \/ \E v \in Workers : Look(d, v) \/ Dial(d, v)
    PROVE  NobodyNew(w) /\ Accounted(w)
<1>1. m429' = m429 /\ m503' = m503
    BY DEF Begin, Look503, Look, Dial, cooldowns
<1>2. Accounted(w)
    BY <1>1, LeftAlone DEF Accounted, Longer429, Longer503
<1>3. CASE Begin(d)
    BY <1>2, <1>3, DialerByDialer DEF Begin, Bound503, Bound429, Marking429
<1>4. CASE Look503(d)
    <2>1. /\ half[d] # None /\ peers[d] = {} /\ half'[d] = None /\ at'[d] = at[d]
          /\ usable'[d] = IF Runs503(half[d]) THEN usable[d] ELSE usable[d] \cup {half[d]}
          /\ \A c \in Dialers \ {d} : half'[c] = half[c] /\ usable'[c] = usable[c]
          /\ at' = at /\ peers' = peers /\ due' = due
        BY <1>4 DEF WInv, TypeOK, Look503, Limited503, Runs503
    <2>2. w # None
        BY WorkerAssumption
    <2>3. NobodyNew(w)
        BY <2>1, <2>2, DialerByDialer DEF Bound503, Bound429, Marking429
    <2> QED BY <1>2, <2>3
<1>5. ASSUME NEW v \in Workers, Look(d, v) PROVE NobodyNew(w)
    <2>1. at[d] = None /\ peers[d] = {}
        BY <1>5 DEF WInv, TypeOK, Behind, Look
    <2> QED BY <1>5, <2>1, DialerByDialer, WorkerAssumption
            DEF WInv, TypeOK, Look, Limited429, Runs429,
            Bound503, Bound429, Marking429
<1>6. ASSUME NEW v \in Workers, Dial(d, v) PROVE NobodyNew(w)
    <2>1. /\ v \in usable[d] /\ usable'[d] = usable[d] \ {v} /\ at'[d] = v
          /\ \A c \in Dialers \ {d} : usable'[c] = usable[c] /\ at'[c] = at[c]
          /\ half' = half /\ peers' = peers /\ due' = due
        BY <1>6 DEF WInv, TypeOK, Dial
    <2> QED BY <2>1, DialerByDialer DEF Bound503, Bound429, Marking429
<1> QED BY <1>2, <1>3, <1>4, <1>5, <1>6

\* The answer of a Worker: its own cooldowns change, and the dialer that had
\* it in hand has it no more.
LEMMA OutcomesSpare ==
    ASSUME WInv, NEW d \in Dialers, NEW w \in Workers,
           \/ Succeed(d) \/ Fail(d)
           \/ \E r \in RetryAfters : Answer503(d, r) \/ Answer429(d, r)
    PROVE  NobodyNew(w) /\ Accounted(w)
<1>1. /\ at[d] \in Workers /\ at[d] # None /\ peers[d] = {} /\ due[d] = None
      /\ half[d] = None /\ at[d] \notin usable[d]
    BY DiallingIsAll DEF Succeed, Fail, Answer503, Answer429
<1>2. /\ half' = half /\ due' = due
      /\ \A c \in Dialers : usable'[c] \subseteq usable[c]
      /\ \A c \in Dialers \ {d} : peers'[c] = peers[c] /\ at'[c] = at[c]
      /\ at'[d] = None \/ (at'[d] = at[d] /\ peers'[d] # {})
    BY <1>1 DEF WInv, TypeOK, Succeed, Fail, Answer503, Answer429, cooldowns
<1>3. NobodyNew(w)
    BY <1>1, <1>2, DialerByDialer, WorkerAssumption
       DEF Bound503, Bound429, Marking429
<1>4. CASE at[d] = w
    <2>1. d \in Bound503(w) /\ d \in Bound429(w)
        BY <1>1, <1>4 DEF Bound503, Bound429
    <2>2. d \notin Bound503(w)' /\ d \notin Bound429(w)'
        BY <1>1, <1>2, <1>4, WorkerAssumption DEF Bound503, Bound429
    <2> QED BY <1>3, <1>4, <2>1, <2>2 DEF Accounted
<1>5. CASE at[d] # w
    <2>1. m429'[w] = m429[w] /\ m503'[w] = m503[w]
        BY <1>1, <1>5 DEF WInv, TypeOK, Succeed, Fail, Answer503, Answer429, cooldowns
    <2> QED BY <1>3, <2>1, LeftAlone DEF Accounted, Longer429, Longer503
<1> QED BY <1>4, <1>5

\* The second clear gives nobody a reason to dial.
LEMMA ClearSpares ==
    ASSUME WInv, NEW d \in Dialers, NEW w \in Workers, Clear503(d)
    PROVE  NobodyNew(w) /\ Accounted(w)
<1>1. NobodyNew(w)
    BY DialerByDialer DEF Clear503, Bound503, Bound429, Marking429
<1>2. m429'[w] = m429[w]
    BY DEF Clear503
<1>3. m503'[w] = m503[w] \/ m503'[w] = None
    BY DEF WInv, TypeOK, Clear503
<1>4. \A e \in Entries \cup {None} : ~ (TimeLeft(None) > TimeLeft(e))
    BY BackoffAssumption DEF TimeLeft, Entries
<1>5. Accounted(w)
    BY <1>2, <1>3, <1>4, LeftAlone DEF WInv, TypeOK, Accounted, Longer429, Longer503
<1> QED BY <1>1, <1>5

\* The check of a sibling: its first lookup lets nobody by while the 429
\* cooldown runs, and marks nothing.
LEMMA ChecksSpare ==
    ASSUME WInv, NEW d \in Dialers, NEW w \in Workers,
           AskPeer503(d) \/ \E p \in Workers : AskPeer(d, p)
    PROVE  NobodyNew(w) /\ Accounted(w)
<1>1. m429' = m429 /\ m503' = m503 /\ usable' = usable
    BY DEF AskPeer503, AskPeer, cooldowns
<1>2. Accounted(w)
    BY <1>1, LeftAlone DEF Accounted, Longer429, Longer503
<1>3. peers[d] # {}
    BY DEF AskPeer503, AskPeer
<1>4. /\ at' = at \/ at' = [at EXCEPT ![d] = None]
      /\ \A c \in Dialers \ {d} : peers'[c] = peers[c]
      /\ at'[d] = None \/ peers'[d] # {}
    BY <1>3 DEF WInv, TypeOK, AskPeer503, AskPeer, PassOn
<1>5. CASE AskPeer503(d)
    <2>1. /\ half' = [half EXCEPT ![d] = None]
          /\ due' = due \/ due' = [due EXCEPT ![d] = half[d]]
        BY <1>5 DEF AskPeer503
    <2>2. half'[d] = None /\ (due'[d] = due[d] \/ due'[d] = half[d])
        BY <2>1 DEF WInv, TypeOK
    <2>3. \A c \in Dialers \ {d} : half'[c] = half[c] /\ due'[c] = due[c] /\ at'[c] = at[c]
        BY <1>4, <2>1 DEF WInv, TypeOK
    <2>4. w # None
        BY WorkerAssumption
    <2>5. NobodyNew(w)
        BY <1>1, <1>3, <1>4, <2>2, <2>3, <2>4, DialerByDialer
           DEF WInv, TypeOK, Bound503, Bound429, Marking429
    <2> QED BY <1>2, <2>5
<1>6. ASSUME NEW p \in Workers, AskPeer(d, p) PROVE NobodyNew(w)
    <2>1. /\ due' = due /\ half[d] = None
          /\ half' = half \/ (~ Runs429(p) /\ peers' = peers /\ half' = [half EXCEPT ![d] = p])
        BY <1>6 DEF AskPeer, Spared, Limited429, Runs429
    <2>2. /\ half'[d] = half[d] \/ (~ Runs429(p) /\ peers'[d] = peers[d] /\ half'[d] = p)
          /\ \A c \in Dialers \ {d} : half'[c] = half[c] /\ at'[c] = at[c]
          /\ at'[d] = at[d] \/ at'[d] = None
        BY <1>4, <2>1 DEF WInv, TypeOK
    <2>3. w # None
        BY WorkerAssumption
    <2> QED BY <1>1, <1>3, <1>4, <2>1, <2>2, <2>3, DialerByDialer
            DEF Bound503, Bound429, Marking429
<1> QED BY <1>2, <1>5, <1>6

\* The mark of a sibling: it strikes even a cooldown that has come to run
\* since the check, and then that check is spent.
LEMMA MarkSpares ==
    ASSUME WInv, NEW d \in Dialers, NEW w \in Workers, CoolPeer(d)
    PROVE  NobodyNew(w) /\ Accounted(w)
<1>1. /\ due[d] \in peers[d] /\ due[d] \in Workers /\ half[d] = None
      /\ peers[d] # {} /\ at[d] # None /\ SharesAccount(at[d], due[d])
    BY DEF WInv, TypeOK, PeersAreSiblings, CoolPeer
<1>2. /\ usable' = usable /\ half' = half
      /\ due' = [due EXCEPT ![d] = None]
      /\ at' = at \/ at' = [at EXCEPT ![d] = None]
      /\ \A c \in Dialers \ {d} : peers'[c] = peers[c]
      /\ at'[d] = None \/ peers'[d] # {}
    BY <1>1 DEF WInv, TypeOK, CoolPeer, PassOn
<1>3. NobodyNew(w)
    BY <1>1, <1>2, DialerByDialer, WorkerAssumption
       DEF WInv, TypeOK, Bound503, Bound429, Marking429
<1>4. m503' = m503
    BY DEF CoolPeer
<1>5. CASE due[d] = w
    <2>1. d \in Marking429(w)
        BY <1>5 DEF Marking429
    <2>2. d \notin Marking429(w)'
        BY <1>1, <1>2, WorkerAssumption DEF WInv, TypeOK, Marking429
    <2> QED BY <1>1, <1>3, <1>4, <1>5, <2>1, <2>2, LeftAlone
            DEF Accounted, Longer429, Longer503
<1>6. CASE due[d] # w
    <2>1. m429'[w] = m429[w]
        BY <1>1, <1>6 DEF WInv, TypeOK, CoolPeer
    <2> QED BY <1>3, <1>4, <2>1, LeftAlone DEF Accounted, Longer429, Longer503
<1> QED BY <1>5, <1>6

LEMMA TimeSpares ==
    ASSUME WInv, Tick, NEW w \in Workers
    PROVE  NobodyNew(w) /\ Accounted(w)
<1>1. /\ m429'[w] = Remembered(m429[w]) /\ m503'[w] = Remembered(m503[w])
      /\ m429[w] \in Entries \cup {None} /\ m503[w] \in Entries \cup {None}
    BY DEF WInv, TypeOK, Tick
<1>2. Accounted(w)
    BY <1>1, TimeShortens DEF Accounted, Longer429, Longer503
<1>3. NobodyNew(w)
    BY DialerByDialer DEF Tick, Bound503, Bound429, Marking429
<1> QED BY <1>2, <1>3

LEMMA StepSpares ==
    ASSUME WInv, [Next]_vars, NEW w \in Workers
    PROVE  NobodyNew(w) /\ Accounted(w)
<1>1. ASSUME NEW d \in Dialers, DialerStep(d) PROVE NobodyNew(w) /\ Accounted(w)
    BY <1>1, FilterSpares, OutcomesSpare, ClearSpares, ChecksSpare, MarkSpares
       DEF DialerStep
<1>2. CASE UNCHANGED vars
    <2>1. Accounted(w)
        BY <1>2, LeftAlone DEF vars, cooldowns, Accounted, Longer429, Longer503
    <2>2. NobodyNew(w)
        BY <1>2, DialerByDialer DEF vars, cooldowns, Bound503, Bound429, Marking429
    <2> QED BY <2>1, <2>2
<1> QED BY <1>1, <1>2, TimeSpares DEF Next

(***************************************************************************)
(* usable_workers keeps everybody off a Worker that cools, but those who   *)
(* had looked it up before: the 429 cooldown and the 503 cooldown each by  *)
(* itself, for the query takes their locks one after the other.            *)
(***************************************************************************)
THEOREM CoolingAreSpared == Spec => NewcomersSpareIt
<1>1. WInv /\ [Next]_vars =>
          [\A w \in Workers :
             /\ Runs429(w) /\ Runs429(w)' => Bound429(w)' \subseteq Bound429(w)
             /\ Runs503(w) /\ Runs503(w)' => Bound503(w)' \subseteq Bound503(w)]_vars
    BY StepSpares DEF NobodyNew
<1> QED BY <1>1, WInvAlways, PTL DEF Spec, NewcomersSpareIt

(***************************************************************************)
(* mark_worker_429_with_peers cools nobody whose account is not answering  *)
(* 429 just then, however many dialers mark and clear at the same time.    *)
(***************************************************************************)
THEOREM QuotasAreApart == Spec => AccountsAreApart
<1>1. WInv /\ [Next]_vars =>
          [\A w \in Workers : TimeLeft(m429'[w]) > TimeLeft(m429[w]) =>
             \E d \in Dialers : at[d] = w \/ (at[d] # None /\ SharesAccount(at[d], w))]_vars
    BY StepSpares DEF Accounted, Longer429
<1> QED BY <1>1, WInvAlways, PTL DEF Spec, AccountsAreApart

\* The two kinds of strikers do not stand in for each other.
LEMMA KindsAreApart ==
    ASSUME NEW b1, NEW b2, NEW m1, NEW m2,
           (b1 \X {"answer"}) \cup (m1 \X {"sibling"})
              = (b2 \X {"answer"}) \cup (m2 \X {"sibling"})
    PROVE  b1 = b2 /\ m1 = m2
<1> DEFINE Both(b, m) == (b \X {"answer"}) \cup (m \X {"sibling"})
<1>1. \A b, m, x : /\ x \in b <=> <<x, "answer">> \in Both(b, m)
                   /\ x \in m <=> <<x, "sibling">> \in Both(b, m)
    OBVIOUS
<1> HIDE DEF Both
<1>2. Both(b1, m1) = Both(b2, m2)
    BY DEF Both
<1>3. \A x : (x \in b1 <=> x \in b2) /\ (x \in m1 <=> x \in m2)
    BY <1>1, <1>2
<1> QED BY <1>3

(***************************************************************************)
(* The safety half of CooldownsEnd: while a cooldown runs, only those who  *)
(* saw it inactive before can extend it -- dialers that passed the lookup  *)
(* and siblings' 429s between the check (:129) and the mark (:133) -- and  *)
(* each of them once.                                                      *)
(***************************************************************************)
THEOREM CooldownsRunOut == Spec => StrikesRunOut
<1>1. ASSUME WInv, [Next]_vars, NEW w \in Workers
      PROVE  /\ Runs429(w) /\ Runs429(w)' =>
                   /\ Strikers429(w)' \subseteq Strikers429(w)
                   /\ TimeLeft(m429'[w]) > TimeLeft(m429[w]) =>
                         Strikers429(w)' # Strikers429(w)
             /\ Runs503(w) /\ TimeLeft(m503'[w]) > TimeLeft(m503[w]) =>
                   Bound503(w)' # Bound503(w)
    <2>1. NobodyNew(w) /\ Accounted(w)
        BY <1>1, StepSpares
    <2>2. ASSUME Bound429(w)' \subseteq Bound429(w), Marking429(w)' \subseteq Marking429(w)
          PROVE  Strikers429(w)' \subseteq Strikers429(w)
        BY <2>2 DEF Strikers429
    <2>3. Strikers429(w)' = Strikers429(w) =>
              Bound429(w)' = Bound429(w) /\ Marking429(w)' = Marking429(w)
        BY KindsAreApart DEF Strikers429
    <2> QED BY <2>1, <2>2, <2>3 DEF NobodyNew, Accounted, Longer429, Longer503
<1>2. WInv /\ [Next]_vars =>
          [\A w \in Workers :
             /\ Runs429(w) /\ Runs429(w)' =>
                   /\ Strikers429(w)' \subseteq Strikers429(w)
                   /\ TimeLeft(m429'[w]) > TimeLeft(m429[w]) =>
                         Strikers429(w)' # Strikers429(w)
             /\ Runs503(w) /\ TimeLeft(m503'[w]) > TimeLeft(m503[w]) =>
                   Bound503(w)' # Bound503(w)]_vars
    BY <1>1
<1> QED BY <1>2, WInvAlways, PTL DEF Spec, StrikesRunOut
=============================================================================
