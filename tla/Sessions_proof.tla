--------------------------- MODULE Sessions_proof ---------------------------
(***************************************************************************)
(* Proofs about Sessions: permits are accounted for, and what a client     *)
(* sent reaches its upstream once and in order.                            *)
(***************************************************************************)
EXTENDS Sessions, SequenceTheorems, FiniteSetTheorems, TLAPS

-----------------------------------------------------------------------------
(* Runs of pieces *)

\* What a run is.
LEMMA PiecesAre ==
    ASSUME NEW i \in Nat \ {0}, NEW j \in Nat, i <= j + 1
    PROVE  /\ Pieces(i, j) \in Seq(1 .. j) /\ Pieces(i, j) \in Seq(Nat)
           /\ Len(Pieces(i, j)) = j + 1 - i
           /\ \A n \in 1 .. j + 1 - i : Pieces(i, j)[n] = i + n - 1
<1> DEFINE k == j + 1 - i
           s == [n \in 1 .. k |-> i + n - 1]
<1>1. k \in Nat /\ Pieces(i, j) = s
    BY DEF Pieces
<1>2. s \in [1 .. k -> 1 .. j]
    BY <1>1
<1>3. s \in Seq(1 .. j)
    BY <1>1, <1>2, SeqDef
<1>4. Len(s) = k
    <2>1. DOMAIN s = 1 .. k /\ DOMAIN s = 1 .. Len(s) /\ Len(s) \in Nat
        BY <1>3, LenProperties
    <2> HIDE DEF k, s
    <2> QED BY <1>1, <2>1
<1>5. s \in Seq(Nat)
    <2>1. 1 .. j \subseteq Nat
        OBVIOUS
    <2> HIDE DEF s
    <2> QED BY <1>3, <2>1, SeqMonotonic
<1> QED BY <1>1, <1>3, <1>4, <1>5

\* No piece has been read yet.
LEMMA NoPieces == \A i \in Nat \ {0} : Pieces(i, i - 1) = <<>>
<1> TAKE i \in Nat \ {0}
<1>1. Pieces(i, i - 1) \in Seq(Nat) /\ Len(Pieces(i, i - 1)) = 0
    BY PiecesAre
<1> QED BY <1>1, EmptySeq

\* One run goes on where the other ends.
LEMMA PiecesJoin ==
    ASSUME NEW i \in Nat \ {0}, NEW k \in Nat, NEW j \in Nat, i <= k + 1, k <= j
    PROVE  Pieces(i, k) \o Pieces(k + 1, j) = Pieces(i, j)
<1> DEFINE a == Pieces(i, k)
           b == Pieces(k + 1, j)
           d == Pieces(i, j)
<1>1. /\ a \in Seq(Nat) /\ Len(a) = k + 1 - i
      /\ \A n \in 1 .. k + 1 - i : a[n] = i + n - 1
    BY PiecesAre
<1>2. /\ b \in Seq(Nat) /\ Len(b) = j - k
      /\ \A n \in 1 .. j - k : b[n] = k + n
    <2> DEFINE m == k + 1
    <2>1. m \in Nat \ {0} /\ m <= j + 1 /\ j + 1 - m = j - k
          /\ \A n \in Int : m + n - 1 = k + n
        OBVIOUS
    <2> HIDE DEF m
    <2>2. /\ Pieces(m, j) \in Seq(Nat) /\ Len(Pieces(m, j)) = j + 1 - m
          /\ \A n \in 1 .. j + 1 - m : Pieces(m, j)[n] = m + n - 1
        BY <2>1, PiecesAre
    <2> QED BY <2>1, <2>2 DEF m
<1>3. /\ d \in Seq(Nat) /\ Len(d) = j + 1 - i
      /\ \A n \in 1 .. j + 1 - i : d[n] = i + n - 1
    BY PiecesAre
<1> HIDE DEF a, b, d
<1>4. /\ a \o b \in Seq(Nat) /\ Len(a \o b) = j + 1 - i
      /\ \A n \in 1 .. j + 1 - i :
            (a \o b)[n] = IF n <= k + 1 - i THEN a[n] ELSE b[n - (k + 1 - i)]
    <2>1. /\ a \o b \in Seq(Nat) /\ Len(a \o b) = Len(a) + Len(b)
          /\ \A n \in 1 .. Len(a) + Len(b) :
                (a \o b)[n] = IF n <= Len(a) THEN a[n] ELSE b[n - Len(a)]
        BY <1>1, <1>2, ConcatProperties
    <2>2. Len(a) = k + 1 - i /\ Len(a) + Len(b) = j + 1 - i
        BY <1>1, <1>2
    <2> QED BY <2>1, <2>2
<1>5. \A n \in 1 .. j + 1 - i : (a \o b)[n] = d[n]
    <2> TAKE n \in 1 .. j + 1 - i
    <2>0. n <= k + 1 - i \/ n > k + 1 - i
        OBVIOUS
    <2>1. CASE n <= k + 1 - i
        BY <1>1, <1>3, <1>4, <2>1
    <2>2. CASE n > k + 1 - i
        <3>1. n - (k + 1 - i) \in 1 .. j - k /\ k + (n - (k + 1 - i)) = i + n - 1
            BY <2>2
        <3>2. b[n - (k + 1 - i)] = k + (n - (k + 1 - i))
            BY <3>1, <1>2
        <3>3. (a \o b)[n] = IF n <= k + 1 - i THEN a[n] ELSE b[n - (k + 1 - i)]
            BY <1>4
        <3>4. ~ (n <= k + 1 - i)
            BY <2>2
        <3> QED BY <3>1, <3>2, <3>3, <3>4, <1>3
    <2> QED BY <2>0, <2>1, <2>2
<1>6. a \o b = d
    BY <1>3, <1>4, <1>5, SeqEqual
<1> QED BY <1>6 DEF a, b, d

\* The next piece is read and given at once.
LEMMA PiecesGrow ==
    ASSUME NEW i \in Nat \ {0}, NEW j \in Nat, i <= j + 1
    PROVE  Append(Pieces(i, j), j + 1) = Pieces(i, j + 1)
<1> DEFINE a == Pieces(i, j)
           d == Pieces(i, j + 1)
<1>1. /\ a \in Seq(Nat) /\ Len(a) = j + 1 - i
      /\ \A n \in 1 .. j + 1 - i : a[n] = i + n - 1
    BY PiecesAre
<1>2. /\ d \in Seq(Nat) /\ Len(d) = j + 2 - i
      /\ \A n \in 1 .. j + 2 - i : d[n] = i + n - 1
    BY PiecesAre
<1> HIDE DEF a, d
<1>3. /\ Append(a, j + 1) \in Seq(Nat) /\ Len(Append(a, j + 1)) = j + 2 - i
      /\ \A n \in 1 .. j + 1 - i : Append(a, j + 1)[n] = a[n]
      /\ Append(a, j + 1)[j + 2 - i] = j + 1
    BY <1>1, AppendProperties
<1>4. \A n \in 1 .. j + 2 - i : Append(a, j + 1)[n] = d[n]
    BY <1>1, <1>2, <1>3
<1>5. Append(a, j + 1) = d
    BY <1>2, <1>3, <1>4, SeqEqual
<1> QED BY <1>5 DEF a, d

\* Brackets do not matter.
LEMMA Associative ==
    ASSUME NEW s \in Seq(Nat), NEW t \in Seq(Nat), NEW u \in Seq(Nat)
    PROVE  (s \o t) \o u = s \o (t \o u)
BY ConcatAssociative

\* What is taken off one end of the read-ahead is put behind what was given.
LEMMA Handed ==
    ASSUME NEW g \in Seq(Nat), NEW a \in Seq(Nat), NEW n \in 1 .. Len(a)
    PROVE  /\ SubSeq(a, 1, n) \in Seq(Nat) /\ SubSeq(a, n + 1, Len(a)) \in Seq(Nat)
           /\ g \o SubSeq(a, 1, n) \in Seq(Nat)
           /\ (g \o SubSeq(a, 1, n)) \o SubSeq(a, n + 1, Len(a)) = g \o a
<1>1. Len(a) \in Nat /\ \A i \in 1 .. Len(a) : a[i] \in Nat
    BY LenProperties, ElementOfSeq
<1>2. SubSeq(a, 1, n) \in Seq(Nat)
    BY <1>1, SubSeqProperties
<1>3. SubSeq(a, n + 1, Len(a)) \in Seq(Nat)
    BY <1>1, SubSeqProperties
<1>4. SubSeq(a, 1, n) \o SubSeq(a, n + 1, Len(a)) = a
    BY <1>1, ConcatAdjacentSubSeq, SubSeqFull
<1>6. (g \o SubSeq(a, 1, n)) \o SubSeq(a, n + 1, Len(a))
        = g \o (SubSeq(a, 1, n) \o SubSeq(a, n + 1, Len(a)))
    BY <1>2, <1>3, Associative
<1> QED BY <1>2, <1>3, <1>4, <1>6, ConcatProperties

-----------------------------------------------------------------------------
(* The inductive invariant *)

Serving == {c \in Clients : phase[c] \in Served}

\* The permit serve_with_cap() itself holds.
HeldAt(l) == IF l = "accept" THEN 1 ELSE 0

\* Every permit is free, the loop's, or one served connection's.
Permits ==
    /\ IsFiniteSet(Serving)
    /\ permits + Cardinality(Serving) + HeldAt(loop) = Cap

\* The loop takes no permit while more errors are counted than arm a rebind: one
\* more fits the type.
Errors == loop \in {"permit", "accept"} => errors <= RebindAfter

\* A connection is queued once, and nothing else is.
Queue ==
    /\ \A i \in 1 .. Len(backlog) : phase[backlog[i]] = "backlog"
    /\ \A i, j \in 1 .. Len(backlog) : backlog[i] = backlog[j] => i = j

Shapes ==
    /\ stream \in [Clients -> StreamKinds]
    /\ taken \in [Clients -> Nat]
    /\ ahead \in [Clients -> Seq(Nat)]
    /\ given \in [Clients -> Seq(Nat)]

JunkOf(st) == IF st.looks = "mtproto" THEN st.junk ELSE 0

\* Where the run of pieces may begin that a connection in this phase stands for:
\* after the handshake, at or before it, or with the first piece.
Firsts(p, st) ==
    IF p \in {"ladder", "bridge"} THEN {JunkOf(st) + HandshakeLen + 1}
    ELSE IF p \in {"passthrough", "tunnel", "front"} THEN 1 .. JunkOf(st) + 1
    ELSE {1}

\* What has been given and what is read ahead are one run up to what was taken.
Sound(p, st, t, a, g) ==
    /\ p \in {"away", "backlog"} => t = 0
    /\ p \notin Relaying => g = <<>>
    /\ p = "http" => st.looks = "http"
    /\ \E first \in Firsts(p, st) : first <= t + 1 /\ g \o a = Pieces(first, t)

Runs ==
    \A c \in Clients : Sound(phase[c], stream[c], taken[c], ahead[c], given[c])

SInv == TypeOK /\ Permits /\ Errors /\ Queue /\ Shapes /\ Runs

-----------------------------------------------------------------------------
(* Steps that have a part of the state in common *)

\* What the constants give a connection.
LEMMA ClientFacts ==
    ASSUME NEW c \in Clients, Shapes, TypeOK
    PROVE  /\ SentBy[c] \in Nat /\ HandshakeLen \in Nat \ {0} /\ InitMax \in Nat \ {0}
           /\ stream[c] \in StreamKinds /\ JunkOf(stream[c]) \in Nat
           /\ Junk(c) = JunkOf(stream[c])
           /\ phase[c] \in {"away", "backlog"} \cup Served
           /\ taken[c] \in 0 .. SentBy[c]
           /\ ahead[c] \in Seq(1 .. SentBy[c]) /\ ahead[c] \in Seq(Nat)
           /\ given[c] \in Seq(1 .. SentBy[c]) /\ given[c] \in Seq(Nat)
<1>1. SentBy[c] \in Nat /\ HandshakeLen \in Nat \ {0} /\ InitMax \in Nat \ {0}
    BY SessionsAssumption
<1>2. stream[c] \in StreamKinds /\ ahead[c] \in Seq(Nat) /\ given[c] \in Seq(Nat)
    BY DEF Shapes
<1>3. JunkOf(stream[c]) \in Nat /\ Junk(c) = JunkOf(stream[c])
    BY <1>2 DEF StreamKinds, JunkOf, Junk
<1>4. /\ phase[c] \in {"away", "backlog"} \cup Served
      /\ taken[c] \in 0 .. SentBy[c]
      /\ ahead[c] \in Seq(1 .. SentBy[c]) /\ given[c] \in Seq(1 .. SentBy[c])
    BY DEF TypeOK
<1> QED BY <1>1, <1>2, <1>3, <1>4

\* A connection that is served goes on being served: it may move on, and what it
\* has read and given may grow, as long as they stay a run.
LEMMA ServedStep ==
    ASSUME SInv, NEW c \in Clients, phase[c] \in Served,
           NEW q \in Served, phase' = [phase EXCEPT ![c] = q],
           NEW t \in 0 .. SentBy[c], taken' = [taken EXCEPT ![c] = t],
           NEW a \in Seq(1 .. SentBy[c]), ahead' = [ahead EXCEPT ![c] = a],
           NEW g \in Seq(1 .. SentBy[c]), given' = [given EXCEPT ![c] = g],
           Sound(q, stream[c], t, a, g),
           silent' \subseteq Clients,
           UNCHANGED <<loop, permits, errors, backoff, listener, backlog, faults, stream>>
    PROVE  SInv'
<1>1. TypeOK /\ Permits /\ Errors /\ Queue /\ Shapes /\ Runs
    BY DEF SInv
<1>2. SentBy[c] \in Nat
    BY SessionsAssumption
<1>3. t \in Nat /\ a \in Seq(Nat) /\ g \in Seq(Nat)
    <2>1. 1 .. SentBy[c] \subseteq Nat
        BY <1>2
    <2> QED BY <1>2, <2>1, SeqMonotonic
<1>4. Shapes'
    BY <1>1, <1>3 DEF Shapes
<1>5. /\ phase'[c] = q /\ taken'[c] = t /\ ahead'[c] = a /\ given'[c] = g
      /\ \A d \in Clients \ {c} :
            /\ phase'[d] = phase[d] /\ taken'[d] = taken[d]
            /\ ahead'[d] = ahead[d] /\ given'[d] = given[d]
    BY <1>1 DEF TypeOK, Shapes
<1>6. TypeOK'
    <2>1. phase' \in [Clients -> {"away", "backlog"} \cup Served]
        BY <1>1 DEF TypeOK
    <2>2. \A d \in Clients : taken'[d] \in 0 .. SentBy[d]
        BY <1>1, <1>5 DEF TypeOK
    <2>3. \A d \in Clients : ahead'[d] \in Seq(1 .. SentBy[d])
        BY <1>1, <1>5 DEF TypeOK
    <2>4. \A d \in Clients : given'[d] \in Seq(1 .. SentBy[d])
        BY <1>1, <1>5 DEF TypeOK
    <2> QED BY <1>1, <2>1, <2>2, <2>3, <2>4 DEF TypeOK
<1>7. Serving' = Serving
    BY <1>5 DEF Serving
<1>8. Permits' /\ Errors'
    BY <1>1, <1>7 DEF Permits, Errors, HeldAt
<1>9. Queue'
    <2>1. \A i \in 1 .. Len(backlog) : backlog[i] \in Clients
        BY <1>1, ElementOfSeq DEF TypeOK
    <2>2. phase[c] # "backlog"
        BY DEF Served, Relaying, Guarded
    <2> QED BY <1>1, <1>5, <2>1, <2>2 DEF Queue
<1>10. Runs'
    BY <1>1, <1>5 DEF Runs
<1> QED BY <1>4, <1>6, <1>8, <1>9, <1>10 DEF SInv

\* The loop and the listener leave the connections alone.
LEMMA LoopOnly ==
    ASSUME SInv,
           loop' \in {"permit", "accept", "nap", "rebind", "backoff"},
           permits' \in 0 .. Cap, permits' + HeldAt(loop') = permits + HeldAt(loop),
           errors' \in 0 .. RebindAfter + 1, Errors',
           backoff' \in FirstBackoff .. MaxBackoff,
           listener' \in {"up", "starved", "dead"}, faults' \in 0 .. MaxFaults,
           UNCHANGED <<backlog, phase, stream, taken, ahead, given, silent>>
    PROVE  SInv'
<1>1. TypeOK /\ Permits /\ Queue /\ Shapes /\ Runs
    BY DEF SInv
<1>2. TypeOK'
    BY <1>1 DEF TypeOK
<1>3. Serving' = Serving
    BY DEF Serving
<1>4. Permits'
    <2>1. Cardinality(Serving) \in Nat /\ permits \in Nat /\ HeldAt(loop) \in Nat
          /\ permits' \in Nat /\ HeldAt(loop') \in Nat /\ Cap \in Nat
        BY <1>1, FS_CardinalityType, SessionsAssumption DEF Permits, TypeOK, HeldAt
    <2>2. permits' + Cardinality(Serving) + HeldAt(loop') = Cap
        BY <1>1, <2>1 DEF Permits
    <2>3. IsFiniteSet(Serving') /\ Cardinality(Serving') = Cardinality(Serving)
        BY <1>1, <1>3 DEF Permits
    <2> QED BY <2>2, <2>3 DEF Permits
<1>5. Queue' /\ Shapes' /\ Runs'
    BY <1>1 DEF Queue, Shapes, Runs
<1> QED BY <1>2, <1>4, <1>5 DEF SInv

-----------------------------------------------------------------------------
(* The loop and the listener *)

\* Everything starts out free and empty.
LEMMA Starts == Init => SInv
<1> SUFFICES ASSUME Init PROVE SInv
    OBVIOUS
<1>1. TypeOK
    <2>1. \A c \in Clients : (CHOOSE s \in StreamsOf[c] : TRUE) \in StreamsOf[c]
        BY SessionsAssumption
    <2>2. \A c \in Clients : stream[c] \in StreamsOf[c]
        BY <2>1 DEF Init
    <2>3. \A c \in Clients : taken[c] \in 0 .. SentBy[c]
        BY SessionsAssumption DEF Init
    <2>4. \A c \in Clients : ahead[c] = <<>> /\ given[c] = <<>>
        BY DEF Init
    <2> QED BY <2>2, <2>3, <2>4, SessionsAssumption DEF Init, TypeOK, Served
<1>2. Permits
    <2>1. Serving = {}
        BY DEF Init, Serving, Served, Relaying, Guarded
    <2> QED BY <2>1, FS_EmptySet, SessionsAssumption DEF Init, Permits, HeldAt
<1>3. Errors /\ Queue
    BY SessionsAssumption DEF Init, Errors, Queue
<1>4. Shapes
    <2>1. \A c \in Clients : (CHOOSE s \in StreamsOf[c] : TRUE) \in StreamKinds
        BY SessionsAssumption
    <2>2. stream \in [Clients -> StreamKinds]
        BY <2>1 DEF Init
    <2>3. taken \in [Clients -> Nat] /\ ahead \in [Clients -> Seq(Nat)]
          /\ given \in [Clients -> Seq(Nat)]
        BY DEF Init
    <2> QED BY <2>2, <2>3 DEF Shapes
<1>5. Runs
    <2> SUFFICES ASSUME NEW c \in Clients
                 PROVE  Sound("away", stream[c], 0, <<>>, <<>>)
        BY DEF Init, Runs
    <2>1. Pieces(1, 0) = <<>>
        BY NoPieces
    <2> QED BY <2>1 DEF Sound, Firsts
<1> QED BY <1>1, <1>2, <1>3, <1>4, <1>5 DEF SInv

\* The numbers the loop counts with.
LEMMA LoopFacts ==
    ASSUME SInv
    PROVE  /\ loop \in {"permit", "accept", "nap", "rebind", "backoff"}
           /\ permits \in 0 .. Cap /\ Cap \in Nat
           /\ loop = "accept" => permits + 1 <= Cap
           /\ errors \in 0 .. RebindAfter + 1 /\ RebindAfter \in Nat \ {0}
           /\ backoff \in FirstBackoff .. MaxBackoff
           /\ FirstBackoff \in Nat \ {0} /\ MaxBackoff \in Nat /\ FirstBackoff <= MaxBackoff
           /\ listener \in {"up", "starved", "dead"}
           /\ faults \in 0 .. MaxFaults /\ MaxFaults \in Nat
<1>1. TypeOK /\ Permits
    BY DEF SInv
<1>2. Cardinality(Serving) \in Nat
    BY <1>1, FS_CardinalityType DEF Permits
<1>3. permits \in 0 .. Cap /\ Cap \in Nat
    BY <1>1, SessionsAssumption DEF TypeOK
<1>4. loop = "accept" => permits + 1 <= Cap
    BY <1>1, <1>2, <1>3 DEF Permits, HeldAt
<1> QED BY <1>1, <1>3, <1>4, SessionsAssumption DEF TypeOK

\* The loop keeps the invariant, Accept aside.
LEMMA LoopKeeps ==
    ASSUME SInv,
           Reserve \/ AcceptFails \/ NapEnds \/ Rebind \/ RebindFails \/ BackoffEnds
    PROVE  SInv'
<1> USE LoopFacts
<1>1. Errors
    BY DEF SInv
<1>2. CASE Reserve
    <2>1. UNCHANGED <<errors, backoff, listener, backlog, faults, phase, stream, taken,
                      ahead, given, silent>>
        BY <1>2 DEF Reserve, netVars, dataVars
    <2>2. permits' + HeldAt(loop') = permits + HeldAt(loop) /\ permits' \in 0 .. Cap
        BY <1>2 DEF Reserve, HeldAt
    <2>3. Errors'
        BY <1>1, <1>2, <2>1 DEF Reserve, Errors
    <2>4. loop' = "accept"
        BY <1>2 DEF Reserve
    <2> QED BY <2>1, <2>2, <2>3, <2>4, LoopOnly
<1>3. CASE AcceptFails
    <2>1. UNCHANGED <<backoff, listener, backlog, faults, phase, stream, taken,
                      ahead, given, silent>>
        BY <1>3 DEF AcceptFails, netVars, dataVars
    <2>2. permits' + HeldAt(loop') = permits + HeldAt(loop) /\ permits' \in 0 .. Cap
        BY <1>3 DEF AcceptFails, Released, HeldAt
    <2>3. errors' \in 0 .. RebindAfter + 1 /\ Errors' /\ loop' = "nap"
        BY <1>1, <1>3 DEF AcceptFails, Errors
    <2> QED BY <2>1, <2>2, <2>3, LoopOnly
<1>4. CASE NapEnds
    <2>1. UNCHANGED <<permits, errors, backoff, listener, backlog, faults, phase, stream,
                      taken, ahead, given, silent>>
        BY <1>4 DEF NapEnds, netVars, dataVars
    <2>2. loop' \in {"rebind", "permit"} /\ HeldAt(loop') = 0 /\ HeldAt(loop) = 0
        BY <1>4 DEF NapEnds, HeldAt
    <2>3. Errors'
        BY <1>4, <2>1 DEF NapEnds, Errors
    <2> QED BY <2>1, <2>2, <2>3, LoopOnly
<1>5. CASE Rebind
    <2>1. UNCHANGED <<permits, backlog, faults, phase, stream, taken, ahead, given, silent>>
        BY <1>5 DEF Rebind, dataVars
    <2>2. loop' = "permit" /\ HeldAt(loop') = 0 /\ HeldAt(loop) = 0
        BY <1>5 DEF Rebind, HeldAt
    <2>3. /\ errors' = 0 /\ Errors' /\ backoff' = FirstBackoff /\ listener' = "up"
        BY <1>5 DEF Rebind, Errors
    <2> QED BY <2>1, <2>2, <2>3, LoopOnly
<1>6. CASE RebindFails
    <2>1. UNCHANGED <<permits, errors, backoff, listener, backlog, phase, stream, taken,
                      ahead, given, silent>>
        BY <1>6 DEF RebindFails, dataVars
    <2>2. loop' = "backoff" /\ HeldAt(loop') = 0 /\ HeldAt(loop) = 0
        BY <1>6 DEF RebindFails, HeldAt
    <2>3. Errors' /\ faults' \in 0 .. MaxFaults
        BY <1>6, <2>2 DEF RebindFails, Errors
    <2> QED BY <2>1, <2>2, <2>3, LoopOnly
<1>7. CASE BackoffEnds
    <2>1. UNCHANGED <<permits, listener, backlog, faults, phase, stream, taken,
                      ahead, given, silent>>
        BY <1>7 DEF BackoffEnds, netVars, dataVars
    <2>2. loop' = "permit" /\ HeldAt(loop') = 0 /\ HeldAt(loop) = 0
        BY <1>7 DEF BackoffEnds, HeldAt
    <2>3. errors' = RebindAfter /\ Errors' /\ errors' \in 0 .. RebindAfter + 1
        BY <1>7 DEF BackoffEnds, Errors
    <2>4. backoff' \in FirstBackoff .. MaxBackoff
        BY <1>7 DEF BackoffEnds, Doubled, Lesser
    <2> QED BY <2>1, <2>2, <2>3, <2>4, LoopOnly
<1> QED BY <1>2, <1>3, <1>4, <1>5, <1>6, <1>7

\* So does the listener, as long as it listens.
LEMMA ListenerKeeps ==
    ASSUME SInv, Starves \/ Recovers
    PROVE  SInv'
<1> USE LoopFacts
<1>1. UNCHANGED <<loop, permits, errors, backoff, backlog, phase, stream, taken, ahead, given,
                  silent>>
    BY DEF Starves, Recovers, loopVars, dataVars
<1>2. listener' \in {"up", "starved", "dead"} /\ faults' \in 0 .. MaxFaults
    BY DEF Starves, Recovers
<1>3. Errors'
    BY <1>1 DEF SInv, Errors
<1> QED BY <1>1, <1>2, <1>3, LoopOnly

\* A connection leaves the queue with the permit the loop held.
LEMMA AcceptKeeps ==
    ASSUME SInv, Accept
    PROVE  SInv'
<1> USE LoopFacts
<1> DEFINE c == Head(backlog)
<1>1. TypeOK /\ Permits /\ Queue /\ Shapes /\ Runs
    BY DEF SInv
<1>2. /\ loop = "accept" /\ loop' = "permit" /\ backlog # <<>> /\ backlog' = Tail(backlog)
      /\ phase' = [phase EXCEPT ![c] = "init"] /\ errors' = 0
      /\ UNCHANGED <<permits, backoff, listener, faults, stream, taken, ahead, given, silent>>
    BY DEF Accept, Goto, dataVars
<1>3. /\ backlog \in Seq(Clients) /\ Len(backlog) \in Nat \ {0} /\ c \in Clients
      /\ c = backlog[1] /\ Tail(backlog) \in Seq(Clients)
      /\ Len(Tail(backlog)) = Len(backlog) - 1
      /\ \A i \in 1 .. Len(backlog) - 1 : Tail(backlog)[i] = backlog[i + 1]
      /\ \A i \in 1 .. Len(backlog) : backlog[i] \in Clients
    <2>1. backlog \in Seq(Clients)
        BY <1>1 DEF TypeOK
    <2>2. Len(backlog) \in Nat \ {0}
        BY <1>2, <2>1, EmptySeq
    <2> QED BY <1>2, <2>1, <2>2, HeadTailProperties, ElementOfSeq
<1>4. phase[c] = "backlog"
    BY <1>1, <1>3 DEF Queue
<1> HIDE DEF c
<1>5. /\ phase \in [Clients -> {"away", "backlog"} \cup Served]
      /\ phase' \in [Clients -> {"away", "backlog"} \cup Served]
      /\ phase'[c] = "init" /\ \A d \in Clients \ {c} : phase'[d] = phase[d]
    BY <1>1, <1>2, <1>3 DEF TypeOK, Served
<1>6. TypeOK'
    BY <1>1, <1>2, <1>3, <1>5 DEF TypeOK
<1>7. Permits'
    <2>1. Serving' = Serving \cup {c} /\ c \notin Serving
        BY <1>3, <1>4, <1>5 DEF Serving, Served, Relaying, Guarded
    <2>2. IsFiniteSet(Serving') /\ Cardinality(Serving') = Cardinality(Serving) + 1
        BY <1>1, <2>1, FS_AddElement DEF Permits
    <2>3. Cardinality(Serving) \in Nat
        BY <1>1, FS_CardinalityType DEF Permits
    <2>4. permits + Cardinality(Serving) + 1 = Cap
        BY <1>1, <1>2 DEF Permits, HeldAt
    <2>5. permits' + (Cardinality(Serving) + 1) + HeldAt(loop') = Cap
        BY <1>2, <2>3, <2>4 DEF HeldAt
    <2> QED BY <2>2, <2>5 DEF Permits
<1>8. Errors'
    BY <1>2 DEF Errors
<1>9. Queue'
    <2>1. \A i \in 1 .. Len(backlog) - 1 : backlog[i + 1] # c /\ i + 1 \in 1 .. Len(backlog)
        BY <1>1, <1>3 DEF Queue
    <2>2. \A i \in 1 .. Len(backlog) - 1 : phase'[backlog[i + 1]] = "backlog"
        BY <1>1, <1>3, <1>5, <2>1 DEF Queue
    <2>3. \A i, j \in 1 .. Len(backlog) - 1 : backlog[i + 1] = backlog[j + 1] => i = j
        BY <1>1, <1>3 DEF Queue
    <2> QED BY <1>2, <1>3, <2>2, <2>3 DEF Queue
<1>10. Shapes'
    BY <1>1, <1>2 DEF Shapes
<1>11. Runs'
    <2>1. Sound("init", stream[c], taken[c], ahead[c], given[c])
        BY <1>1, <1>3, <1>4 DEF Runs, Sound, Firsts, Relaying, Guarded
    <2> QED BY <1>1, <1>2, <1>5, <2>1 DEF Runs
<1> QED BY <1>6, <1>7, <1>8, <1>9, <1>10, <1>11 DEF SInv

\* A client that is away joins the queue at its end.
LEMMA ArriveKeeps ==
    ASSUME SInv, NEW c \in Clients, Arrive(c)
    PROVE  SInv'
<1>1. TypeOK /\ Permits /\ Errors /\ Queue /\ Shapes /\ Runs
    BY DEF SInv
<1>2. /\ phase[c] = "away" /\ phase' = [phase EXCEPT ![c] = "backlog"]
      /\ backlog' = Append(backlog, c)
      /\ UNCHANGED <<loop, permits, errors, backoff, listener, faults, taken, ahead, given,
                     silent>>
    BY DEF Arrive, Goto, loopVars
<1>3. PICK s \in StreamsOf[c] : stream' = [stream EXCEPT ![c] = s]
    BY DEF Arrive
<1>4. /\ backlog \in Seq(Clients) /\ Len(backlog) \in Nat
      /\ \A i \in 1 .. Len(backlog) : backlog[i] \in Clients
      /\ Append(backlog, c) \in Seq(Clients) /\ Len(Append(backlog, c)) = Len(backlog) + 1
      /\ \A i \in 1 .. Len(backlog) : Append(backlog, c)[i] = backlog[i]
      /\ Append(backlog, c)[Len(backlog) + 1] = c
    BY <1>1, LenProperties, ElementOfSeq, AppendProperties DEF TypeOK
<1>5. /\ phase' \in [Clients -> {"away", "backlog"} \cup Served]
      /\ phase'[c] = "backlog" /\ \A d \in Clients \ {c} : phase'[d] = phase[d]
    BY <1>1, <1>2 DEF TypeOK
<1>6. /\ s \in StreamKinds /\ Shapes'
      /\ stream'[c] = s /\ \A d \in Clients \ {c} : stream'[d] = stream[d]
    <2>1. s \in StreamKinds
        BY <1>3, SessionsAssumption
    <2> QED BY <1>1, <1>2, <1>3, <2>1 DEF Shapes
<1>7. TypeOK'
    <2>1. \A d \in Clients : stream'[d] \in StreamsOf[d]
        BY <1>1, <1>3, <1>6 DEF TypeOK
    <2> QED BY <1>1, <1>2, <1>4, <1>5, <2>1 DEF TypeOK
<1>8. Permits' /\ Errors'
    <2>1. Serving' = Serving
        BY <1>2, <1>5 DEF Serving, Served, Relaying, Guarded
    <2> QED BY <1>1, <1>2, <2>1 DEF Permits, Errors
<1>9. Queue'
    <2>1. \A i \in 1 .. Len(backlog) : backlog[i] # c
        BY <1>1, <1>2 DEF Queue
    <2>2. \A i \in 1 .. Len(backlog) + 1 : phase'[backlog'[i]] = "backlog"
        BY <1>1, <1>2, <1>4, <1>5, <2>1 DEF Queue
    <2>3. \A i, j \in 1 .. Len(backlog) + 1 : backlog'[i] = backlog'[j] => i = j
        BY <1>1, <1>2, <1>4, <2>1 DEF Queue
    <2> QED BY <1>2, <1>4, <2>2, <2>3 DEF Queue
<1>10. Runs'
    <2>1. Sound("backlog", s, taken[c], ahead[c], given[c])
        BY <1>1, <1>2 DEF Runs, Sound, Firsts, Relaying, Guarded
    <2> QED BY <1>1, <1>2, <1>5, <1>6, <2>1 DEF Runs
<1> QED BY <1>6, <1>7, <1>8, <1>9, <1>10 DEF SInv

\* The queue is lost with the socket.
LEMMA DiesKeeps ==
    ASSUME SInv, Dies
    PROVE  SInv'
<1> USE LoopFacts
<1>1. TypeOK /\ Permits /\ Errors /\ Queue /\ Shapes /\ Runs
    BY DEF SInv
<1>2. /\ listener' = "dead" /\ faults' \in 0 .. MaxFaults /\ backlog' = <<>>
      /\ phase' = [c \in Clients |-> IF phase[c] = "backlog" THEN "away" ELSE phase[c]]
      /\ UNCHANGED <<loop, permits, errors, backoff, stream, taken, ahead, given, silent>>
    BY DEF Dies, loopVars, dataVars
<1>3. /\ phase' \in [Clients -> {"away", "backlog"} \cup Served]
      /\ \A c \in Clients :
            phase'[c] = IF phase[c] = "backlog" THEN "away" ELSE phase[c]
    BY <1>1, <1>2 DEF TypeOK
<1>4. TypeOK'
    BY <1>1, <1>2, <1>3 DEF TypeOK
<1>5. Permits' /\ Errors'
    <2>1. Serving' = Serving
        BY <1>3 DEF Serving, Served, Relaying, Guarded
    <2> QED BY <1>1, <1>2, <2>1 DEF Permits, Errors
<1>6. Queue' /\ Shapes'
    BY <1>1, <1>2 DEF Queue, Shapes
<1>7. Runs'
    <2> SUFFICES ASSUME NEW c \in Clients
                 PROVE  Sound(phase'[c], stream[c], taken[c], ahead[c], given[c])
        BY <1>2 DEF Runs
    <2>1. Sound(phase[c], stream[c], taken[c], ahead[c], given[c])
        BY <1>1 DEF Runs
    <2>2. CASE phase[c] = "backlog"
        BY <1>3, <2>1, <2>2 DEF Sound, Firsts, Relaying, Guarded
    <2>3. CASE phase[c] # "backlog"
        BY <1>3, <2>1, <2>3
    <2> QED BY <2>2, <2>3
<1> QED BY <1>4, <1>5, <1>6, <1>7 DEF SInv

\* A task that ends gives its permit back.
LEMMA EndsKeeps ==
    ASSUME SInv, NEW c \in Clients, phase[c] \in Served, Ends(c)
    PROVE  SInv'
<1>1. TypeOK /\ Permits /\ Errors /\ Queue /\ Shapes /\ Runs
    BY DEF SInv
<1>2. /\ phase' = [phase EXCEPT ![c] = "away"]
      /\ permits' = permits + 1 /\ taken' = [taken EXCEPT ![c] = 0]
      /\ ahead' = [ahead EXCEPT ![c] = <<>>] /\ given' = [given EXCEPT ![c] = <<>>]
      /\ silent' = silent \ {c}
      /\ UNCHANGED <<loop, errors, backoff, listener, backlog, faults, stream>>
    BY DEF Ends, Goto, netVars
<1>3. /\ phase' \in [Clients -> {"away", "backlog"} \cup Served]
      /\ phase'[c] = "away" /\ taken'[c] = 0 /\ ahead'[c] = <<>> /\ given'[c] = <<>>
      /\ \A d \in Clients \ {c} :
            /\ phase'[d] = phase[d] /\ taken'[d] = taken[d]
            /\ ahead'[d] = ahead[d] /\ given'[d] = given[d]
    BY <1>1, <1>2 DEF TypeOK, Shapes
<1>4. Permits' /\ permits' \in 0 .. Cap
    <2>1. Serving' = Serving \ {c} /\ c \in Serving
        BY <1>3 DEF Serving, Served, Relaying, Guarded
    <2>2. IsFiniteSet(Serving') /\ Cardinality(Serving') = Cardinality(Serving) - 1
        BY <1>1, <2>1, FS_RemoveElement DEF Permits
    <2>3. Cardinality(Serving) \in Nat /\ Cardinality(Serving') \in Nat
        BY <1>1, <2>2, FS_CardinalityType DEF Permits
    <2>4. permits + Cardinality(Serving) + HeldAt(loop) = Cap /\ HeldAt(loop) \in Nat
        BY <1>1 DEF Permits, HeldAt
    <2>5. permits \in Nat /\ Cap \in Nat
        BY LoopFacts
    <2> DEFINE k == Cardinality(Serving)
               h == HeldAt(loop)
    <2>6. k \in Nat /\ k - 1 \in Nat /\ h \in Nat /\ permits + k + h = Cap
        BY <2>2, <2>3, <2>4
    <2> HIDE DEF k, h
    <2>7. (permits + 1) + (k - 1) + h = Cap /\ permits + 1 \in 0 .. Cap
        BY <2>5, <2>6
    <2> QED BY <1>2, <2>2, <2>7 DEF Permits, k, h
<1>5. TypeOK'
    <2>1. \A d \in Clients :
             /\ taken'[d] \in 0 .. SentBy[d]
             /\ ahead'[d] \in Seq(1 .. SentBy[d]) /\ given'[d] \in Seq(1 .. SentBy[d])
        <3> TAKE d \in Clients
        <3>1. CASE d = c
            <4>1. SentBy[d] \in Nat
                BY SessionsAssumption
            <4>2. taken'[d] = 0 /\ ahead'[d] = <<>> /\ given'[d] = <<>>
                BY <1>3, <3>1
            <4> QED BY <4>1, <4>2
        <3>2. CASE d # c
            BY <1>1, <1>3, <3>2 DEF TypeOK
        <3> QED BY <3>1, <3>2
    <2> QED BY <1>1, <1>2, <1>3, <1>4, <2>1 DEF TypeOK
<1>6. Errors' /\ Shapes'
    BY <1>1, <1>2 DEF Errors, Shapes
<1>7. Queue'
    <2>1. \A i \in 1 .. Len(backlog) : backlog[i] \in Clients
        BY <1>1, ElementOfSeq DEF TypeOK
    <2>2. phase[c] # "backlog"
        BY DEF Served, Relaying, Guarded
    <2> QED BY <1>1, <1>2, <1>3, <2>1, <2>2 DEF Queue
<1>8. Runs'
    <2>1. Sound("away", stream[c], 0, <<>>, <<>>)
        BY NoPieces DEF Sound, Firsts
    <2> QED BY <1>1, <1>2, <1>3, <2>1 DEF Runs
<1> QED BY <1>4, <1>5, <1>6, <1>7, <1>8 DEF SInv

-----------------------------------------------------------------------------
(* A connection *)

\* A function is itself with a value put where it was.
LEMMA StaysAsItIs ==
    ASSUME NEW c \in Clients, TypeOK, Shapes
    PROVE  /\ phase = [phase EXCEPT ![c] = phase[c]]
           /\ taken = [taken EXCEPT ![c] = taken[c]]
           /\ ahead = [ahead EXCEPT ![c] = ahead[c]]
           /\ given = [given EXCEPT ![c] = given[c]]
BY DEF TypeOK, Shapes

\* A run fits the number of pieces its client sends.
LEMMA PiecesFit ==
    ASSUME NEW i \in Nat \ {0}, NEW j \in Nat, i <= j + 1, NEW m \in Nat, j <= m
    PROVE  Pieces(i, j) \in Seq(1 .. m)
<1>1. Pieces(i, j) \in Seq(1 .. j)
    BY PiecesAre
<1>2. 1 .. j \subseteq 1 .. m
    OBVIOUS
<1> QED BY <1>1, <1>2, SeqMonotonic

\* What has been read of an init may be taken for.
LEMMA SeesOneOf ==
    ASSUME NEW c \in Clients, NEW n \in 1 .. InitMax, TypeOK, Shapes
    PROVE  /\ Sees(c, n) \in {"http", "passthrough", "ladder", "init"}
           /\ Sees(c, n) = "http" => stream[c].looks = "http"
           /\ Sees(c, n) = "ladder" => JunkOf(stream[c]) + HandshakeLen <= n
<1>1. /\ HandshakeLen \in Nat \ {0} /\ InitMax \in Nat \ {0} /\ stream[c] \in StreamKinds
      /\ JunkOf(stream[c]) \in Nat
    BY ClientFacts
<1>2. stream[c].looks = "mtproto" => JunkOf(stream[c]) = stream[c].junk
    BY DEF JunkOf
<1>3. Sees(c, n) = "ladder" =>
        stream[c].looks = "mtproto" /\ n >= stream[c].junk + HandshakeLen
    BY DEF Sees
<1> QED BY <1>1, <1>2, <1>3 DEF Sees

\* A piece of the init keeps the run, with or without the handshake.
LEMMA ReadsInitKeeps ==
    ASSUME SInv, NEW c \in Clients, ReadsInit(c)
    PROVE  SInv'
<1>1. TypeOK /\ Shapes /\ Runs
    BY DEF SInv
<1> DEFINE st == stream[c]
           after == JunkOf(st) + HandshakeLen + 1
<1>2. PICK n \in 1 .. InitMax :
        /\ ReadTo(c, n)
        /\ Goto(c, Sees(c, n))
        /\ ahead' = [ahead EXCEPT ![c] =
              IF Sees(c, n) = "ladder" THEN Pieces(Junk(c) + HandshakeLen + 1, n)
              ELSE Pieces(1, n)]
    BY DEF ReadsInit
<1> DEFINE q == Sees(c, n)
           first == IF q = "ladder" THEN after ELSE 1
<1>3. /\ phase[c] = "init" /\ silent' = silent
      /\ UNCHANGED <<loop, permits, errors, backoff, listener, backlog, faults, stream, given>>
    BY DEF ReadsInit, loopVars, netVars
<1>4. /\ SentBy[c] \in Nat /\ HandshakeLen \in Nat \ {0} /\ InitMax \in Nat \ {0}
      /\ JunkOf(st) \in Nat /\ Junk(c) = JunkOf(st)
    BY <1>1, ClientFacts
<1>5. /\ q \in {"http", "passthrough", "ladder", "init"}
      /\ q = "http" => st.looks = "http"
      /\ q = "ladder" => JunkOf(st) + HandshakeLen <= n
    BY <1>1, SeesOneOf
<1>6. n \in 0 .. SentBy[c] /\ taken' = [taken EXCEPT ![c] = n]
    BY <1>2, <1>4 DEF ReadTo, Lesser
<1>7. given[c] = <<>> /\ given = [given EXCEPT ![c] = <<>>]
    <2>1. given[c] = <<>>
        BY <1>1, <1>3 DEF Runs, Sound, Relaying, Guarded
    <2> QED BY <2>1, <1>1, StaysAsItIs
<1>8. ahead' = [ahead EXCEPT ![c] = Pieces(first, n)]
    BY <1>2, <1>4
<1>9. first \in Nat \ {0} /\ first <= n + 1
    BY <1>4, <1>5
<1>10. first \in Firsts(q, st)
    BY <1>4, <1>5 DEF Firsts
<1> HIDE DEF q, first, after, st
<1>11. Pieces(first, n) \in Seq(1 .. SentBy[c]) /\ Pieces(first, n) \in Seq(Nat)
    <2>1. n \in Nat /\ n <= SentBy[c]
        BY <1>4, <1>6
    <2>2. Pieces(first, n) \in Seq(Nat)
        BY <1>9, <2>1, PiecesAre
    <2> QED BY <1>4, <1>9, <2>1, <2>2, PiecesFit
<1>12. <<>> \o Pieces(first, n) = Pieces(first, n)
    BY <1>11, ConcatEmptySeq
<1>13. Sound(q, st, n, Pieces(first, n), <<>>)
    BY <1>5, <1>9, <1>10, <1>12 DEF Sound
<1>14. q \in Served /\ phase[c] \in Served /\ <<>> \in Seq(1 .. SentBy[c])
    BY <1>3, <1>5 DEF Served
<1>15. phase' = [phase EXCEPT ![c] = q] /\ silent' \subseteq Clients
    BY <1>1, <1>2, <1>3 DEF Goto, TypeOK, q
<1>16. given' = [given EXCEPT ![c] = <<>>]
    BY <1>3, <1>7
<1> QED BY <1>3, <1>6, <1>8, <1>11, <1>13, <1>14, <1>15, <1>16, ServedStep DEF st

\* So does a piece of the body, or that there is none left.
LEMMA ReadsBodyKeeps ==
    ASSUME SInv, NEW c \in Clients, ReadsBody(c)
    PROVE  SInv'
<1>1. TypeOK /\ Shapes /\ Runs
    BY DEF SInv
<1> DEFINE total == Lesser(stream[c].header + stream[c].body, InitMax)
<1>2. /\ phase[c] = "http" /\ silent' = silent
      /\ UNCHANGED <<loop, permits, errors, backoff, listener, backlog, faults, stream, given>>
    BY DEF ReadsBody, loopVars, netVars
<1>3. /\ SentBy[c] \in Nat /\ InitMax \in Nat \ {0} /\ stream[c] \in StreamKinds
      /\ JunkOf(stream[c]) \in Nat /\ taken[c] \in 0 .. SentBy[c]
      /\ ahead[c] \in Seq(1 .. SentBy[c])
    BY <1>1, ClientFacts
<1>4. Sound("http", stream[c], taken[c], ahead[c], given[c])
    BY <1>1, <1>2 DEF Runs
<1>5. stream[c].looks = "http" /\ given[c] = <<>>
    BY <1>4 DEF Sound, Relaying, Guarded
<1>6. total \in Nat
    BY <1>3, <1>5 DEF StreamKinds, Lesser
<1>7. given' = [given EXCEPT ![c] = <<>>] /\ <<>> \in Seq(1 .. SentBy[c])
    BY <1>1, <1>2, <1>5, StaysAsItIs
<1>8. silent' \subseteq Clients /\ phase[c] \in Served
    BY <1>1, <1>2 DEF TypeOK, Served
<1> HIDE DEF total
<1>9. CASE Goto(c, "passthrough") /\ UNCHANGED <<taken, ahead>>
    <2>1. Sound("passthrough", stream[c], taken[c], ahead[c], <<>>)
        BY <1>3, <1>4, <1>5 DEF Sound, Firsts, Relaying, Guarded
    <2>2. /\ phase' = [phase EXCEPT ![c] = "passthrough"] /\ "passthrough" \in Served
          /\ taken' = [taken EXCEPT ![c] = taken[c]]
          /\ ahead' = [ahead EXCEPT ![c] = ahead[c]]
        BY <1>1, <1>9, StaysAsItIs DEF Goto, Served
    <2> QED BY <1>2, <1>3, <1>7, <1>8, <2>1, <2>2, ServedStep
<1>10. CASE \E n \in 1 .. total :
                /\ ReadTo(c, n)
                /\ ahead' = [ahead EXCEPT ![c] = Pieces(1, n)]
                /\ UNCHANGED phase
    <2>1. PICK n \in 1 .. total :
                /\ ReadTo(c, n)
                /\ ahead' = [ahead EXCEPT ![c] = Pieces(1, n)]
                /\ UNCHANGED phase
        BY <1>10
    <2>2. n \in 0 .. SentBy[c] /\ taken' = [taken EXCEPT ![c] = n]
        BY <1>3, <1>6, <2>1 DEF ReadTo, Lesser
    <2>3. Pieces(1, n) \in Seq(1 .. SentBy[c]) /\ Pieces(1, n) \in Seq(Nat)
        <3>1. n \in Nat /\ n <= SentBy[c] /\ 1 <= n + 1
            BY <1>3, <2>2
        <3>2. Pieces(1, n) \in Seq(Nat)
            BY <3>1, PiecesAre
        <3>3. 1 \in Nat \ {0} /\ SentBy[c] \in Nat
            BY <1>3
        <3>4. Pieces(1, n) \in Seq(1 .. SentBy[c])
            BY <3>1, <3>3, PiecesFit
        <3> QED BY <3>2, <3>4
    <2>4. <<>> \o Pieces(1, n) = Pieces(1, n)
        BY <2>3, ConcatEmptySeq
    <2>5. Sound("http", stream[c], n, Pieces(1, n), <<>>)
        BY <1>5, <2>2, <2>4 DEF Sound, Firsts
    <2>6. phase' = [phase EXCEPT ![c] = "http"] /\ "http" \in Served
        BY <1>1, <1>2, <2>1, StaysAsItIs DEF Served
    <2> QED BY <1>2, <1>7, <1>8, <2>1, <2>2, <2>3, <2>5, <2>6, ServedStep
<1> QED BY <1>9, <1>10 DEF ReadsBody, total

\* What is read is handed on as it is.
LEMMA HandsOnKeeps ==
    ASSUME SInv, NEW c \in Clients, ReadEnds(c) \/ Bridges(c)
    PROVE  SInv'
<1>1. TypeOK /\ Shapes /\ Runs
    BY DEF SInv
<1> DEFINE q == IF phase[c] = "ladder" THEN "bridge" ELSE "passthrough"
<1>2. /\ phase[c] \in {"init", "http", "ladder"} /\ phase' = [phase EXCEPT ![c] = q]
      /\ UNCHANGED <<loop, permits, errors, backoff, listener, backlog, faults, stream, taken,
                     ahead, given, silent>>
    BY DEF ReadEnds, Bridges, Goto, loopVars, netVars, dataVars
<1>3. /\ JunkOf(stream[c]) \in Nat /\ taken[c] \in 0 .. SentBy[c]
      /\ ahead[c] \in Seq(1 .. SentBy[c]) /\ given[c] \in Seq(1 .. SentBy[c])
    BY <1>1, ClientFacts
<1>4. Sound(phase[c], stream[c], taken[c], ahead[c], given[c])
    BY <1>1 DEF Runs
<1>5. Sound(q, stream[c], taken[c], ahead[c], given[c])
    BY <1>2, <1>3, <1>4 DEF Sound, Firsts, Relaying, Guarded
<1>6. q \in Served /\ phase[c] \in Served /\ silent' \subseteq Clients
    BY <1>1, <1>2 DEF Served, Relaying, Guarded, TypeOK
<1>7. /\ taken' = [taken EXCEPT ![c] = taken[c]]
      /\ ahead' = [ahead EXCEPT ![c] = ahead[c]] /\ given' = [given EXCEPT ![c] = given[c]]
    BY <1>1, <1>2, StaysAsItIs
<1> HIDE DEF q
<1> QED BY <1>2, <1>3, <1>5, <1>6, <1>7, ServedStep

\* A passthrough is given the handshake too.
LEMMA PassesOnKeeps ==
    ASSUME SInv, NEW c \in Clients, PassesOn(c)
    PROVE  SInv'
<1>1. TypeOK /\ Shapes /\ Runs
    BY DEF SInv
<1> DEFINE j == JunkOf(stream[c])
           t == taken[c]
           k == j + HandshakeLen
<1>2. /\ phase[c] = "ladder" /\ phase' = [phase EXCEPT ![c] = "passthrough"]
      /\ ahead' = [ahead EXCEPT ![c] = Replayed(c)]
      /\ UNCHANGED <<loop, permits, errors, backoff, listener, backlog, faults, stream, taken,
                     given, silent>>
    BY DEF PassesOn, Goto, loopVars, netVars
<1>3. /\ SentBy[c] \in Nat /\ j \in Nat /\ HandshakeLen \in Nat \ {0} /\ Junk(c) = j
      /\ t \in 0 .. SentBy[c] /\ ahead[c] \in Seq(Nat)
    BY <1>1, ClientFacts
<1>4. Sound("ladder", stream[c], t, ahead[c], given[c])
    BY <1>1, <1>2 DEF Runs
<1>5. given[c] = <<>> /\ k + 1 <= t + 1 /\ given[c] \o ahead[c] = Pieces(k + 1, t)
    BY <1>4 DEF Sound, Firsts, Relaying, Guarded
<1>6. ahead[c] = Pieces(k + 1, t)
    BY <1>3, <1>5, ConcatEmptySeq
<1>7. Replayed(c) = Pieces(j + 1, k) \o ahead[c]
    BY <1>3 DEF Replayed
<1> HIDE DEF j, t, k
<1>8. /\ j + 1 \in Nat \ {0} /\ k \in Nat /\ t \in Nat /\ t <= SentBy[c]
      /\ j + 1 <= k + 1 /\ k <= t /\ j + 1 <= t + 1
    <2>1. k \in Nat /\ k >= j
        BY <1>3 DEF k
    <2>2. t \in Nat /\ t <= SentBy[c]
        BY <1>3
    <2> QED BY <1>3, <1>5, <2>1, <2>2
<1>9. Replayed(c) = Pieces(j + 1, t)
    <2>1. Pieces(j + 1, k) \o Pieces(k + 1, t) = Pieces(j + 1, t)
        BY <1>8, PiecesJoin
    <2> QED BY <1>6, <1>7, <2>1
<1>10. Pieces(j + 1, t) \in Seq(1 .. SentBy[c]) /\ Pieces(j + 1, t) \in Seq(Nat)
    <2>1. Pieces(j + 1, t) \in Seq(Nat)
        BY <1>8, PiecesAre
    <2> QED BY <1>3, <1>8, <2>1, PiecesFit
<1>11. <<>> \o Pieces(j + 1, t) = Pieces(j + 1, t)
    BY <1>10, ConcatEmptySeq
<1>12. Sound("passthrough", stream[c], t, Pieces(j + 1, t), <<>>)
    BY <1>3, <1>8, <1>11 DEF Sound, Firsts, j
<1>13. /\ taken' = [taken EXCEPT ![c] = t] /\ given' = [given EXCEPT ![c] = <<>>]
    BY <1>1, <1>2, <1>5, StaysAsItIs DEF t
<1>14. ahead' = [ahead EXCEPT ![c] = Pieces(j + 1, t)]
    BY <1>2, <1>9
<1>15. /\ "passthrough" \in Served /\ phase[c] \in Served /\ silent' \subseteq Clients
       /\ <<>> \in Seq(1 .. SentBy[c])
    BY <1>1, <1>2 DEF Served, TypeOK
<1> QED BY <1>2, <1>3, <1>10, <1>12, <1>13, <1>14, <1>15, ServedStep

\* The initial bytes go to the upstream in one.
LEMMA TunnelsKeeps ==
    ASSUME SInv, NEW c \in Clients, Tunnels(c)
    PROVE  SInv'
<1>1. TypeOK /\ Shapes /\ Runs
    BY DEF SInv
<1>2. PICK q \in {"tunnel", "front"} : phase' = [phase EXCEPT ![c] = q]
    BY DEF Tunnels, Goto
<1>3. /\ phase[c] = "passthrough"
      /\ given' = [given EXCEPT ![c] = ahead[c]] /\ ahead' = [ahead EXCEPT ![c] = <<>>]
      /\ UNCHANGED <<loop, permits, errors, backoff, listener, backlog, faults, stream, taken,
                     silent>>
    BY DEF Tunnels, loopVars, netVars
<1>4. /\ taken[c] \in 0 .. SentBy[c] /\ ahead[c] \in Seq(Nat)
      /\ ahead[c] \in Seq(1 .. SentBy[c])
    BY <1>1, ClientFacts
<1>5. Sound("passthrough", stream[c], taken[c], ahead[c], given[c])
    BY <1>1, <1>3 DEF Runs
<1>6. given[c] = <<>>
    BY <1>5 DEF Sound, Relaying, Guarded
<1>7. <<>> \o ahead[c] = ahead[c] \o <<>>
    BY <1>4, ConcatEmptySeq
<1>8. Sound(q, stream[c], taken[c], <<>>, ahead[c])
    BY <1>5, <1>6, <1>7 DEF Sound, Firsts, Relaying, Guarded
<1>9. taken' = [taken EXCEPT ![c] = taken[c]]
    BY <1>1, <1>3, StaysAsItIs
<1>10. /\ q \in Served /\ phase[c] \in Served /\ silent' \subseteq Clients
       /\ <<>> \in Seq(1 .. SentBy[c])
    BY <1>1, <1>3 DEF Served, Relaying, Guarded, TypeOK
<1> QED BY <1>2, <1>3, <1>4, <1>8, <1>9, <1>10, ServedStep

\* A piece goes from what is read ahead, or from the socket, to the upstream.
LEMMA RelaysKeeps ==
    ASSUME SInv, NEW c \in Clients, Relays(c)
    PROVE  SInv'
<1>1. TypeOK /\ Shapes /\ Runs
    BY DEF SInv
<1> DEFINE q == phase[c]
           t == taken[c]
           a == ahead[c]
           g == given[c]
           m == SentBy[c]
<1>2. /\ q \in Relaying
      /\ UNCHANGED <<loop, permits, errors, backoff, listener, backlog, faults, phase, stream,
                     silent>>
    BY DEF Relays, loopVars, netVars
<1>3. /\ m \in Nat /\ t \in 0 .. m /\ JunkOf(stream[c]) \in Nat /\ HandshakeLen \in Nat \ {0}
      /\ a \in Seq(1 .. m) /\ a \in Seq(Nat) /\ g \in Seq(1 .. m) /\ g \in Seq(Nat)
    BY <1>1, ClientFacts
<1>4. Sound(q, stream[c], t, a, g)
    BY <1>1 DEF Runs
<1>5. PICK first \in Firsts(q, stream[c]) : first <= t + 1 /\ g \o a = Pieces(first, t)
    BY <1>4 DEF Sound
<1>6. first \in Nat \ {0}
    BY <1>2, <1>3, <1>5 DEF Firsts, Relaying, Guarded
<1>7. q \in Served /\ q \notin {"away", "backlog", "http"} /\ silent' \subseteq Clients
    BY <1>1, <1>2 DEF Served, Relaying, Guarded, TypeOK
<1>8. phase' = [phase EXCEPT ![c] = q]
    BY <1>1, <1>2, StaysAsItIs
<1>9. CASE a # <<>>
    <2>1. PICK n \in 1 .. Len(a) :
              /\ given' = [given EXCEPT ![c] = g \o SubSeq(a, 1, n)]
              /\ ahead' = [ahead EXCEPT ![c] = SubSeq(a, n + 1, Len(a))]
              /\ UNCHANGED taken
        BY <1>1, <1>9 DEF Relays, Shapes
    <2> DEFINE b == SubSeq(a, 1, n)
               d == SubSeq(a, n + 1, Len(a))
    <2>2. b \in Seq(1 .. m) /\ d \in Seq(1 .. m) /\ g \o b \in Seq(1 .. m)
        <3>1. Len(a) \in Nat /\ \A i \in 1 .. Len(a) : a[i] \in 1 .. m
            BY <1>3, LenProperties, ElementOfSeq
        <3>2. b \in Seq(1 .. m)
            BY <3>1, SubSeqProperties
        <3>3. d \in Seq(1 .. m)
            BY <3>1, SubSeqProperties
        <3> QED BY <1>3, <3>2, <3>3, ConcatProperties
    <2>3. (g \o b) \o d = g \o a
        BY <1>3, Handed
    <2>4. taken' = [taken EXCEPT ![c] = t]
        BY <1>1, <2>1, StaysAsItIs
    <2> HIDE DEF b, d
    <2>5. Sound(q, stream[c], t, d, g \o b)
        BY <1>2, <1>5, <1>7, <2>3 DEF Sound
    <2>6. given' = [given EXCEPT ![c] = g \o b] /\ ahead' = [ahead EXCEPT ![c] = d]
        BY <2>1 DEF b, d
    <2> HIDE DEF q, t, g
    <2> QED BY <1>2, <1>3, <1>7, <1>8, <2>2, <2>4, <2>5, <2>6, ServedStep DEF m, q, t
<1>10. CASE a = <<>>
    <2>1. /\ t < m /\ taken' = [taken EXCEPT ![c] = t + 1]
          /\ given' = [given EXCEPT ![c] = Append(g, t + 1)] /\ UNCHANGED ahead
        BY <1>1, <1>10 DEF Relays, Shapes
    <2>2. t + 1 \in 0 .. m /\ t \in Nat /\ Append(g, t + 1) \in Seq(1 .. m)
          /\ Append(g, t + 1) \in Seq(Nat)
        BY <1>3, <2>1, AppendProperties
    <2>3. g = Pieces(first, t)
        BY <1>3, <1>5, <1>10, ConcatEmptySeq
    <2>4. Append(g, t + 1) = Pieces(first, t + 1)
        BY <1>5, <1>6, <2>2, <2>3, PiecesGrow
    <2>5. Append(g, t + 1) \o <<>> = Append(g, t + 1)
        BY <2>2, ConcatEmptySeq
    <2>6. first <= (t + 1) + 1
        BY <1>5, <1>6, <2>2
    <2>7. Sound(q, stream[c], t + 1, <<>>, Append(g, t + 1))
        BY <1>2, <1>5, <1>7, <2>4, <2>5, <2>6 DEF Sound
    <2>8. ahead' = [ahead EXCEPT ![c] = <<>>] /\ <<>> \in Seq(1 .. m)
        BY <1>1, <1>10, <2>1, StaysAsItIs
    <2> QED BY <1>2, <1>7, <1>8, <2>1, <2>2, <2>7, <2>8, ServedStep
<1> QED BY <1>9, <1>10

\* Silence changes nothing else.
LEMMA SilenceKeeps ==
    ASSUME SInv, NEW c \in Clients, FallsSilent(c)
    PROVE  SInv'
<1>1. TypeOK /\ Permits /\ Errors /\ Queue /\ Shapes /\ Runs
    BY DEF SInv
<1>2. /\ silent' = silent \cup {c}
      /\ UNCHANGED <<loop, permits, errors, backoff, listener, backlog, faults, phase, stream,
                     taken, ahead, given>>
    BY DEF FallsSilent, loopVars, netVars, dataVars
<1>3. TypeOK'
    BY <1>1, <1>2 DEF TypeOK
<1>4. Permits' /\ Errors' /\ Queue' /\ Shapes' /\ Runs'
    BY <1>1, <1>2 DEF Permits, Serving, Errors, Queue, Shapes, Runs
<1> QED BY <1>3, <1>4 DEF SInv

-----------------------------------------------------------------------------
(* The theorems *)

\* Nothing changes.
LEMMA StutterKeeps ==
    ASSUME SInv, UNCHANGED vars
    PROVE  SInv'
<1>1. UNCHANGED <<loop, permits, errors, backoff, listener, backlog, faults, phase, stream,
                  taken, ahead, given, silent>>
    BY DEF vars, loopVars, netVars, dataVars
<1>2. TypeOK'
    BY <1>1 DEF SInv, TypeOK
<1>3. Permits' /\ Errors' /\ Queue' /\ Shapes' /\ Runs'
    BY <1>1 DEF SInv, Permits, Serving, Errors, Queue, Shapes, Runs
<1> QED BY <1>2, <1>3 DEF SInv

\* Every step of the loop, of the listener and of a connection keeps the invariant.
LEMMA NextKeeps == SInv /\ [Next]_vars => SInv'
<1> SUFFICES ASSUME SInv, [Next]_vars
             PROVE  SInv'
    OBVIOUS
<1>1. CASE LoopStep
    BY <1>1, LoopKeeps, AcceptKeeps DEF LoopStep
<1>2. ASSUME NEW c \in Clients, Arrive(c)
      PROVE  SInv'
    BY <1>2, ArriveKeeps
<1>3. ASSUME NEW c \in Clients, Connection(c)
      PROVE  SInv'
    <2>1. CASE ReadsInit(c)
        BY <2>1, ReadsInitKeeps
    <2>2. CASE ReadsBody(c)
        BY <2>2, ReadsBodyKeeps
    <2>3. CASE ReadEnds(c) \/ Bridges(c)
        BY <2>3, HandsOnKeeps
    <2>4. CASE PassesOn(c)
        BY <2>4, PassesOnKeeps
    <2>5. CASE Tunnels(c)
        BY <2>5, TunnelsKeeps
    <2>6. CASE Relays(c)
        BY <2>6, RelaysKeeps
    <2>7. CASE FallsSilent(c)
        BY <2>7, SilenceKeeps
    <2>8. CASE Drops(c) \/ Closes(c) \/ Reaped(c)
        <3>1. phase[c] \in Served /\ Ends(c)
            BY <2>8 DEF Drops, Closes, Reaped, Served, Relaying
        <3> QED BY <3>1, EndsKeeps
    <2> QED BY <1>3, <2>1, <2>2, <2>3, <2>4, <2>5, <2>6, <2>7, <2>8 DEF Connection, Progress
<1>4. CASE Starves \/ Recovers
    BY <1>4, ListenerKeeps
<1>5. CASE Dies
    BY <1>5, DiesKeeps
<1>6. CASE UNCHANGED vars
    BY <1>6, StutterKeeps
<1> QED BY <1>1, <1>2, <1>3, <1>4, <1>5, <1>6 DEF Next

(***************************************************************************)
(* The invariant holds throughout: for every cap, whatever clients send    *)
(* and however the listener fails, each permit is free, the loop's or one  *)
(* connection's that is served, and each connection holds a run of what    *)
(* its client sent.                                                        *)
(***************************************************************************)
THEOREM SessionsInvariant == Spec => []SInv
<1>1. Init => SInv
    BY Starts
<1>2. SInv /\ [Next]_vars => SInv'
    BY NextKeeps
<1> QED BY <1>1, <1>2, PTL DEF Spec

\* Every variable has its type; permits stay within the cap of serve_with_cap().
THEOREM SessionsTypes == Spec => []TypeOK
<1>1. SInv => TypeOK
    BY DEF SInv
<1> QED BY <1>1, SessionsInvariant, PTL

(***************************************************************************)
(* No more connections are served at a time than max_conns() allows, and   *)
(* when none is and the loop waits for none, every permit is free: none    *)
(* leaks on any path out of handle_conn() or of accept().                  *)
(***************************************************************************)
THEOREM CapHolds ==
    Spec => [](/\ IsFiniteSet(Serving) /\ Cardinality(Serving) <= Cap
               /\ Serving = {} /\ loop # "accept" => permits = Cap)
<1>1. ASSUME SInv
      PROVE  /\ IsFiniteSet(Serving) /\ Cardinality(Serving) <= Cap
             /\ Serving = {} /\ loop # "accept" => permits = Cap
    <2>1. IsFiniteSet(Serving) /\ permits + Cardinality(Serving) + HeldAt(loop) = Cap
        BY <1>1 DEF SInv, Permits
    <2>2. permits \in Nat /\ Cap \in Nat /\ HeldAt(loop) \in Nat
        BY <1>1, LoopFacts DEF HeldAt
    <2>3. Cardinality(Serving) \in Nat
        BY <2>1, FS_CardinalityType
    <2>4. Cardinality(Serving) <= Cap
        BY <2>1, <2>2, <2>3
    <2>5. ASSUME Serving = {}, loop # "accept"
          PROVE  permits = Cap
        <3>1. Cardinality(Serving) = 0 /\ HeldAt(loop) = 0
            BY <2>5, FS_EmptySet DEF HeldAt
        <3> QED BY <2>1, <2>2, <3>1
    <2> QED BY <2>1, <2>4, <2>5
<1> QED BY <1>1, SessionsInvariant, PTL

(***************************************************************************)
(* However an init arrives in pieces, whatever it is taken for and         *)
(* whichever rungs fail, the upstream of a session is given the client's   *)
(* bytes in order, none twice and none left out (handle_conn()).           *)
(***************************************************************************)
THEOREM ByteOnce == Spec => []EveryByteOnce
<1>1. ASSUME SInv
      PROVE  EveryByteOnce
    <2> SUFFICES ASSUME NEW c \in Clients, phase[c] \in Relaying
                 PROVE  LET first == taken[c] + 1 - Len(given[c] \o ahead[c])
                        IN  /\ given[c] \o ahead[c] = Pieces(first, taken[c])
                            /\ IF phase[c] = "bridge" THEN first = Junk(c) + HandshakeLen + 1
                               ELSE first <= Junk(c) + 1
        BY DEF EveryByteOnce
    <2> DEFINE t == taken[c]
               j == Junk(c)
    <2>1. TypeOK /\ Shapes /\ Runs
        BY <1>1 DEF SInv
    <2>2. /\ t \in Nat /\ j \in Nat /\ HandshakeLen \in Nat /\ Junk(c) = JunkOf(stream[c])
        <3>1. SentBy[c] \in Nat /\ t \in 0 .. SentBy[c]
            BY <2>1, ClientFacts
        <3> QED BY <2>1, <3>1, ClientFacts
    <2>3. PICK n \in Firsts(phase[c], stream[c]) :
              n <= t + 1 /\ given[c] \o ahead[c] = Pieces(n, t)
        BY <2>1 DEF Runs, Sound
    <2>4. /\ phase[c] = "bridge" => n = j + HandshakeLen + 1
          /\ phase[c] # "bridge" => n \in 1 .. j + 1
        BY <2>2, <2>3 DEF Firsts, Relaying, Guarded
    <2> HIDE DEF t, j
    <2>5. n \in Nat \ {0}
        BY <2>2, <2>4
    <2>6. Len(Pieces(n, t)) = t + 1 - n
        BY <2>2, <2>3, <2>5, PiecesAre
    <2>7. t + 1 - (t + 1 - n) = n
        BY <2>2, <2>5
    <2>8. taken[c] + 1 - Len(given[c] \o ahead[c]) = n
        BY <2>3, <2>6, <2>7 DEF t
    <2>9. IF phase[c] = "bridge" THEN n = Junk(c) + HandshakeLen + 1 ELSE n <= Junk(c) + 1
        BY <2>2, <2>4 DEF j
    <2> QED BY <2>3, <2>8, <2>9 DEF t
<1> QED BY <1>1, SessionsInvariant, PTL

(***************************************************************************)
(* Nothing but front passthroughs that fell silent can hold every permit   *)
(* for good: for any cap and any number of clients, and however accept()   *)
(* and rebinds failed before.                                              *)
(***************************************************************************)
THEOREM WedgedByFrontsOnly == Spec => []OnlyFrontsWedge
<1>1. ASSUME SInv, loop = "permit", permits = 0,
             \A c \in Clients : phase[c] \in Served => phase[c] = "front" /\ c \in silent
      PROVE  Wedged
    <2> DEFINE Stuck == {c \in silent : phase[c] = "front"}
    <2>1. silent \subseteq Clients
        BY <1>1 DEF SInv, TypeOK
    <2>2. Stuck = Serving
        BY <1>1, <2>1 DEF Serving, Served, Relaying
    <2>3. HeldAt(loop) = 0
        BY <1>1 DEF HeldAt
    <2>4. IsFiniteSet(Serving) /\ permits + Cardinality(Serving) + HeldAt(loop) = Cap
        BY <1>1 DEF SInv, Permits
    <2>5. Cardinality(Serving) = Cap
        BY <1>1, <2>3, <2>4, FS_CardinalityType
    <2> QED BY <2>2, <2>5 DEF Wedged
<1>2. SInv => OnlyFrontsWedge
    BY <1>1 DEF OnlyFrontsWedge
<1> QED BY <1>2, SessionsInvariant, PTL
=============================================================================
