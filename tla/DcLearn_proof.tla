--------------------------- MODULE DcLearn_proof ---------------------------
(***************************************************************************)
(* Proofs about DcLearn, for every set of addresses, data centres,         *)
(* sessions and writers.                                                   *)
(***************************************************************************)
EXTENDS DcLearn, SequenceTheorems, WellFoundedInduction, TLAPS

\* What the argument needs of the types: the shape of the maps, and that a
\* lesson under way is an entry.
Shape ==
    /\ learned = [ip \in Ips |-> learned[ip]]
    /\ overrides = [ip \in Ips |-> overrides[ip]]
    /\ manual = [ip \in Ips |-> manual[ip]]
    /\ lines = [ip \in Ips |-> lines[ip]]
    /\ lesson \in [Learners -> Entries \cup {None}]

\* A line begun since the last load belongs to an address that is now mapped:
\* the second check of learn() then keeps every later session out.
LinesAreMapped ==
    \A ip \in Ips : lines[ip] \in {0, 1} /\ (lines[ip] = 1 => learned[ip] # None)

LInv == Shape /\ OperatorWins /\ LinesAreMapped

\* A load puts the operator's entries on top.
LEMMA LoadObeysOperator ==
    \A ip \in Ips : manual[ip] # None => Loaded[ip] = manual[ip]
BY DEF Loaded, Overlay

LEMMA LInvInit == Init => LInv
<1> SUFFICES ASSUME Init PROVE LInv
    OBVIOUS
<1>1. Shape
    <2>1. PICK m \in Maps : manual = m
        BY DEF Init
    <2> QED BY <2>1 DEF Init, Shape, Maps
<1>2. OperatorWins
    BY DEF Init, OperatorWins
<1>3. LinesAreMapped
    BY DEF Init, LinesAreMapped
<1> QED BY <1>1, <1>2, <1>3 DEF LInv

\* The write-locked half of learn(): a new mapping lands only where there was
\* none, hence on no address the operator mapped and on none with a line.
LEMMA InsertKeepsLInv ==
    ASSUME LInv, NEW l \in Learners, Insert(l)
    PROVE  LInv'
<1> DEFINE x == lesson[l]
           entry == [dc |-> x.dc, media |-> x.media]
<1>1. x \in Entries
    BY DEF LInv, Shape, Insert
<1>2. x.ip \in Ips /\ entry \in Mappings /\ entry # None
    BY <1>1, LearnAssumption DEF Entries, Mappings
<1>3. CASE Missing(x)
    <2>1. /\ learned' = [learned EXCEPT ![x.ip] = entry]
          /\ lines' = [lines EXCEPT ![x.ip] = @ + 1]
        BY <1>3 DEF Insert
    <2>2. learned[x.ip] = None
        BY <1>3 DEF Missing
    <2>3. Shape'
        BY <2>1 DEF Insert, LInv, Shape
    <2>4. OperatorWins'
        BY <2>1, <2>2, <1>2 DEF Insert, LInv, Shape, OperatorWins
    <2>5. lines[x.ip] = 0
        BY <2>2, <1>2 DEF LInv, LinesAreMapped
    <2>6. LinesAreMapped'
        BY <2>1, <2>5, <1>2 DEF LInv, Shape, LinesAreMapped
    <2> QED BY <2>3, <2>4, <2>6 DEF LInv
<1>4. CASE ~ Missing(x)
    BY <1>4 DEF Insert, LInv, Shape, OperatorWins, LinesAreMapped
<1> QED BY <1>3, <1>4

LEMMA LInvStep == LInv /\ [Next]_vars => LInv'
<1> SUFFICES ASSUME LInv, [Next]_vars PROVE LInv'
    OBVIOUS
<1> USE DEF LInv
<1>1. ASSUME NEW l \in Learners, NEW x \in Entries, Check(l, x) PROVE LInv'
    BY <1>1 DEF Check, Shape, OperatorWins, LinesAreMapped
<1>2. ASSUME NEW l \in Learners, Insert(l) PROVE LInv'
    BY <1>2, InsertKeepsLInv
<1>3. ASSUME NEW w \in Writers, WriteEntry(w) \/ WriteNewline(w) \/ WriteFails(w)
      PROVE LInv'
    BY <1>3 DEF WriteEntry, WriteNewline, WriteFails, Shape, OperatorWins,
                LinesAreMapped
<1>4. ASSUME learned' = Loaded, overrides' = manual,
             lines' = [ip \in Ips |-> 0], manual' = manual,
             lesson' \in [Learners -> Entries \cup {None}]
      PROVE LInv'
    <2>1. Loaded = [ip \in Ips |-> Loaded[ip]]
        BY DEF Loaded, Overlay
    <2>2. Shape'
        BY <1>4, <2>1 DEF Shape
    <2>3. OperatorWins'
        BY <1>4, LoadObeysOperator DEF OperatorWins
    <2>4. LinesAreMapped'
        BY <1>4 DEF LinesAreMapped
    <2> QED BY <2>2, <2>3, <2>4
<1>5. CASE Load
    BY <1>4, <1>5 DEF Load, Shape
<1>6. CASE Restart
    BY <1>4, <1>6 DEF Restart
<1>7. ASSUME NEW ip \in Ips, NEW m, EditManual(ip, m) PROVE LInv'
    BY <1>7 DEF EditManual, Shape, OperatorWins, LinesAreMapped
<1>8. CASE UNCHANGED vars
    BY <1>8 DEF vars, Shape, OperatorWins, LinesAreMapped
<1> QED
    BY <1>1, <1>2, <1>3, <1>5, <1>6, <1>7, <1>8, LearnAssumption
    DEF Next, Session, Persist, Operator

\* The inductive invariant of learn(), its writers and load().
THEOREM LearnInvariant == Spec => []LInv
<1> QED BY LInvInit, LInvStep, PTL DEF Spec

(***************************************************************************)
(* "The admin file wins on conflict" (load(), learn()), whatever sessions  *)
(* teach between two loads and whatever the learned file holds.            *)
(***************************************************************************)
THEOREM OperatorIsObeyed == Spec => []OperatorWins
<1>1. LInv => OperatorWins
    BY DEF LInv
<1> QED BY <1>1, LearnInvariant, PTL

(***************************************************************************)
(* Between two loads an address costs at most one line of the learned      *)
(* file: the double-checked insertion of learn() under any number of       *)
(* concurrent sessions.                                                    *)
(***************************************************************************)
THEOREM FlashIsSpared == Spec => []OneLinePerLoad
<1>1. LInv => OneLinePerLoad
    BY DEF LInv, LinesAreMapped, OneLinePerLoad
<1> QED BY <1>1, LearnInvariant, PTL

-----------------------------------------------------------------------------
(***************************************************************************)
(* The learned file, as load() reads it.                                   *)
(***************************************************************************)

\* A set of numbers that is bounded has a greatest one.
LEMMA HasMax ==
    ASSUME NEW n \in Nat, NEW S, S \subseteq 1 .. n, S # {}
    PROVE  Max(S) \in S /\ \A y \in S : Max(S) >= y
<1> DEFINE T == {n - x : x \in S}
           R == OpToRel(<, Nat)
<1>1. T \subseteq Nat /\ T # {}
    <2>1. \A x \in S : n - x \in Nat
        OBVIOUS
    <2>2. PICK x \in S : TRUE
        OBVIOUS
    <2> QED BY <2>1, <2>2
<1>2. \A x, y \in Nat : x < y => <<x, y>> \in R
    BY DEF OpToRel
<1>3. IsWellFoundedOn(R, Nat)
    BY NatLessThanWellFounded
<1> HIDE DEF R
<1>4. PICK t \in T : \A u \in T : ~ (<<u, t>> \in R)
    <2> HIDE DEF T
    <2> QED BY <1>1, <1>3, WFMin
<1>5. \A u \in T : ~ (u < t)
    BY <1>1, <1>2, <1>4
<1>6. PICK m \in S : t = n - m
    BY <1>4
<1>7. \A y \in S : n - y \in T
    OBVIOUS
<1>8. \A y \in S : m >= y
    BY <1>5, <1>6, <1>7
<1> QED BY <1>8 DEF Max

\* A line begins with an entry, if with anything.
LEMMA LineBegins ==
    ASSUME NEW f \in Seq(Entries \cup {Newline}), NEW e \in LineEnds(f),
           LineAt(f, e) # <<>>
    PROVE  /\ LineStart(f, e) \in 1 .. Len(f)
           /\ LineAt(f, e)[1] = f[LineStart(f, e)]
           /\ f[LineStart(f, e)] \in Entries
           /\ Len(LineAt(f, e)) \in Nat \ {0}
<1> DEFINE n == Len(f)
           before == {b \in LineEnds(f) : b < e}
           st == LineStart(f, e)
           line == LineAt(f, e)
<1>1. n \in Nat /\ n + 1 \in Nat /\ \A i \in 1 .. n : f[i] \in Entries \cup {Newline}
    BY ElementOfSeq, LenProperties
<1>2. LineEnds(f) = {i \in 1 .. n : f[i] = Newline} \cup {n + 1}
    BY DEF LineEnds
<1>3. line = SubSeq(f, st, e - 1)
    BY DEF LineAt
<1>4. st = IF before = {} THEN 1 ELSE Max(before) + 1
    BY DEF LineStart
<1> HIDE DEF n, st, line
<1>5. LineEnds(f) \subseteq 1 .. n + 1 /\ before \subseteq 1 .. n + 1
    BY <1>1, <1>2
<1>6. e \in 1 .. n + 1
    BY <1>5
<1>7. before # {} => Max(before) \in before /\ \A y \in before : Max(before) >= y
    <2> DEFINE k == n + 1
    <2>1. k \in Nat /\ before \subseteq 1 .. k
        BY <1>1, <1>5
    <2> HIDE DEF k, before
    <2> QED BY <2>1, HasMax
<1>8. st \in 1 .. e /\ \A b \in before : b < st
    BY <1>1, <1>4, <1>5, <1>6, <1>7
<1> DEFINE last == e - 1
<1>9. last \in Int /\ st \in Int /\ \A i \in st .. last : f[i] \in Entries \cup {Newline}
    BY <1>1, <1>6, <1>8
<1> HIDE DEF last
<1>10. /\ line \in Seq(Entries \cup {Newline})
       /\ Len(line) = IF st <= last THEN last - st + 1 ELSE 0
       /\ \A i \in 1 .. last - st + 1 : line[i] = f[st + i - 1]
    BY <1>3, <1>9, SubSeqProperties DEF last
<1>11. line # <<>>
    BY DEF line
<1>12. Len(line) # 0
    BY <1>10, <1>11, EmptySeq
<1>13. st <= last /\ st \in 1 .. n /\ st < e
    BY <1>1, <1>6, <1>8, <1>10, <1>12 DEF last
<1>14. line[1] = f[st] /\ Len(line) \in Nat \ {0}
    <2>1. 1 \in 1 .. last - st + 1 /\ st + 1 - 1 = st /\ last - st + 1 \in Nat \ {0}
        BY <1>9, <1>13
    <2>2. line[1] = f[st + 1 - 1]
        BY <1>10, <2>1
    <2> QED BY <1>10, <1>13, <2>1, <2>2
<1>15. f[st] # Newline
    <2> SUFFICES ASSUME f[st] = Newline PROVE FALSE
        OBVIOUS
    <2>1. st \in before
        BY <1>2, <1>13
    <2> QED BY <1>8, <1>13, <2>1
<1> QED BY <1>1, <1>13, <1>14, <1>15 DEF n, st, line

(***************************************************************************)
(* However lines ran together, the address and the data centre load()      *)
(* takes from the learned file stand together in an entry written to it.   *)
(***************************************************************************)
LEMMA FileMapIs ==
    ASSUME NEW f \in Seq(Entries \cup {Newline})
    PROVE  /\ FileMap(f) \in Maps
           /\ \A ip \in Ips : ParsedAt(f, ip) # {} => FileMap(f)[ip] \in Mappings
           /\ \A ip \in Ips : FileMap(f)[ip] # None =>
                 \E i \in 1 .. Len(f) :
                    f[i] \in Entries /\ f[i].ip = ip /\ f[i].dc = FileMap(f)[ip].dc
<1>1. ASSUME NEW ip \in Ips, ParsedAt(f, ip) # {}
      PROVE  /\ FileMap(f)[ip] \in Mappings
             /\ \E i \in 1 .. Len(f) :
                   f[i] \in Entries /\ f[i].ip = ip /\ f[i].dc = FileMap(f)[ip].dc
    <2> DEFINE e == Max(ParsedAt(f, ip))
               line == LineAt(f, e)
               i == LineStart(f, e)
               x == CHOOSE y \in ParseLine(line) : TRUE
    <2>1. e \in ParsedAt(f, ip)
        <3> DEFINE k == Len(f) + 1
        <3>1. k \in Nat /\ ParsedAt(f, ip) \subseteq 1 .. k
            BY LenProperties DEF ParsedAt, LineEnds
        <3> HIDE DEF k
        <3> QED BY <1>1, <3>1, HasMax
    <2> HIDE DEF e
    <2>2. e \in LineEnds(f) /\ \E y \in ParseLine(line) : y.ip = ip
        BY <2>1 DEF ParsedAt
    <2>3. line # <<>>
        <3>1. Len(<<>>) = 0
            OBVIOUS
        <3>2. ParseLine(<<>>) = {}
            BY <3>1 DEF ParseLine
        <3> QED BY <2>2, <3>2
    <2>4. /\ i \in 1 .. Len(f) /\ line[1] = f[i] /\ f[i] \in Entries
          /\ Len(line) \in Nat \ {0}
        BY <2>2, <2>3, LineBegins
    <2>5. FileMap(f)[ip] = [dc |-> x.dc, media |-> x.media]
        BY <1>1 DEF FileMap, e
    <2> HIDE DEF line, i
    <2>6. \A y \in ParseLine(line) :
            y \in Entries /\ y.ip = f[i].ip /\ y.dc = f[i].dc
        <3>1. CASE Len(line) = 1
            BY <2>4, <3>1 DEF ParseLine
        <3>2. CASE Len(line) # 1
            <4>1. ParseLine(line) \subseteq {[f[i] EXCEPT !.media = FALSE]}
                BY <2>4, <3>2 DEF ParseLine
            <4>2. [f[i] EXCEPT !.media = FALSE] \in Entries
                BY <2>4 DEF Entries
            <4>3. /\ [f[i] EXCEPT !.media = FALSE].ip = f[i].ip
                  /\ [f[i] EXCEPT !.media = FALSE].dc = f[i].dc
                BY <2>4 DEF Entries
            <4> QED BY <4>1, <4>2, <4>3
        <3> QED BY <3>1, <3>2
    <2>7. x \in ParseLine(line)
        BY <2>2
    <2> HIDE DEF x
    <2>8. x \in Entries /\ f[i].dc = x.dc /\ f[i].ip = ip
        BY <2>2, <2>6, <2>7
    <2>9. [dc |-> x.dc, media |-> x.media] \in Mappings
        BY <2>8 DEF Entries, Mappings
    <2> QED BY <2>4, <2>5, <2>8, <2>9
<1>2. ASSUME NEW ip \in Ips, ParsedAt(f, ip) = {}
      PROVE  FileMap(f)[ip] = None
    BY <1>2 DEF FileMap
<1>3. FileMap(f) = [ip \in Ips |-> FileMap(f)[ip]]
    BY DEF FileMap
<1>4. \A ip \in Ips : FileMap(f)[ip] \in Mappings \cup {None}
    BY <1>1, <1>2
<1>5. FileMap(f) \in Maps
    BY <1>3, <1>4 DEF Maps
<1> QED BY <1>1, <1>2, <1>5

(***************************************************************************)
(* The invariant behind NoForeignDc: whatever waits to become a mapping,   *)
(* in a session, in a writer, in either file, was reported as it stands.   *)
(***************************************************************************)
Vouched(x) == <<x.ip, x.dc>> \in observed

Honest ==
    /\ \A i \in 1 .. Len(file) : file[i] # Newline => Vouched(file[i])
    /\ \A l \in Learners : lesson[l] # None => Vouched(lesson[l])
    /\ \A w \in Writers : append[w] # None => Vouched(append[w])
    /\ \A ip \in Ips : manual[ip] # None => <<ip, manual[ip].dc>> \in observed

HInv == TypeOK /\ Honest /\ NoForeignDc

\* What a load leaves in memory was reported.
LEMMA LoadIsHonest ==
    ASSUME HInv
    PROVE  /\ Loaded \in Maps
           /\ \A ip \in Ips : Loaded[ip] # None => <<ip, Loaded[ip].dc>> \in observed
<1>1. /\ file \in Seq(Entries \cup {Newline}) /\ manual \in Maps
      /\ \A i \in 1 .. Len(file) : file[i] \in Entries => Vouched(file[i])
      /\ \A ip \in Ips : manual[ip] # None => <<ip, manual[ip].dc>> \in observed
    BY LearnAssumption DEF HInv, TypeOK, Honest
<1>2. /\ FileMap(file) \in Maps
      /\ \A ip \in Ips : FileMap(file)[ip] # None => <<ip, FileMap(file)[ip].dc>> \in observed
    BY <1>1, FileMapIs DEF Vouched
<1>3. \A ip \in Ips : Loaded[ip] = IF manual[ip] # None THEN manual[ip] ELSE FileMap(file)[ip]
    BY DEF Loaded, Overlay
<1>4. Loaded = [ip \in Ips |-> Loaded[ip]]
    BY DEF Loaded, Overlay
<1>5. \A ip \in Ips : Loaded[ip] \in Mappings \cup {None}
    BY <1>1, <1>2, <1>3 DEF Maps
<1>6. Loaded \in Maps
    BY <1>4, <1>5 DEF Maps
<1> QED BY <1>1, <1>2, <1>3, <1>6

\* The daemon starts with the operator's entries, all reported.
LEMMA HInvInit == Init => HInv
<1> SUFFICES ASSUME Init PROVE HInv
    OBVIOUS
<1>1. manual \in Maps /\ file = <<>> /\ learned = manual
    BY DEF Init
<1>2. TypeOK
    BY <1>1 DEF Init, TypeOK
<1>3. \A ip \in Ips : manual[ip] # None => <<ip, manual[ip].dc>> \in observed
    <2>1. \A ip \in Ips : manual[ip] # None => manual[ip].dc \in DcIds
        BY <1>1 DEF Maps, Mappings
    <2> QED BY <2>1 DEF Init
<1>4. Honest
    BY <1>1, <1>3 DEF Init, Honest
<1> QED BY <1>1, <1>2, <1>3, <1>4 DEF HInv, NoForeignDc

\* The write-locked half of learn() maps an address to what a session reported.
LEMMA InsertIsHonest ==
    ASSUME HInv, NEW l \in Learners, Insert(l)
    PROVE  HInv'
<1> DEFINE x == lesson[l]
           m == [dc |-> x.dc, media |-> x.media]
<1>1. x \in Entries /\ Vouched(x)
    BY DEF HInv, TypeOK, Honest, Insert
<1>2. x.ip \in Ips /\ m \in Mappings /\ m.dc = x.dc
    BY <1>1 DEF Entries, Mappings
<1>3. /\ lesson' = [lesson EXCEPT ![l] = None]
      /\ UNCHANGED <<file, manual, newline, observed, overrides>>
    BY DEF Insert
<1>4. CASE Missing(x)
    <2>1. PICK w \in Writers :
            /\ learned' = [learned EXCEPT ![x.ip] = m]
            /\ append' = [append EXCEPT ![w] = x]
            /\ lines' = [lines EXCEPT ![x.ip] = @ + 1]
        BY <1>4 DEF Insert
    <2> HIDE DEF m, x
    <2>2. TypeOK'
        BY <1>1, <1>2, <1>3, <2>1 DEF HInv, TypeOK, Maps
    <2>3. Honest'
        BY <1>1, <1>3, <2>1 DEF HInv, TypeOK, Honest, Vouched
    <2>4. NoForeignDc'
        BY <1>1, <1>2, <1>3, <2>1 DEF HInv, TypeOK, Maps, NoForeignDc, Vouched
    <2> QED BY <2>2, <2>3, <2>4 DEF HInv
<1>5. CASE ~Missing(x)
    <2>1. UNCHANGED <<learned, append, lines>>
        BY <1>5 DEF Insert
    <2> HIDE DEF m, x
    <2>2. TypeOK'
        BY <1>3, <2>1 DEF HInv, TypeOK
    <2>3. Honest' /\ NoForeignDc'
        BY <1>3, <2>1 DEF HInv, TypeOK, Honest, NoForeignDc, Vouched
    <2> QED BY <2>2, <2>3 DEF HInv
<1> QED BY <1>4, <1>5

\* A write leaves the earlier ones as they are.
LEMMA WriteIsHonest ==
    ASSUME HInv, NEW z \in Entries \cup {Newline}, file' = Append(file, z),
           z # Newline => Vouched(z), UNCHANGED observed
    PROVE  /\ file' \in Seq(Entries \cup {Newline})
           /\ \A i \in 1 .. Len(file') : file'[i] # Newline => Vouched(file[i])'
<1>1. file \in Seq(Entries \cup {Newline}) /\ Len(file) \in Nat
    BY LenProperties DEF HInv, TypeOK
<1>2. /\ file' \in Seq(Entries \cup {Newline}) /\ Len(file') = Len(file) + 1
      /\ \A i \in 1 .. Len(file) : file'[i] = file[i]
      /\ file'[Len(file) + 1] = z
    BY <1>1, AppendProperties
<1>3. \A i \in 1 .. Len(file') : i \in 1 .. Len(file) \/ i = Len(file) + 1
    BY <1>1, <1>2
<1> QED BY <1>2, <1>3 DEF HInv, Honest, Vouched

\* Every step keeps the invariant.
LEMMA HInvStep == HInv /\ [Next]_vars => HInv'
<1> SUFFICES ASSUME HInv, [Next]_vars PROVE HInv'
    OBVIOUS
<1>1. TypeOK /\ Honest /\ NoForeignDc
    BY DEF HInv
<1>2. ASSUME NEW l \in Learners, NEW x \in Entries, Check(l, x) PROVE HInv'
    <2>1. x.ip \in Ips /\ x.dc \in DcIds
        BY DEF Entries
    <2>2. /\ lesson' = [lesson EXCEPT ![l] = x]
          /\ observed' = observed \cup {<<x.ip, x.dc>>}
          /\ UNCHANGED <<learned, file, manual, append, newline, overrides, lines>>
        BY <1>2 DEF Check
    <2>3. TypeOK'
        BY <1>1, <2>1, <2>2 DEF TypeOK
    <2>4. Honest' /\ NoForeignDc'
        BY <1>1, <2>2 DEF TypeOK, Honest, NoForeignDc, Vouched
    <2> QED BY <2>3, <2>4 DEF HInv
<1>3. ASSUME NEW l \in Learners, Insert(l) PROVE HInv'
    BY <1>3, InsertIsHonest
<1>4. ASSUME NEW w \in Writers, WriteEntry(w) PROVE HInv'
    <2>1. /\ append[w] \in Entries /\ Vouched(append[w]) /\ append[w] # Newline
          /\ file' = Append(file, append[w])
          /\ append' = [append EXCEPT ![w] = None]
          /\ newline' = newline \cup {w}
          /\ UNCHANGED <<learned, manual, lesson, observed, overrides, lines>>
        BY <1>1, <1>4, LearnAssumption DEF WriteEntry, TypeOK, Honest
    <2>2. /\ file' \in Seq(Entries \cup {Newline})
          /\ \A i \in 1 .. Len(file') : file'[i] # Newline => Vouched(file[i])'
        BY <2>1, WriteIsHonest
    <2>3. TypeOK'
        BY <1>1, <2>1, <2>2 DEF TypeOK
    <2>4. Honest' /\ NoForeignDc'
        BY <1>1, <2>1, <2>2 DEF TypeOK, Honest, NoForeignDc, Vouched
    <2> QED BY <2>3, <2>4 DEF HInv
<1>5. ASSUME NEW w \in Writers, WriteNewline(w) PROVE HInv'
    <2>1. /\ file' = Append(file, Newline) /\ newline' = newline \ {w}
          /\ UNCHANGED <<learned, manual, lesson, append, observed, overrides, lines>>
        BY <1>5 DEF WriteNewline
    <2>2. /\ file' \in Seq(Entries \cup {Newline})
          /\ \A i \in 1 .. Len(file') : file'[i] # Newline => Vouched(file[i])'
        BY <2>1, WriteIsHonest
    <2>3. TypeOK'
        BY <1>1, <2>1, <2>2 DEF TypeOK
    <2>4. Honest' /\ NoForeignDc'
        BY <1>1, <2>1, <2>2 DEF TypeOK, Honest, NoForeignDc, Vouched
    <2> QED BY <2>3, <2>4 DEF HInv
<1>6. ASSUME NEW w \in Writers, WriteFails(w) PROVE HInv'
    BY <1>1, <1>6 DEF WriteFails, HInv, TypeOK, Honest, NoForeignDc, Vouched
<1>7. ASSUME learned' = Loaded, overrides' = manual, lines' = [ip \in Ips |-> 0],
             UNCHANGED <<file, manual, observed>>,
             \/ UNCHANGED <<lesson, append, newline>>
             \/ /\ lesson' = [l \in Learners |-> None]
                /\ append' = [w \in Writers |-> None] /\ newline' = {}
      PROVE HInv'
    <2>1. Loaded \in Maps
          /\ \A ip \in Ips : Loaded[ip] # None => <<ip, Loaded[ip].dc>> \in observed
        BY LoadIsHonest
    <2>2. TypeOK'
        BY <1>1, <1>7, <2>1 DEF TypeOK
    <2>3. Honest'
        BY <1>1, <1>7 DEF Honest, Vouched
    <2>4. NoForeignDc'
        BY <1>7, <2>1 DEF NoForeignDc
    <2> QED BY <2>2, <2>3, <2>4 DEF HInv
<1>8. CASE Load
    BY <1>7, <1>8 DEF Load
<1>9. CASE Restart
    BY <1>7, <1>9 DEF Restart
<1>10. ASSUME NEW ip \in Editable, NEW m \in Mappings \cup {None}, EditManual(ip, m)
       PROVE HInv'
    <2>1. ip \in Ips /\ (m # None => m.dc \in DcIds)
        BY LearnAssumption DEF Mappings
    <2>2. /\ manual' = [manual EXCEPT ![ip] = m]
          /\ observed' = IF m = None THEN observed ELSE observed \cup {<<ip, m.dc>>}
          /\ UNCHANGED <<learned, file, lesson, append, newline, overrides, lines>>
        BY <1>10 DEF EditManual
    <2>3. TypeOK'
        BY <1>1, <2>1, <2>2 DEF TypeOK, Maps
    <2>4. Honest' /\ NoForeignDc'
        BY <1>1, <2>1, <2>2 DEF TypeOK, Maps, Honest, NoForeignDc, Vouched
    <2> QED BY <2>3, <2>4 DEF HInv
<1>11. CASE UNCHANGED vars
    BY <1>1, <1>11 DEF vars, HInv, TypeOK, Honest, NoForeignDc, Vouched
<1> QED BY <1>2, <1>3, <1>4, <1>5, <1>6, <1>8, <1>9, <1>10, <1>11
        DEF Next, Session, Persist, Operator

\* The invariant of honesty holds throughout.
THEOREM HonestInvariant == Spec => []HInv
<1> QED BY HInvInit, HInvStep, PTL DEF Spec

\* Every variable of the learner has its type, the rebuilt map included.
THEOREM LearnTypes == Spec => []TypeOK
<1>1. HInv => TypeOK
    BY DEF HInv
<1> QED BY <1>1, HonestInvariant, PTL

(***************************************************************************)
(* No address is ever given a data centre nobody reported for it           *)
(* (parse_line(), load()), however the appending threads interleave their  *)
(* writes and wherever the daemon dies: for files of any length.           *)
(***************************************************************************)
THEOREM NobodyIsMisled == Spec => []NoForeignDc
<1>1. HInv => NoForeignDc
    BY DEF HInv
<1> QED BY <1>1, HonestInvariant, PTL
-----------------------------------------------------------------------------
(***************************************************************************)
(* What is appended to the file reaches no line that has its newline: such *)
(* a line begins where it began and reads as it read.                      *)
(***************************************************************************)
LEMMA EndedLinesStay ==
    ASSUME NEW f \in Seq(Entries \cup {Newline}), NEW z \in Entries \cup {Newline},
           NEW e \in LineEnds(f), e <= Len(f)
    PROVE  e \in LineEnds(Append(f, z)) /\ LineAt(Append(f, z), e) = LineAt(f, e)
<1> DEFINE n == Len(f)
           g == Append(f, z)
           before == {b \in LineEnds(f) : b < e}
           st == LineStart(f, e)
           last == e - 1
<1>1. /\ n \in Nat /\ Len(g) = n + 1
      /\ \A i \in 1 .. n : g[i] = f[i] /\ f[i] \in Entries \cup {Newline}
    BY ElementOfSeq, LenProperties, AppendProperties
<1>2. /\ LineEnds(f) = {i \in 1 .. n : f[i] = Newline} \cup {n + 1}
      /\ LineEnds(g) = {i \in 1 .. n + 1 : g[i] = Newline} \cup {n + 2}
    BY <1>1 DEF LineEnds
<1>3. LineAt(f, e) = SubSeq(f, st, last)
    BY DEF LineAt
<1>4. st = IF before = {} THEN 1 ELSE Max(before) + 1
    BY DEF LineStart
<1>5. LineStart(g, e) = IF {b \in LineEnds(g) : b < e} = {} THEN 1
                        ELSE Max({b \in LineEnds(g) : b < e}) + 1
    BY DEF LineStart
<1>6. LineAt(g, e) = SubSeq(g, LineStart(g, e), last)
    BY DEF LineAt
<1>7. e <= n
    OBVIOUS
<1> HIDE DEF n, g, st
<1>8. e \in 1 .. n /\ f[e] = Newline
    BY <1>1, <1>2, <1>7
<1>9. e \in LineEnds(g)
    BY <1>1, <1>2, <1>8
<1>10. {b \in LineEnds(g) : b < e} = before
    <2>1. \A b : b \in LineEnds(g) /\ b < e <=> b \in 1 .. n /\ f[b] = Newline /\ b < e
        BY <1>1, <1>2, <1>8
    <2>2. \A b : b \in LineEnds(f) /\ b < e <=> b \in 1 .. n /\ f[b] = Newline /\ b < e
        BY <1>1, <1>2, <1>8
    <2> QED BY <2>1, <2>2
<1>11. LineStart(g, e) = st
    BY <1>4, <1>5, <1>10
<1>12. before \subseteq 1 .. n
    BY <1>1, <1>2, <1>8
<1>13. before # {} => Max(before) \in before
    <2> HIDE DEF before
    <2> QED BY <1>1, <1>12, HasMax
<1>14. st \in 1 .. n
    <2>1. \A b \in before : b + 1 \in 1 .. n
        BY <1>1, <1>8, <1>12
    <2>2. 1 \in 1 .. n
        BY <1>1, <1>8
    <2> HIDE DEF before
    <2> QED BY <1>4, <1>13, <2>1, <2>2
<1>15. /\ last \in Int /\ st \in Int
       /\ \A i \in st .. last : i \in 1 .. n
    BY <1>1, <1>8, <1>14
<1> HIDE DEF last, before
<1>a. \A i \in st .. last : /\ f[i] \in Entries \cup {Newline}
                            /\ g[i] \in Entries \cup {Newline}
    BY <1>1, <1>15
<1>16. /\ SubSeq(f, st, last) \in Seq(Entries \cup {Newline})
       /\ Len(SubSeq(f, st, last)) = IF st <= last THEN last - st + 1 ELSE 0
       /\ \A i \in 1 .. last - st + 1 : SubSeq(f, st, last)[i] = f[st + i - 1]
    BY <1>15, <1>a, SubSeqProperties
<1>17. /\ SubSeq(g, st, last) \in Seq(Entries \cup {Newline})
       /\ Len(SubSeq(g, st, last)) = IF st <= last THEN last - st + 1 ELSE 0
       /\ \A i \in 1 .. last - st + 1 : SubSeq(g, st, last)[i] = g[st + i - 1]
    BY <1>15, <1>a, SubSeqProperties
<1>18. \A i \in 1 .. last - st + 1 : st + i - 1 \in st .. last
    BY <1>14, <1>15
<1>19. \A i \in 1 .. last - st + 1 : SubSeq(f, st, last)[i] = SubSeq(g, st, last)[i]
    BY <1>1, <1>15, <1>16, <1>17, <1>18
<1>20. SubSeq(f, st, last) = SubSeq(g, st, last)
    <2> DEFINE s == SubSeq(f, st, last)
               t == SubSeq(g, st, last)
    <2>1. s \in Seq(Entries \cup {Newline}) /\ t \in Seq(Entries \cup {Newline})
        BY <1>16, <1>17
    <2>2. Len(s) = Len(t)
        BY <1>16, <1>17
    <2>3. \A i \in 1 .. Len(s) : i \in 1 .. last - st + 1
        BY <1>15, <1>16
    <2>4. \A i \in 1 .. Len(s) : s[i] = t[i]
        BY <1>19, <2>3
    <2> HIDE DEF s, t
    <2>5. s = t
        BY <2>1, <2>2, <2>4, SeqEqual
    <2> QED BY <2>5 DEF s, t
<1> QED BY <1>3, <1>6, <1>9, <1>11, <1>20 DEF g

\* An address on record is mapped by the next load, and stays on record.
LEMMA OnRecordIsLoaded ==
    ASSUME HInv, NEW ip \in Ips, OnRecord(ip)
    PROVE  Loaded[ip] # None
<1>1. FileMap(file)[ip] # None
    <2>1. file \in Seq(Entries \cup {Newline}) /\ ParsedAt(file, ip) # {}
        BY DEF HInv, TypeOK, OnRecord
    <2> QED BY <2>1, FileMapIs, LearnAssumption
<1> QED BY <1>1 DEF Loaded, Overlay

LEMMA RecordsStay ==
    ASSUME HInv, NEW ip \in Ips, OnRecord(ip), [Next]_vars
    PROVE  OnRecord(ip)'
<1>1. CASE file' = file
    BY <1>1 DEF OnRecord
<1>2. ASSUME NEW z \in Entries \cup {Newline}, file' = Append(file, z)
      PROVE  OnRecord(ip)'
    <2>1. file \in Seq(Entries \cup {Newline})
        BY DEF HInv, TypeOK
    <2>2. PICK e \in LineEnds(file) :
            e <= Len(file) /\ \E x \in ParseLine(LineAt(file, e)) : x.ip = ip
        BY DEF OnRecord, ParsedAt
    <2>3. e \in LineEnds(file') /\ LineAt(file', e) = LineAt(file, e)
        BY <1>2, <2>1, <2>2, EndedLinesStay
    <2>4. e \in ParsedAt(file', ip)
        BY <2>2, <2>3 DEF ParsedAt
    <2>5. e <= Len(file')
        <3>1. Len(file') = Len(file) + 1 /\ Len(file) \in Nat /\ e \in Int
            BY <1>2, <2>1, AppendProperties, LenProperties DEF LineEnds
        <3> QED BY <2>2, <3>1
    <2> QED BY <2>4, <2>5 DEF OnRecord
<1>3. file' = file \/ \E z \in Entries \cup {Newline} : file' = Append(file, z)
    BY DEF HInv, TypeOK, Next, Session, Persist, Operator, Check, Insert, WriteEntry,
       WriteNewline, WriteFails, Load, EditManual, Restart, vars
<1> QED BY <1>1, <1>2, <1>3

(***************************************************************************)
(* A lesson whose line persist() has ended outlives every reload, restart, *)
(* interleaved or unfinished write and edit of the operator's file: for    *)
(* files of any length and any number of writers.                          *)
(***************************************************************************)
THEOREM LessonsAreKept == Spec => LessonsLast
<1> SUFFICES ASSUME NEW ip \in Ips
             PROVE  Spec => [](OnRecord(ip) => [](Loaded[ip] # None))
    BY DEF LessonsLast
<1>1. HInv /\ OnRecord(ip) => Loaded[ip] # None
    BY OnRecordIsLoaded
<1>2. HInv /\ OnRecord(ip) /\ [Next]_vars => OnRecord(ip)'
    BY RecordsStay
<1> QED BY <1>1, <1>2, HonestInvariant, PTL DEF Spec
=============================================================================
