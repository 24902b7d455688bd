------------------------------- MODULE DcLearn ------------------------------
(***************************************************************************)
(* The self-learning address -> (dc, media) map of dc_learn.rs: sessions   *)
(* that embed a DC teach it, the lesson is appended to a file by a         *)
(* blocking thread, and a start-up or a SIGHUP rebuilds the map from that  *)
(* file and the operator's one.                                            *)
(*                                                                         *)
(* The learned file is the sequence of the writes it received: a line is   *)
(* appended by writeln! in two writes, the entry and then the newline, and *)
(* threads that append at the same time may interleave them.  Addresses    *)
(* the hardcoded tables resolve never get this far and are left out, as    *)
(* are comments and malformed entries of the operator's file.              *)
(*                                                                         *)
(* ParseLineUnchecked, ParseLineByWord, OverlayLearnedOnTop and            *)
(* MissingUnchecked are faulty variants of the operators they precede: the *)
(* properties below must tell them from the code.                          *)
(***************************************************************************)
EXTENDS Naturals, Sequences, SequencesExt

CONSTANTS
    Ips,          \* addresses the hardcoded tables do not resolve
    DcIds,        \* valid data centres
    Learners,     \* bound: sessions inside learn() at a time
    Writers,      \* bound: persists in flight on the blocking pool
    MaxWrites,    \* bound: length of the learned file
    Editable,     \* bound: addresses the operator's file may name
    Newline,      \* the second write of a line
    None

Mappings == [dc : DcIds, media : BOOLEAN]
Entries == [ip : Ips, dc : DcIds, media : BOOLEAN]

ASSUME LearnAssumption ==
    /\ Editable \subseteq Ips
    /\ None \notin Mappings /\ None \notin Entries /\ Newline \notin Entries

VARIABLES
    learned,      \* LEARNED: the map in memory
    file,         \* the learned file, write by write
    manual,       \* the operator's file
    lesson,       \* lesson[l]: entry learner l found missing, not yet inserted
    append,       \* append[w]: entry writer w still has to append
    newline,      \* writers that still have to end their line
    observed,     \* history: the <<ip, dc>> a session or the operator reported
    overrides,    \* history: the operator's entries at the last load
    lines         \* history: lines begun for each address since the last load

vars == <<learned, file, manual, lesson, append, newline, observed, overrides,
          lines>>

Maps == [Ips -> Mappings \cup {None}]
Nothing == [ip \in Ips |-> None]

TypeOK ==
    /\ learned \in Maps /\ manual \in Maps
    /\ overrides \in Maps
    /\ file \in Seq(Entries \cup {Newline})
    /\ lesson \in [Learners -> Entries \cup {None}]
    /\ append \in [Writers -> Entries \cup {None}]
    /\ newline \subseteq Writers
    /\ observed \subseteq Ips \X DcIds
    /\ lines \in [Ips -> Nat]

-----------------------------------------------------------------------------
(***************************************************************************)
(* parse_line, on a line of one entry or of several run together.  The     *)
(* text "1.2.3.4 2" followed by "5.6.7.8 4" has a number that does not     *)
(* parse; "1.2.3.4 2 media" followed by anything keeps its address and     *)
(* number, and its last word is no longer "media".                         *)
(***************************************************************************)
ParseLineUnchecked(line) ==
    IF line = <<>> THEN {} ELSE {[line[1] EXCEPT !.dc = IF Len(line) = 1 THEN @ ELSE None]}
ParseLineByWord(line) ==
    IF line = <<>> THEN {} ELSE {[line[1] EXCEPT !.dc = line[Len(line)].dc]}
ParseLine(line) ==
    CASE Len(line) = 1 -> {line[1]}
      [] Len(line) > 1 /\ line[1].media -> {[line[1] EXCEPT !.media = FALSE]}
      [] OTHER -> {}

\* The positions at which the i-th line of f starts and ends.
LineEnds(f) == {i \in 1 .. Len(f) : f[i] = Newline} \cup {Len(f) + 1}
LineStart(f, e) ==
    LET before == {b \in LineEnds(f) : b < e}
    IN IF before = {} THEN 1 ELSE Max(before) + 1

\* The lines of f by the position where they end.
LineAt(f, e) == SubSeq(f, LineStart(f, e), e - 1)

\* A later line for the same address replaces an earlier one.
ParsedAt(f, ip) ==
    {e \in LineEnds(f) : \E x \in ParseLine(LineAt(f, e)) : x.ip = ip}

FileMap(f) ==
    [ip \in Ips |->
        IF ParsedAt(f, ip) = {} THEN None
        ELSE LET x == CHOOSE y \in ParseLine(LineAt(f, Max(ParsedAt(f, ip)))) : TRUE
             IN [dc |-> x.dc, media |-> x.media]]

\* load(): the learned file, then the operator's file on top.
OverlayLearnedOnTop(low, high) ==
    [ip \in Ips |-> IF low[ip] # None THEN low[ip] ELSE high[ip]]
Overlay(low, high) ==
    [ip \in Ips |-> IF high[ip] # None THEN high[ip] ELSE low[ip]]

Loaded == Overlay(FileMap(file), manual)

-----------------------------------------------------------------------------
Init ==
    /\ file = <<>>
    /\ manual \in Maps
    /\ \A ip \in Ips \ Editable : manual[ip] = None
    /\ learned = manual /\ overrides = manual
    /\ lesson = [l \in Learners |-> None]
    /\ append = [w \in Writers |-> None]
    /\ newline = {}
    /\ observed = {p \in Ips \X DcIds :
                     manual[p[1]] # None /\ manual[p[1]].dc = p[2]}
    /\ lines = [ip \in Ips |-> 0]

(***************************************************************************)
(* learn(): the check under the read lock, on a session's handshake.       *)
(***************************************************************************)
Check(l, x) ==
    /\ lesson[l] = None
    /\ Len(file) < MaxWrites
    /\ learned[x.ip] = None
    /\ lesson' = [lesson EXCEPT ![l] = x]
    /\ observed' = observed \cup {<<x.ip, x.dc>>}
    /\ UNCHANGED <<learned, file, manual, append, newline, overrides,
                   lines>>

Idle(w) == append[w] = None /\ w \notin newline

(***************************************************************************)
(* learn(): the second check and the insertion under the write lock; a new *)
(* entry is handed to a thread of the blocking pool.                       *)
(***************************************************************************)
MissingUnchecked(x) == TRUE
Missing(x) == learned[x.ip] = None

Insert(l) ==
    /\ lesson[l] # None
    /\ lesson' = [lesson EXCEPT ![l] = None]
    /\ LET x == lesson[l] IN
       IF Missing(x)
       THEN \E w \in Writers :
               /\ Idle(w)
               /\ learned' = [learned EXCEPT
                                 ![x.ip] = [dc |-> x.dc, media |-> x.media]]
               /\ append' = [append EXCEPT ![w] = x]
               /\ lines' = [lines EXCEPT ![x.ip] = @ + 1]
       ELSE UNCHANGED <<learned, append, lines>>
    /\ UNCHANGED <<file, manual, newline, observed, overrides>>

(***************************************************************************)
(* persist: open in append mode, then the two writes of writeln!.  Opening *)
(* or writing may fail, which is only logged.                              *)
(***************************************************************************)
WriteEntry(w) ==
    /\ append[w] # None
    /\ Len(file) < MaxWrites
    /\ file' = Append(file, append[w])
    /\ append' = [append EXCEPT ![w] = None]
    /\ newline' = newline \cup {w}
    /\ UNCHANGED <<learned, manual, lesson, observed, overrides, lines>>

WriteNewline(w) ==
    /\ w \in newline
    /\ Len(file) < MaxWrites
    /\ file' = Append(file, Newline)
    /\ newline' = newline \ {w}
    /\ UNCHANGED <<learned, manual, lesson, append, observed, overrides,
                   lines>>

WriteFails(w) ==
    /\ append[w] # None
    /\ append' = [append EXCEPT ![w] = None]
    /\ UNCHANGED <<learned, file, manual, lesson, newline, observed, overrides, lines>>

\* SIGHUP: reload_from_file rebuilds the map under the write lock.
Load ==
    /\ learned' = Loaded
    /\ overrides' = manual
    /\ lines' = [ip \in Ips |-> 0]
    /\ UNCHANGED <<file, manual, lesson, append, newline, observed>>

\* The operator writes, changes or drops an entry of the admin file.
EditManual(ip, m) ==
    /\ manual' = [manual EXCEPT ![ip] = m]
    /\ observed' = IF m = None THEN observed
                   ELSE observed \cup {<<ip, m.dc>>}
    /\ UNCHANGED <<learned, file, lesson, append, newline, overrides,
                   lines>>

(***************************************************************************)
(* The daemon dies and starts again: what was not written is lost, an      *)
(* unended line stays unended, main() loads both files.                    *)
(***************************************************************************)
Restart ==
    /\ learned' = Loaded
    /\ overrides' = manual
    /\ lesson' = [l \in Learners |-> None]
    /\ append' = [w \in Writers |-> None]
    /\ newline' = {}
    /\ lines' = [ip \in Ips |-> 0]
    /\ UNCHANGED <<file, manual, observed>>

Session(l) == (\E x \in Entries : Check(l, x)) \/ Insert(l)

Persist(w) == WriteEntry(w) \/ WriteNewline(w)

Operator == \E ip \in Editable, m \in Mappings \cup {None} : EditManual(ip, m)

Next ==
    \/ \E l \in Learners : Session(l)
    \/ \E w \in Writers : Persist(w) \/ WriteFails(w)
    \/ Load \/ Operator \/ Restart

Spec == Init /\ [][Next]_vars

-----------------------------------------------------------------------------
(***************************************************************************)
(* "The admin file wins on conflict": what the operator wrote stands from  *)
(* the load that read it, whatever sessions teach and whatever the learned *)
(* file says.                                                              *)
(***************************************************************************)
OperatorWins ==
    \A ip \in Ips : overrides[ip] # None => learned[ip] = overrides[ip]

(***************************************************************************)
(* However the writes interleave and wherever the daemon dies, an address  *)
(* is never given a data centre nobody reported for it: a run-together     *)
(* line can lose entries or a media flag, not mix two entries.             *)
(***************************************************************************)
NoForeignDc ==
    \A ip \in Ips : learned[ip] # None => <<ip, learned[ip].dc>> \in observed

(***************************************************************************)
(* "each a flash write": between two loads one address costs at most one   *)
(* line, however many sessions learn it at the same time.                  *)
(***************************************************************************)
OneLinePerLoad == \A ip \in Ips : lines[ip] <= 1

(***************************************************************************)
(* A lesson that reached the file stays learned: once the line of an       *)
(* address has its newline, every later load maps the address, whatever    *)
(* other threads run together behind that line, wherever the daemon dies   *)
(* and whatever entries the operator drops.                                *)
(***************************************************************************)
OnRecord(ip) == \E e \in ParsedAt(file, ip) : e <= Len(file)

LessonsLast == \A ip \in Ips : [](OnRecord(ip) => [](Loaded[ip] # None))
=============================================================================
