----------------------------- MODULE Relay_proof ----------------------------
(***************************************************************************)
(* Proofs about Relay, for channels, batches and times of any size: no     *)
(* piece is lost, doubled or overtaken between the client and the          *)
(* WebSocket while the tasks of bridge_ws run, and what a drain that ends  *)
(* in time has delivered.                                                  *)
(***************************************************************************)
EXTENDS Relay, SequenceTheorems, TLAPS

-----------------------------------------------------------------------------
(* Pieces in a row *)

\* s holds the pieces from number n + 1 on, in order.
Follows(s, n) == \A i \in 1 .. Len(s) : s[i] = n + i

\* Nothing follows on anything.
LEMMA NothingFollows == \A n \in Nat : Follows(<<>>, n)
BY DEF Follows

\* A piece is put behind the others.
LEMMA FollowsAppend ==
    ASSUME NEW s \in Seq(Nat), NEW n \in Nat, Follows(s, n)
    PROVE  /\ Follows(Append(s, n + Len(s) + 1), n)
           /\ Len(Append(s, n + Len(s) + 1)) = Len(s) + 1
<1> DEFINE e == n + Len(s) + 1
           t == Append(s, e)
<1>1. Len(s) \in Nat /\ e \in Nat
    BY LenProperties
<1>2. /\ Len(t) = Len(s) + 1
      /\ \A i \in 1 .. Len(s) : t[i] = s[i]
      /\ t[Len(s) + 1] = e
    BY <1>1, AppendProperties
<1> HIDE DEF t
<1>3. ASSUME NEW i \in 1 .. Len(t) PROVE t[i] = n + i
    <2>1. CASE i \in 1 .. Len(s)
        BY <1>2, <2>1 DEF Follows
    <2>2. CASE i = Len(s) + 1
        BY <1>1, <1>2, <2>2
    <2> QED BY <1>1, <1>2, <2>1, <2>2
<1>4. Follows(t, n)
    BY <1>3 DEF Follows
<1> QED BY <1>2, <1>4 DEF t

\* The first one is taken off.
LEMMA FollowsTail ==
    ASSUME NEW s \in Seq(Nat), NEW n \in Nat, Follows(s, n), s # <<>>
    PROVE  /\ Head(s) = n + 1
           /\ Follows(Tail(s), n + 1)
           /\ Len(Tail(s)) = Len(s) - 1 /\ Len(s) >= 1
<1>1. Len(s) \in Nat \ {0}
    BY EmptySeq
<1>2. /\ Len(Tail(s)) = Len(s) - 1
      /\ \A i \in 1 .. Len(Tail(s)) : Tail(s)[i] = s[i + 1]
    BY HeadTailProperties
<1>3. Head(s) = n + 1
    BY <1>1 DEF Follows
<1>4. Follows(Tail(s), n + 1)
    BY <1>1, <1>2 DEF Follows
<1> QED BY <1>1, <1>2, <1>3, <1>4

\* It is cut in two.
LEMMA FollowsCut ==
    ASSUME NEW s \in Seq(Nat), NEW n \in Nat, Follows(s, n), NEW k \in 0 .. Len(s)
    PROVE  /\ Follows(SubSeq(s, 1, k), n)
           /\ Follows(SubSeq(s, k + 1, Len(s)), n + k)
           /\ Len(SubSeq(s, 1, k)) = k
           /\ Len(SubSeq(s, k + 1, Len(s))) = Len(s) - k
<1>1. Len(s) \in Nat /\ k \in Nat /\ \A i \in 1 .. Len(s) : s[i] \in Nat
    BY LenProperties, ElementOfSeq
<1>2. /\ Len(SubSeq(s, 1, k)) = k
      /\ \A i \in 1 .. k : SubSeq(s, 1, k)[i] = s[i]
    BY <1>1, SubSeqProperties
<1>3. /\ Len(SubSeq(s, k + 1, Len(s))) = Len(s) - k
      /\ \A i \in 1 .. Len(s) - k : SubSeq(s, k + 1, Len(s))[i] = s[k + i]
    BY <1>1, SubSeqProperties
<1>4. Follows(SubSeq(s, 1, k), n)
    BY <1>1, <1>2 DEF Follows
<1>5. Follows(SubSeq(s, k + 1, Len(s)), n + k)
    BY <1>1, <1>3 DEF Follows
<1> QED BY <1>2, <1>3, <1>4, <1>5

\* Two rows, the one behind the other, are a row.
LEMMA FollowsConcat ==
    ASSUME NEW s \in Seq(Nat), NEW t \in Seq(Nat), NEW n \in Nat,
           Follows(s, n), Follows(t, n + Len(s))
    PROVE  /\ Follows(s \o t, n)
           /\ Len(s \o t) = Len(s) + Len(t)
<1>1. Len(s) \in Nat /\ Len(t) \in Nat
    BY LenProperties
<1>2. /\ Len(s \o t) = Len(s) + Len(t)
      /\ \A i \in 1 .. Len(s) + Len(t) :
            (s \o t)[i] = IF i <= Len(s) THEN s[i] ELSE t[i - Len(s)]
    BY ConcatProperties
<1> QED BY <1>1, <1>2 DEF Follows

\* The Min of two numbers is one of them and above neither.
LEMMA MinOfTwo ==
    ASSUME NEW a \in Nat, NEW b \in Nat
    PROVE  /\ Min({a, b}) \in {a, b}
           /\ Min({a, b}) <= a /\ Min({a, b}) <= b
<1>1. \E x \in {a, b} : \A y \in {a, b} : x <= y
    OBVIOUS
<1> QED BY <1>1 DEF Min


-----------------------------------------------------------------------------
(***************************************************************************)
(* The inductive invariant.  Upwards, what the WebSocket accepted, what    *)
(* ws_send_driver writes, what is on the channel, what up has to put on it *)
(* and what the splitter holds are all that was read from the client, in   *)
(* a row, as long as ws_send_driver runs; later only the first of them is  *)
(* left.                                                                   *)
(***************************************************************************)
UpInRow ==
    /\ Follows(toServer, 0) /\ Len(toServer) <= taken["client"]
    /\ up = "read" => parts = <<>>
    /\ sender = "run" =>
          LET a == Len(toServer)
              b == a + Len(batch)
              c == b + Len(sendq)
              d == c + Len(parts)
          IN /\ Follows(batch, a) /\ Follows(sendq, b)
             /\ Follows(parts, c) /\ Follows(held, d)
             /\ d + Len(held) = taken["client"]
    /\ sender = "ended" => batch = <<>> /\ sendq = <<>>

(***************************************************************************)
(* Downwards the same as long as down runs.  It ends because its channel   *)
(* is empty and without a sender, or because the client's socket failed,   *)
(* or with the session.                                                    *)
(***************************************************************************)
DownInRow ==
    /\ Follows(toClient, 0) /\ Len(toClient) <= taken["server"]
    /\ receiver # "read" => message = <<>>
    /\ down = "run" =>
          LET a == Len(toClient)
              b == a + Len(writing)
              c == b + Len(recvq)
          IN /\ Follows(writing, a) /\ Follows(recvq, b) /\ Follows(message, c)
             /\ c + Len(message) = taken["server"]
    /\ down = "ended" =>
          /\ writing = <<>> /\ recvq = <<>>
          /\ phase # "over" /\ "client" \notin broken =>
                receiver = "ended" /\ Len(toClient) = taken["server"]

(***************************************************************************)
(* What the body of bridge_ws waits for, and that nothing runs after it.   *)
(***************************************************************************)
Stages ==
    /\ phase = "drainUp" => down = "ended"
    /\ phase # "over" => outcome = "none"
    /\ phase = "over" =>
          /\ up = "ended" /\ sender = "ended" /\ receiver = "ended" /\ down = "ended"
          /\ parts = <<>> /\ held = <<>>

RInv == TypeOK /\ UpInRow /\ DownInRow /\ Stages /\ DownTailArrives

\* The numbers of pieces are numbers.
LEMMA PiecesAreNumbers == Seq(Piece) \subseteq Seq(Nat)
BY RelayAssumption, SeqMonotonic DEF Piece

-----------------------------------------------------------------------------
(* The task up *)

LEMMA ReadClientKeeps == ASSUME RInv, ReadClient PROVE RInv'
<1> DEFINE b == Append(held, taken["client"] + 1)
           before == Len(toServer) + Len(batch) + Len(sendq)
<1>1. UNCHANGED <<guarded, phase, outcome, waited, sendq, sender, batch, pongs, receiver,
                  message, recvq, down, writing, toServer, toClient, broken>>
    BY DEF ReadClient, main, sending, receiving, downward
<1>2. /\ up = "read" /\ parts = <<>> /\ quiet' = 0
      /\ taken["client"] + 1 \in Piece
      /\ taken' = [taken EXCEPT !["client"] = @ + 1]
    <2>1. /\ up = "read" /\ taken["client"] < Pieces /\ quiet' = 0
          /\ taken' = [taken EXCEPT !["client"] = @ + 1]
        BY DEF ReadClient
    <2>2. taken["client"] \in 0 .. Pieces
        BY DEF RInv, TypeOK
    <2>3. parts = <<>>
        BY <2>1 DEF RInv, UpInRow
    <2> QED BY <2>1, <2>2, <2>3, RelayAssumption DEF Piece
<1>3. /\ taken'["client"] = taken["client"] + 1 /\ taken'["server"] = taken["server"]
      /\ taken' \in [{"client", "server"} -> 0 .. Pieces]
    BY <1>2 DEF RInv, TypeOK, Piece
<1>4. /\ held \in Seq(Piece) /\ b \in Seq(Piece) /\ b \in Seq(Nat)
      /\ Len(b) \in Nat /\ \A i \in 1 .. Len(b) : b[i] \in Piece
    BY <1>2, AppendProperties, LenProperties, ElementOfSeq, PiecesAreNumbers
    DEF RInv, TypeOK
<1>5. /\ Len(toServer) \in Nat /\ Len(batch) \in Nat /\ Len(sendq) \in Nat
      /\ Len(held) \in Nat /\ taken["client"] \in Nat /\ before \in Nat
    BY LenProperties DEF RInv, TypeOK
<1>6. PICK n \in 0 .. Len(b) :
        /\ parts' = SubSeq(b, 1, n) /\ held' = SubSeq(b, n + 1, Len(b))
        /\ up' = IF n = 0 THEN "read" ELSE "send"
    BY DEF ReadClient, Released
<1>7. sender = "run" => Follows(b, before) /\ before + Len(b) = taken["client"] + 1
    <2> SUFFICES ASSUME sender = "run"
                 PROVE  Follows(b, before) /\ before + Len(b) = taken["client"] + 1
        OBVIOUS
    <2>1. Follows(held, before) /\ before + Len(held) = taken["client"]
        BY <1>2, <1>5, EmptySeq DEF RInv, UpInRow
    <2> QED BY <2>1, <1>4, <1>5, FollowsAppend, PiecesAreNumbers
<1>8. /\ parts' \in Seq(Piece) /\ held' \in Seq(Piece)
      /\ Len(parts') = n /\ Len(held') = Len(b) - n
    <2> HIDE DEF b
    <2>1. parts' \in Seq(Piece) /\ Len(parts') = n
        BY <1>4, <1>6, SubSeqProperties
    <2>2. held' \in Seq(Piece) /\ Len(held') = Len(b) - n
        BY <1>4, <1>6, SubSeqProperties
    <2> QED BY <2>1, <2>2
<1> HIDE DEF b, before
<1>9. sender = "run" => /\ Follows(parts', before) /\ Follows(held', before + n)
                        /\ before + n + Len(held') = taken'["client"]
    <2>1. sender = "run" => /\ Follows(SubSeq(b, 1, n), before)
                            /\ Follows(SubSeq(b, n + 1, Len(b)), before + n)
        BY <1>4, <1>5, <1>7, FollowsCut
    <2>2. sender = "run" => before + n + Len(held') = taken'["client"]
        BY <1>3, <1>4, <1>5, <1>7, <1>8
    <2> QED BY <2>1, <2>2, <1>6
<1>10. TypeOK'
    <2>1. up' \in {"read", "send", "flush", "ended"} /\ quiet' \in 0 .. Idle
        BY <1>2, <1>6, RelayAssumption
    <2> QED BY <1>1, <1>3, <1>8, <2>1 DEF RInv, TypeOK
<1>11. up' = "read" => parts' = <<>>
    BY <1>6, <1>8, EmptySeq
<1>12. UpInRow'
    <2>1. /\ Follows(toServer, 0) /\ Len(toServer) <= taken'["client"]
          /\ sender = "ended" => batch = <<>> /\ sendq = <<>>
        BY <1>3, <1>5 DEF RInv, UpInRow
    <2>2. sender = "run" =>
            /\ Follows(batch, Len(toServer))
            /\ Follows(sendq, Len(toServer) + Len(batch))
        BY DEF RInv, UpInRow
    <2>3. /\ Follows(toServer', 0) /\ Len(toServer') <= taken'["client"]
          /\ sender' = "ended" => batch' = <<>> /\ sendq' = <<>>
        BY <1>1, <2>1
    <2>4. sender' = "run" =>
            /\ Follows(batch', Len(toServer'))
            /\ Follows(sendq', Len(toServer') + Len(batch'))
        BY <1>1, <2>2
    <2>5. sender' = "run" =>
            LET c == Len(toServer') + Len(batch') + Len(sendq')
            IN  /\ Follows(parts', c) /\ Follows(held', c + Len(parts'))
                /\ c + Len(parts') + Len(held') = taken'["client"]
        BY <1>1, <1>8, <1>9 DEF before
    <2> QED BY <1>11, <2>3, <2>4, <2>5 DEF UpInRow
<1>13. DownInRow' /\ Stages' /\ DownTailArrives'
    BY <1>1, <1>2, <1>3 DEF RInv, DownInRow, Stages, DownTailArrives, Follows
<1> QED BY <1>10, <1>12, <1>13 DEF RInv

LEMMA ClientEndsKeeps == ASSUME RInv, ClientEnds PROVE RInv'
<1>1. UNCHANGED <<guarded, phase, outcome, quiet, waited, sendq, sender, batch, pongs,
                  receiver, message, recvq, down, writing, taken, toServer, toClient,
                  broken>>
    BY DEF ClientEnds, main, clock, sending, receiving, downward, record
<1>2. /\ up = "read" /\ parts = <<>> /\ parts' = held /\ held' = <<>>
      /\ up' \in {"ended", "flush"}
    BY DEF ClientEnds, RInv, UpInRow
<1>3. TypeOK'
    BY <1>1, <1>2, EmptySeq DEF RInv, TypeOK
<1>4. Len(held) \in Nat /\ taken["client"] \in Nat
    BY LenProperties DEF RInv, TypeOK
<1>5. UpInRow'
    BY <1>1, <1>2, <1>4, EmptySeq DEF RInv, UpInRow, Follows
<1>6. DownInRow' /\ Stages' /\ DownTailArrives'
    BY <1>1, <1>2 DEF RInv, DownInRow, Stages, DownTailArrives, Follows
<1> QED BY <1>3, <1>5, <1>6 DEF RInv

LEMMA PutPartKeeps == ASSUME RInv, PutPart PROVE RInv'
<1> DEFINE before == Len(toServer) + Len(batch)
<1>1. UNCHANGED <<guarded, phase, outcome, quiet, waited, held, sender, batch, pongs,
                  receiver, message, recvq, down, writing, taken, toServer, toClient,
                  broken>>
    BY DEF PutPart, main, clock, sending, receiving, downward, record
<1>2. /\ parts # <<>> /\ sender = "run" /\ Len(sendq) < ChannelCap
      /\ sendq' = Append(sendq, Head(parts)) /\ parts' = Tail(parts)
      /\ up' = IF Len(parts) > 1 THEN up ELSE IF up = "send" THEN "read" ELSE "ended"
    BY DEF PutPart, SendRoom
<1>3. /\ sendq \in Seq(Nat) /\ parts \in Seq(Nat)
      /\ Len(sendq) \in Nat /\ before \in Nat /\ Len(parts) \in Nat
    BY LenProperties, PiecesAreNumbers DEF RInv, TypeOK
<1>4. /\ Head(parts) \in Piece /\ Tail(parts) \in Seq(Piece)
      /\ Append(sendq, Head(parts)) \in Seq(Piece)
    BY <1>2, HeadTailProperties, AppendProperties DEF RInv, TypeOK
<1>5. /\ Follows(sendq, before) /\ Follows(parts, before + Len(sendq))
    BY <1>2 DEF RInv, UpInRow
<1> HIDE DEF before
<1>6. /\ Head(parts) = before + Len(sendq) + 1
      /\ Follows(parts', before + Len(sendq) + 1)
      /\ Len(parts') = Len(parts) - 1 /\ Len(parts) >= 1
    BY <1>2, <1>3, <1>5, FollowsTail
<1>7. Follows(sendq', before) /\ Len(sendq') = Len(sendq) + 1
    BY <1>2, <1>3, <1>5, <1>6, FollowsAppend
<1>8. TypeOK'
    <2>1. sendq' \in Seq(Piece) /\ parts' \in Seq(Piece)
        BY <1>2, <1>4
    <2>2. Len(sendq') <= ChannelCap
        BY <1>2, <1>3, <1>7, RelayAssumption
    <2>3. up' \in {"read", "send", "flush", "ended"}
        BY <1>2 DEF RInv, TypeOK
    <2> QED BY <1>1, <2>1, <2>2, <2>3 DEF RInv, TypeOK
<1>9. up' = "read" => parts' = <<>>
    <2>1. up' = "read" => Len(parts) <= 1
        BY <1>2, <1>3 DEF RInv, UpInRow
    <2> QED BY <2>1, <1>2, <1>3, <1>4, <1>6, EmptySeq
<1>10. Len(toServer) \in Nat /\ Len(batch) \in Nat /\ Len(held) \in Nat
       /\ taken["client"] \in Nat
    BY LenProperties DEF RInv, TypeOK
<1>11. UpInRow'
    <2>1. /\ Follows(toServer, 0) /\ Len(toServer) <= taken["client"]
          /\ Follows(batch, Len(toServer))
          /\ Follows(held, before + Len(sendq) + Len(parts))
          /\ before + Len(sendq) + Len(parts) + Len(held) = taken["client"]
        BY <1>2 DEF RInv, UpInRow, before
    <2>2. before + Len(sendq') = before + Len(sendq) + 1
        BY <1>3, <1>7
    <2>3. before + Len(sendq') + Len(parts') = before + Len(sendq) + Len(parts)
        BY <1>3, <1>6, <1>7
    <2>4. Follows(parts', before + Len(sendq'))
        BY <1>6, <2>2
    <2>5. /\ Follows(held, before + Len(sendq') + Len(parts'))
          /\ before + Len(sendq') + Len(parts') + Len(held) = taken["client"]
        BY <2>1, <2>3
    <2>6. before' = before
        BY <1>1 DEF before
    <2>7. Follows(sendq', before)
        BY <1>7
    <2> QED BY <1>1, <1>2, <1>9, <2>1, <2>4, <2>5, <2>6, <2>7
            DEF UpInRow, before, Follows
<1>12. DownInRow' /\ Stages' /\ DownTailArrives'
    BY <1>1, <1>2 DEF RInv, DownInRow, Stages, DownTailArrives, Follows
<1> QED BY <1>8, <1>11, <1>12 DEF RInv

LEMMA PutPartFailsKeeps == ASSUME RInv, PutPartFails PROVE RInv'
<1>1. UNCHANGED <<guarded, phase, outcome, quiet, waited, sendq, sender, batch, pongs,
                  receiver, message, recvq, down, writing, taken, toServer, toClient,
                  broken>>
    BY DEF PutPartFails, main, clock, sending, receiving, downward, record
<1>2. sender = "ended" /\ parts' = <<>> /\ held' = <<>> /\ up' = "ended"
    BY DEF PutPartFails
<1>3. TypeOK'
    BY <1>1, <1>2, EmptySeq DEF RInv, TypeOK
<1>4. UpInRow'
    BY <1>1, <1>2 DEF RInv, UpInRow, Follows
<1>5. DownInRow' /\ Stages' /\ DownTailArrives'
    BY <1>1, <1>2 DEF RInv, DownInRow, Stages, DownTailArrives, Follows
<1> QED BY <1>3, <1>4, <1>5 DEF RInv

-----------------------------------------------------------------------------
(* ws_send_driver and ping_driver *)

LEMMA TakeBatchKeeps == ASSUME RInv, TakeBatch PROVE RInv'
<1> DEFINE n == Min({BatchMax, Len(sendq)})
           before == Len(toServer)
<1>1. UNCHANGED <<guarded, phase, outcome, quiet, waited, up, held, parts, sender, pongs,
                  receiver, message, recvq, down, writing, taken, toServer, toClient,
                  broken>>
    BY DEF TakeBatch, main, clock, upward, receiving, downward, record
<1>2. /\ sender = "run" /\ batch = <<>>
      /\ batch' = SubSeq(sendq, 1, n) /\ sendq' = SubSeq(sendq, n + 1, Len(sendq))
    BY DEF TakeBatch, MayTake
<1>3. /\ sendq \in Seq(Nat) /\ sendq \in Seq(Piece) /\ Len(sendq) \in Nat
      /\ Len(sendq) <= ChannelCap /\ \A i \in 1 .. Len(sendq) : sendq[i] \in Piece
    BY LenProperties, ElementOfSeq, PiecesAreNumbers DEF RInv, TypeOK
<1>4. n \in 0 .. Len(sendq) /\ n <= BatchMax
    BY <1>3, MinOfTwo, RelayAssumption
<1> HIDE DEF n
<1>5. /\ before \in Nat /\ Len(parts) \in Nat /\ Len(held) \in Nat
      /\ taken["client"] \in Nat /\ Len(batch) = 0
    BY <1>2, LenProperties DEF RInv, TypeOK
<1>6. Follows(sendq, before)
    BY <1>2, <1>5 DEF RInv, UpInRow
<1> HIDE DEF before
<1>7. /\ Follows(batch', before) /\ Follows(sendq', before + n)
      /\ Len(batch') = n /\ Len(sendq') = Len(sendq) - n
    BY <1>2, <1>3, <1>4, <1>5, <1>6, FollowsCut
<1>8. batch' \in Seq(Piece)
    BY <1>2, <1>3, <1>4, SubSeqProperties
<1>9. sendq' \in Seq(Piece)
    BY <1>2, <1>3, <1>4, SubSeqProperties
<1>10. Len(batch') <= BatchMax /\ Len(sendq') <= ChannelCap
    BY <1>3, <1>4, <1>7, RelayAssumption
<1>11. TypeOK'
    BY <1>1, <1>8, <1>9, <1>10 DEF RInv, TypeOK
<1>12. UpInRow'
    <2>1. before + Len(batch') + Len(sendq') = before + Len(batch) + Len(sendq)
        BY <1>3, <1>4, <1>5, <1>7
    <2>2. /\ Follows(parts, before + Len(batch) + Len(sendq))
          /\ Follows(held, before + Len(batch) + Len(sendq) + Len(parts))
          /\ before + Len(batch) + Len(sendq) + Len(parts) + Len(held) = taken["client"]
        BY <1>2 DEF RInv, UpInRow, before
    <2>3. /\ Follows(parts', before + Len(batch') + Len(sendq'))
          /\ Follows(held', before + Len(batch') + Len(sendq') + Len(parts'))
          /\ before + Len(batch') + Len(sendq') + Len(parts') + Len(held') = taken'["client"]
        BY <1>1, <2>1, <2>2
    <2>4. Follows(sendq', before + Len(batch'))
        BY <1>7
    <2> QED BY <1>1, <1>2, <1>7, <2>3, <2>4 DEF RInv, UpInRow, before
<1>13. DownInRow' /\ Stages' /\ DownTailArrives'
    BY <1>1, <1>2 DEF RInv, DownInRow, Stages, DownTailArrives, Follows
<1> QED BY <1>11, <1>12, <1>13 DEF RInv

LEMMA WritePieceKeeps == ASSUME RInv, WritePiece PROVE RInv'
<1> DEFINE before == Len(toServer)
<1>1. UNCHANGED <<guarded, phase, outcome, quiet, waited, up, held, parts, sendq, sender,
                  pongs, receiver, message, recvq, down, writing, taken, toClient, broken>>
    BY DEF WritePiece, main, clock, upward, receiving, downward
<1>2. /\ batch # <<>> /\ toServer' = Append(toServer, Head(batch)) /\ batch' = Tail(batch)
    BY DEF WritePiece
<1>3. /\ batch \in Seq(Nat) /\ toServer \in Seq(Nat) /\ before \in Nat
      /\ Len(batch) \in Nat /\ Len(sendq) \in Nat /\ Len(parts) \in Nat
      /\ Len(held) \in Nat /\ taken["client"] \in Nat
    BY LenProperties, PiecesAreNumbers DEF RInv, TypeOK
<1>4. /\ Head(batch) \in Piece /\ Tail(batch) \in Seq(Piece)
      /\ Append(toServer, Head(batch)) \in Seq(Piece)
    BY <1>2, HeadTailProperties, AppendProperties DEF RInv, TypeOK
<1>5. sender = "run" /\ Follows(toServer, 0) /\ Follows(batch, before)
    BY <1>2 DEF RInv, TypeOK, UpInRow
<1> HIDE DEF before
<1>6. /\ Head(batch) = before + 1 /\ Follows(batch', before + 1)
      /\ Len(batch') = Len(batch) - 1 /\ Len(batch) >= 1
    BY <1>2, <1>3, <1>5, FollowsTail
<1>7. Follows(toServer', 0) /\ Len(toServer') = before + 1
    BY <1>2, <1>3, <1>5, <1>6, FollowsAppend DEF before
<1>8. TypeOK'
    <2>1. batch' \in Seq(Piece) /\ toServer' \in Seq(Piece)
        BY <1>2, <1>4
    <2>2. Len(batch') <= BatchMax
        BY <1>3, <1>6, RelayAssumption DEF RInv, TypeOK
    <2> QED BY <1>1, <2>1, <2>2 DEF RInv, TypeOK
<1>9. UpInRow'
    <2>1. /\ Follows(sendq, before + Len(batch))
          /\ Follows(parts, before + Len(batch) + Len(sendq))
          /\ Follows(held, before + Len(batch) + Len(sendq) + Len(parts))
          /\ before + Len(batch) + Len(sendq) + Len(parts) + Len(held) = taken["client"]
          /\ up = "read" => parts = <<>>
        BY <1>5 DEF RInv, UpInRow, before
    <2>2. Len(toServer') + Len(batch') = before + Len(batch)
        BY <1>3, <1>6, <1>7
    <2>3. Len(toServer') <= taken["client"]
        BY <1>3, <1>6, <1>7, <2>1
    <2>4. Follows(batch', Len(toServer'))
        BY <1>6, <1>7
    <2>5. /\ Follows(sendq, Len(toServer') + Len(batch'))
          /\ Follows(parts, Len(toServer') + Len(batch') + Len(sendq))
          /\ Follows(held, Len(toServer') + Len(batch') + Len(sendq) + Len(parts))
          /\ Len(toServer') + Len(batch') + Len(sendq) + Len(parts) + Len(held)
                 = taken["client"]
        BY <2>1, <2>2
    <2> QED BY <1>1, <1>5, <1>7, <2>1, <2>3, <2>4, <2>5 DEF UpInRow
<1>10. DownInRow' /\ Stages' /\ DownTailArrives'
    BY <1>1, <1>2 DEF RInv, DownInRow, Stages, DownTailArrives, Follows
<1> QED BY <1>8, <1>9, <1>10 DEF RInv

LEMMA ControlKeeps == ASSUME RInv, WriteControl \/ Ping PROVE RInv'
<1>1. UNCHANGED <<guarded, phase, outcome, quiet, waited, up, held, parts, sendq, sender,
                  batch, receiver, message, recvq, down, writing, taken, toServer,
                  toClient, broken>>
    BY DEF WriteControl, Ping, main, clock, upward, sending, receiving, downward, record
<1>2. pongs' \in 0 .. PongCap
    <2>1. pongs \in 0 .. PongCap /\ PongCap \in Nat
        BY RelayAssumption DEF RInv, TypeOK
    <2> QED BY <2>1 DEF WriteControl, Ping
<1>3. TypeOK'
    BY <1>1, <1>2 DEF RInv, TypeOK
<1>4. UpInRow' /\ DownInRow' /\ Stages' /\ DownTailArrives'
    BY <1>1 DEF RInv, UpInRow, DownInRow, Stages, DownTailArrives, Follows
<1> QED BY <1>3, <1>4 DEF RInv

\* What the driver leaves behind no longer arrives; what it wrote stays.
LEMMA SenderGoneKeeps == ASSUME RInv, WriteFails \/ SenderEnds PROVE RInv'
<1>1. UNCHANGED <<guarded, phase, outcome, quiet, waited, up, held, parts, receiver,
                  message, recvq, down, writing, taken, toServer, toClient>>
    BY DEF WriteFails, SenderEnds, main, clock, upward, receiving, downward, record
<1>2. /\ sender' = "ended" /\ batch' = <<>> /\ sendq' = <<>> /\ pongs' = 0
      /\ broken' \in {broken, broken \cup {"server"}} /\ sender = "run"
    BY DEF WriteFails, SenderEnds, SenderGone, record
<1>3. TypeOK'
    BY <1>1, <1>2, EmptySeq, RelayAssumption DEF RInv, TypeOK
<1>4. UpInRow'
    BY <1>1, <1>2 DEF RInv, UpInRow, Follows
<1>5. "client" \in broken' <=> "client" \in broken
    BY <1>2
<1>6. DownInRow' /\ Stages' /\ DownTailArrives'
    BY <1>1, <1>2, <1>5 DEF RInv, DownInRow, Stages, DownTailArrives, Follows
<1> QED BY <1>3, <1>4, <1>6 DEF RInv

-----------------------------------------------------------------------------
(* ws_recv_driver *)

LEMMA ReadMessageKeeps == ASSUME RInv, ReadMessage PROVE RInv'
<1> DEFINE n == taken["server"] + 1
<1>1. UNCHANGED <<guarded, phase, outcome, quiet, waited, up, held, parts, sendq, sender,
                  batch, pongs, receiver, recvq, down, writing, toServer, toClient, broken>>
    BY DEF ReadMessage, main, clock, upward, sending, downward
<1>2. /\ receiver = "read" /\ message = <<>> /\ message' = <<n>>
      /\ taken["server"] < Pieces
      /\ taken' = [taken EXCEPT !["server"] = n]
    BY DEF ReadMessage
<1>3. taken["server"] \in 0 .. Pieces /\ taken \in [{"client", "server"} -> 0 .. Pieces]
    BY DEF RInv, TypeOK
<1>4. n \in Piece /\ n \in 0 .. Pieces
    BY <1>2, <1>3, RelayAssumption DEF Piece
<1>5. /\ taken'["server"] = n /\ taken'["client"] = taken["client"]
      /\ taken' \in [{"client", "server"} -> 0 .. Pieces]
    BY <1>2, <1>3, <1>4
<1>6. message' \in Seq(Piece) /\ Len(message') = 1 /\ message'[1] = n
    BY <1>2, <1>4
<1>7. TypeOK'
    BY <1>1, <1>5, <1>6 DEF RInv, TypeOK
<1>8. UpInRow'
    BY <1>1, <1>5 DEF RInv, UpInRow, Follows
<1>9. /\ Len(toClient) \in Nat /\ Len(writing) \in Nat /\ Len(recvq) \in Nat
      /\ Len(message) = 0
    BY <1>2, LenProperties DEF RInv, TypeOK
<1>10. DownInRow'
    <2>1. Len(toClient') <= taken'["server"]
        BY <1>1, <1>3, <1>5, <1>9, RelayAssumption DEF RInv, DownInRow
    <2>2. down = "run" =>
            /\ Follows(message', Len(toClient) + Len(writing) + Len(recvq))
            /\ Len(toClient) + Len(writing) + Len(recvq) + Len(message') = taken'["server"]
        BY <1>3, <1>5, <1>6, <1>9, RelayAssumption DEF RInv, DownInRow, Follows
    <2> QED BY <1>1, <1>2, <2>1, <2>2 DEF RInv, DownInRow, Follows
<1>11. Stages' /\ DownTailArrives'
    BY <1>1, <1>2 DEF RInv, Stages, DownTailArrives
<1> QED BY <1>7, <1>8, <1>10, <1>11 DEF RInv

LEMMA PongKeeps == ASSUME RInv, ReadPing \/ PutPong PROVE RInv'
<1>1. UNCHANGED <<guarded, phase, outcome, quiet, waited, up, held, parts, sendq, sender,
                  batch, message, recvq, down, writing, taken, toServer, toClient, broken>>
    BY DEF ReadPing, PingLeavesClock, PutPong, main, clock, upward, sending, downward, record
<1>2. /\ pongs' \in 0 .. PongCap
      /\ \/ receiver = "read" /\ message = <<>> /\ receiver' = "pong"
         \/ receiver = "pong" /\ receiver' = "read"
    <2>1. pongs \in 0 .. PongCap /\ PongCap \in Nat
        BY RelayAssumption DEF RInv, TypeOK
    <2> QED BY <2>1 DEF ReadPing, PutPong
<1>3. TypeOK'
    BY <1>1, <1>2 DEF RInv, TypeOK
<1>4. UpInRow' /\ DownInRow' /\ Stages' /\ DownTailArrives'
    BY <1>1, <1>2 DEF RInv, UpInRow, DownInRow, Stages, DownTailArrives, Follows
<1> QED BY <1>3, <1>4 DEF RInv

LEMMA PutMessageKeeps == ASSUME RInv, PutMessage PROVE RInv'
<1> DEFINE before == Len(toClient) + Len(writing)
<1>1. UNCHANGED <<guarded, phase, outcome, quiet, waited, up, held, parts, sendq, sender,
                  batch, pongs, receiver, down, writing, taken, toServer, toClient, broken>>
    BY DEF PutMessage, main, clock, upward, sending, downward, record
<1>2. /\ message # <<>> /\ down = "run" /\ Len(recvq) < ChannelCap
      /\ recvq' = recvq \o message /\ message' = <<>>
    BY DEF PutMessage
<1>3. /\ recvq \in Seq(Nat) /\ message \in Seq(Nat) /\ Len(recvq) \in Nat
      /\ Len(message) \in Nat /\ Len(message) <= 1 /\ before \in Nat
      /\ recvq \o message \in Seq(Piece)
    BY LenProperties, ConcatProperties, PiecesAreNumbers DEF RInv, TypeOK
<1>4. Follows(recvq, before) /\ Follows(message, before + Len(recvq))
    BY <1>2 DEF RInv, DownInRow
<1> HIDE DEF before
<1>5. Follows(recvq', before) /\ Len(recvq') = Len(recvq) + Len(message)
    BY <1>2, <1>3, <1>4, FollowsConcat
<1>6. TypeOK'
    BY <1>1, <1>2, <1>3, <1>5, EmptySeq, RelayAssumption DEF RInv, TypeOK
<1>7. UpInRow'
    BY <1>1 DEF RInv, UpInRow, Follows
<1>8. DownInRow'
    BY <1>1, <1>2, <1>3, <1>5 DEF RInv, DownInRow, before, Follows
<1>9. Stages' /\ DownTailArrives'
    BY <1>1, <1>2 DEF RInv, Stages, DownTailArrives
<1> QED BY <1>6, <1>7, <1>8, <1>9 DEF RInv

LEMMA ReceiverEndsKeeps == ASSUME RInv, ReceiverEnds PROVE RInv'
<1>1. UNCHANGED <<guarded, phase, outcome, quiet, waited, up, held, parts, sendq, sender,
                  batch, pongs, recvq, down, writing, taken, toServer, toClient, broken>>
    BY DEF ReceiverEnds, main, clock, upward, sending, downward, record
<1>2. /\ receiver' = "ended" /\ message' = <<>>
      /\ down = "run" => message = <<>>
    BY DEF ReceiverEnds, RInv, TypeOK, DownInRow
<1>3. TypeOK'
    BY <1>1, <1>2, EmptySeq DEF RInv, TypeOK
<1>4. UpInRow'
    BY <1>1 DEF RInv, UpInRow, Follows
<1>5. DownInRow'
    BY <1>1, <1>2 DEF RInv, DownInRow, Follows
<1>6. Stages' /\ DownTailArrives'
    BY <1>1, <1>2 DEF RInv, Stages, DownTailArrives
<1> QED BY <1>3, <1>4, <1>5, <1>6 DEF RInv

-----------------------------------------------------------------------------
(* The task down *)

LEMMA TakeMessageKeeps == ASSUME RInv, TakeMessage PROVE RInv'
<1> DEFINE before == Len(toClient)
<1>1. UNCHANGED <<guarded, phase, outcome, waited, up, held, parts, sendq, sender, batch,
                  pongs, receiver, message, down, taken, toServer, toClient, broken>>
    BY DEF TakeMessage, main, upward, sending, receiving, record
<1>2. /\ down = "run" /\ writing = <<>> /\ recvq # <<>> /\ quiet' = 0
      /\ writing' = <<Head(recvq)>> /\ recvq' = Tail(recvq)
    BY DEF TakeMessage
<1>3. /\ recvq \in Seq(Nat) /\ recvq \in Seq(Piece) /\ Len(recvq) \in Nat
      /\ Len(message) \in Nat /\ before \in Nat /\ Len(writing) = 0
      /\ Len(recvq) <= ChannelCap
    BY <1>2, LenProperties, PiecesAreNumbers DEF RInv, TypeOK
<1>4. Head(recvq) \in Piece /\ Tail(recvq) \in Seq(Piece)
    BY <1>2, <1>3, HeadTailProperties
<1>5. Follows(recvq, before)
    BY <1>2, <1>3 DEF RInv, DownInRow
<1> HIDE DEF before
<1>6. /\ Head(recvq) = before + 1 /\ Follows(recvq', before + 1)
      /\ Len(recvq') = Len(recvq) - 1 /\ Len(recvq) >= 1
    BY <1>2, <1>3, <1>5, FollowsTail
<1>7. writing' \in Seq(Piece) /\ Len(writing') = 1 /\ Follows(writing', before)
    BY <1>2, <1>4, <1>6 DEF Follows
<1>8. TypeOK'
    BY <1>1, <1>2, <1>3, <1>4, <1>6, <1>7, RelayAssumption DEF RInv, TypeOK
<1>9. UpInRow'
    BY <1>1 DEF RInv, UpInRow, Follows
<1>10. DownInRow'
    BY <1>1, <1>2, <1>3, <1>6, <1>7 DEF RInv, DownInRow, before, Follows
<1>11. Stages' /\ DownTailArrives'
    BY <1>1, <1>2 DEF RInv, Stages, DownTailArrives
<1> QED BY <1>8, <1>9, <1>10, <1>11 DEF RInv

LEMMA WriteClientKeeps == ASSUME RInv, WriteClient PROVE RInv'
<1>1. UNCHANGED <<guarded, phase, outcome, quiet, waited, up, held, parts, sendq, sender,
                  batch, pongs, receiver, message, recvq, down, taken, toServer, broken>>
    BY DEF WriteClient, main, clock, upward, sending, receiving
<1>2. /\ writing # <<>> /\ toClient' = toClient \o writing /\ writing' = <<>>
    BY DEF WriteClient
<1>3. /\ toClient \in Seq(Nat) /\ writing \in Seq(Nat) /\ Len(toClient) \in Nat
      /\ Len(writing) \in Nat /\ Len(recvq) \in Nat /\ Len(message) \in Nat
      /\ toClient \o writing \in Seq(Piece) /\ taken["server"] \in Nat
    BY LenProperties, ConcatProperties, PiecesAreNumbers DEF RInv, TypeOK
<1>4. down = "run" /\ Follows(toClient, 0) /\ Follows(writing, Len(toClient))
    BY <1>2 DEF RInv, TypeOK, DownInRow
<1>5. Follows(toClient', 0) /\ Len(toClient') = Len(toClient) + Len(writing)
    BY <1>2, <1>3, <1>4, FollowsConcat
<1>6. TypeOK'
    BY <1>1, <1>2, <1>3, EmptySeq DEF RInv, TypeOK
<1>7. UpInRow'
    BY <1>1 DEF RInv, UpInRow, Follows
<1>8. DownInRow'
    BY <1>1, <1>2, <1>3, <1>4, <1>5 DEF RInv, DownInRow, Follows
<1>9. Stages' /\ DownTailArrives'
    BY <1>1, <1>4 DEF RInv, Stages, DownTailArrives
<1> QED BY <1>6, <1>7, <1>8, <1>9 DEF RInv

LEMMA DownEndsKeeps == ASSUME RInv, WriteClientFails \/ DownEnds PROVE RInv'
<1>1. UNCHANGED <<guarded, phase, outcome, quiet, waited, up, held, parts, sendq, sender,
                  batch, pongs, receiver, message, taken, toServer, toClient>>
    BY DEF WriteClientFails, DownEnds, main, clock, upward, sending, receiving, record
<1>2. /\ down = "run" /\ down' = "ended" /\ writing' = <<>> /\ recvq' = <<>>
      /\ \/ broken' = broken \cup {"client"}
         \/ /\ broken' = broken /\ writing = <<>> /\ recvq = <<>> /\ receiver = "ended"
    <2>1. CASE WriteClientFails
        <3>1. writing # <<>> /\ down' = "ended" /\ writing' = <<>> /\ recvq' = <<>>
              /\ broken' = broken \cup {"client"}
            BY <2>1 DEF WriteClientFails
        <3>2. down = "run"
            BY <3>1 DEF RInv, TypeOK, DownInRow
        <3> QED BY <3>1, <3>2
    <2>2. CASE DownEnds
        BY <2>2 DEF DownEnds, record
    <2> QED BY <2>1, <2>2
<1>3. TypeOK'
    <2>1. /\ broken' \subseteq {"client", "server"}
          /\ writing' \in Seq(Piece) /\ Len(writing') <= 1
          /\ recvq' \in Seq(Piece) /\ Len(recvq') <= ChannelCap
        <3>1. broken \subseteq {"client", "server"}
            BY DEF RInv, TypeOK
        <3>2. broken' \subseteq {"client", "server"}
            BY <1>2, <3>1
        <3> QED BY <1>2, <3>2, EmptySeq, RelayAssumption
    <2> QED BY <1>1, <1>2, <2>1 DEF RInv, TypeOK
<1>4. UpInRow'
    BY <1>1 DEF RInv, UpInRow, Follows
<1>5. Len(toClient) \in Nat
    BY LenProperties DEF RInv, TypeOK
<1>6. DownInRow'
    BY <1>1, <1>2, <1>5 DEF RInv, DownInRow, Follows
<1>7. Stages' /\ DownTailArrives'
    BY <1>1, <1>2 DEF RInv, Stages, DownTailArrives
<1> QED BY <1>3, <1>4, <1>6, <1>7 DEF RInv

-----------------------------------------------------------------------------
(* The body of bridge_ws *)

LEMMA WaitingKeeps == ASSUME RInv, DirectionEnds \/ Tick PROVE RInv'
<1>1. UNCHANGED <<guarded, outcome, up, held, parts, sendq, sender, batch, pongs,
                  receiver, message, recvq, down, writing, taken, toServer, toClient,
                  broken>>
    BY DEF DirectionEnds, Tick, main, upward, sending, receiving, downward, record
<1>2. /\ phase # "over" /\ phase' \in {phase, "drainUp", "drainDown"}
      /\ phase' = "drainUp" => phase = "drainUp" \/ down = "ended"
      /\ quiet' \in 0 .. Idle /\ waited' \in 0 .. Drain
    <2>1. quiet \in 0 .. Idle /\ waited \in 0 .. Drain /\ Idle \in Nat /\ Drain \in Nat
        BY RelayAssumption DEF RInv, TypeOK
    <2>2. CASE DirectionEnds
        BY <2>1, <2>2 DEF DirectionEnds
    <2>3. CASE Tick
        <3>1. phase # "over" /\ phase' = phase
            BY <2>3 DEF Tick, main
        <3>2. quiet' \in 0 .. Idle
            BY <2>1, <2>3 DEF Tick, AtMost
        <3>3. waited' \in 0 .. Drain
            BY <2>1, <2>3 DEF Tick, AtMost
        <3> QED BY <3>1, <3>2, <3>3
    <2> QED BY <2>2, <2>3
<1>3. TypeOK'
    BY <1>1, <1>2 DEF RInv, TypeOK
<1>4. UpInRow' /\ DownInRow' /\ Stages' /\ DownTailArrives'
    BY <1>1, <1>2 DEF RInv, UpInRow, DownInRow, Stages, DownTailArrives, Follows
<1> QED BY <1>3, <1>4 DEF RInv

\* An abort leaves to either side what it has got, and nothing to do.
LEMMA AbortKeeps ==
    ASSUME RInv, NEW how \in {"drained", "late", "idle"}, Abort(how),
           how = "drained" /\ "client" \notin broken => Len(toClient) = taken["server"]
    PROVE  RInv'
<1>1. UNCHANGED <<guarded, quiet, waited, taken, toServer, toClient, broken>>
    BY DEF Abort, clock, record
<1>2. /\ phase' = "over" /\ outcome' = how
      /\ up' = "ended" /\ held' = <<>> /\ parts' = <<>>
      /\ sender' = "ended" /\ batch' = <<>> /\ sendq' = <<>> /\ pongs' = 0
      /\ receiver' = "ended" /\ message' = <<>> /\ recvq' = <<>>
      /\ down' = "ended" /\ writing' = <<>>
    BY DEF Abort, SenderGone
<1>3. TypeOK'
    BY <1>1, <1>2, EmptySeq, RelayAssumption DEF RInv, TypeOK
<1>4. UpInRow' /\ DownInRow' /\ Stages' /\ DownTailArrives'
    BY <1>1, <1>2 DEF RInv, UpInRow, DownInRow, Stages, DownTailArrives, Follows
<1> QED BY <1>3, <1>4 DEF RInv

LEMMA MainKeeps == ASSUME RInv, Main PROVE RInv'
<1>1. CASE DirectionEnds
    BY <1>1, WaitingKeeps
<1>2. CASE Drained
    <2>1. down = "ended" /\ phase # "over"
        BY <1>2 DEF Drained, OtherEnded, RInv, Stages
    <2>2. "client" \notin broken => Len(toClient) = taken["server"]
        BY <2>1 DEF RInv, DownInRow
    <2> QED BY <1>2, <2>2, AbortKeeps DEF Drained
<1>3. CASE DrainExpires \/ IdleFires
    <2>1. Abort("late") \/ Abort("idle")
        BY <1>3 DEF DrainExpires, IdleFires
    <2> QED BY <2>1, AbortKeeps
<1> QED BY <1>1, <1>2, <1>3 DEF Main

-----------------------------------------------------------------------------
LEMMA RInvStep == RInv /\ [Next]_vars => RInv'
<1> SUFFICES ASSUME RInv, [Next]_vars PROVE RInv'
    OBVIOUS
<1>1. CASE Up
    BY <1>1, ReadClientKeeps, ClientEndsKeeps, PutPartKeeps, PutPartFailsKeeps DEF Up
<1>2. CASE Sender \/ Ping
    BY <1>2, TakeBatchKeeps, WritePieceKeeps, ControlKeeps, SenderGoneKeeps DEF Sender
<1>3. CASE Receiver
    BY <1>3, ReadMessageKeeps, PongKeeps, PutMessageKeeps, ReceiverEndsKeeps DEF Receiver
<1>4. CASE Down
    BY <1>4, TakeMessageKeeps, WriteClientKeeps, DownEndsKeeps DEF Down
<1>5. CASE Main \/ Tick
    BY <1>5, MainKeeps, WaitingKeeps
<1>6. CASE UNCHANGED vars
    BY <1>6 DEF vars, RInv, TypeOK, UpInRow, DownInRow, Stages, DownTailArrives, Follows
<1> QED BY <1>1, <1>2, <1>3, <1>4, <1>5, <1>6 DEF Next, Stopped

LEMMA RInvInit == Init => RInv
<1> SUFFICES ASSUME Init PROVE RInv
    OBVIOUS
<1>1. TypeOK
    BY RelayAssumption, EmptySeq DEF Init, TypeOK
<1>2. UpInRow /\ DownInRow /\ Stages /\ DownTailArrives
    BY DEF Init, UpInRow, DownInRow, Stages, DownTailArrives, Follows
<1> QED BY <1>1, <1>2 DEF RInv

\* The inductive invariant of a session's relay.
THEOREM RelayInvariant == Spec => []RInv
<1> QED BY RInvInit, RInvStep, PTL DEF Spec

(***************************************************************************)
(* The channels of bridge_ws stay within their capacities, and no counter  *)
(* of its clock outruns its limit.                                         *)
(***************************************************************************)
THEOREM RelayTypes == Spec => []TypeOK
<1>1. RInv => TypeOK
    BY DEF RInv
<1> QED BY <1>1, RelayInvariant, PTL

(***************************************************************************)
(* drain_after_first_end(): when the drain ended in time, the client has   *)
(* got every message read from the WebSocket, unless its own socket        *)
(* failed -- for any number of messages and channels of any capacity.      *)
(***************************************************************************)
THEOREM TailArrives == Spec => []DownTailArrives
<1>1. RInv => DownTailArrives
    BY DEF RInv
<1> QED BY <1>1, RelayInvariant, PTL

-----------------------------------------------------------------------------
(* Each direction implements the Stream it promises *)

\* Who changes what a Stream is made of.
LEMMA Movers ==
    ASSUME [Next]_vars
    PROVE  /\ phase' = phase \/ Main
           /\ taken' = taken \/ ReadClient \/ ReadMessage
           /\ toServer' = toServer \/ WritePiece
           /\ toClient' = toClient \/ WriteClient
<1> USE DEF main, record
<1>1. CASE Up
    BY <1>1 DEF Up, ReadClient, ClientEnds, PutPart, PutPartFails
<1>2. CASE Sender \/ Ping
    <2>1. CASE TakeBatch \/ WriteControl \/ Ping
        BY <2>1 DEF TakeBatch, WriteControl, Ping
    <2>2. CASE WritePiece
        BY <2>2 DEF WritePiece
    <2>3. CASE WriteFails \/ SenderEnds
        BY <2>3 DEF WriteFails, SenderEnds
    <2> QED BY <1>2, <2>1, <2>2, <2>3 DEF Sender
<1>3. CASE Receiver
    <2>1. CASE ReadMessage
        BY <2>1 DEF ReadMessage
    <2>2. CASE ReadPing \/ PutPong \/ PutMessage \/ ReceiverEnds
        BY <2>2 DEF ReadPing, PutPong, PutMessage, ReceiverEnds
    <2> QED BY <1>3, <2>1, <2>2 DEF Receiver
<1>4. CASE Down
    <2>1. CASE WriteClient
        BY <2>1 DEF WriteClient
    <2>2. CASE TakeMessage \/ WriteClientFails \/ DownEnds
        BY <2>2 DEF TakeMessage, WriteClientFails, DownEnds
    <2> QED BY <1>4, <2>1, <2>2 DEF Down
<1>5. CASE Main
    <2>1. UNCHANGED <<taken, toServer, toClient>>
        BY <1>5 DEF Main, DirectionEnds, Drained, DrainExpires, IdleFires, Abort
    <2> QED BY <1>5, <2>1
<1>6. CASE Tick
    BY <1>6 DEF Tick
<1>7. CASE UNCHANGED vars
    BY <1>7 DEF vars
<1> QED BY <1>1, <1>2, <1>3, <1>4, <1>5, <1>6, <1>7 DEF Next, Stopped

\* bridge_ws never goes on after it returned.
LEMMA MainCloses ==
    ASSUME Main
    PROVE  /\ phase # "over" /\ UNCHANGED <<taken, toServer, toClient>>
<1>1. phase # "over"
    BY DEF Main, DirectionEnds, Drained, OtherEnded, DrainExpires, IdleFires
<1>2. UNCHANGED <<taken, toServer, toClient>>
    BY DEF Main, DirectionEnds, Drained, DrainExpires, IdleFires, Abort, record
<1> QED BY <1>1, <1>2

\* Until the session ends, a step passes on the next piece or none.
LEMMA UpStepIsStream ==
    ASSUME RInv, [Next]_vars PROVE [UpStream!Next]_(UpStream!vars)
<1> USE DEF UpStream!vars
<1>1. CASE ReadClient
    <2>1. phase # "over" /\ phase' = phase /\ toServer' = toServer
        BY <1>1 DEF ReadClient, main, RInv, Stages
    <2>2. taken'["client"] = taken["client"] + 1
        BY <1>1 DEF ReadClient, RInv, TypeOK
    <2> QED BY <2>1, <2>2 DEF UpStream!Next, UpStream!Take
<1>2. CASE WritePiece
    <2>1. /\ batch # <<>> /\ toServer' = Append(toServer, Head(batch))
          /\ phase' = phase /\ taken' = taken
        BY <1>2 DEF WritePiece, main
    <2>2. sender = "run" /\ phase # "over"
        BY <2>1 DEF RInv, TypeOK, UpInRow, Stages
    <2>3. /\ Len(toServer) \in Nat /\ Len(batch) \in Nat /\ Len(sendq) \in Nat
          /\ Len(parts) \in Nat /\ Len(held) \in Nat /\ taken["client"] \in Nat
          /\ batch \in Seq(Nat)
        BY LenProperties, PiecesAreNumbers DEF RInv, TypeOK
    <2>4. Follows(batch, Len(toServer)) /\ Len(toServer) + Len(batch) <= taken["client"]
        BY <2>2, <2>3 DEF RInv, UpInRow
    <2>5. Head(batch) = Len(toServer) + 1 /\ Len(batch) >= 1
        BY <2>1, <2>3, <2>4, FollowsTail
    <2>6. UpStream!Give
        BY <2>1, <2>2, <2>3, <2>4, <2>5 DEF UpStream!Give
    <2> QED BY <2>6 DEF UpStream!Next
<1>3. CASE Main
    BY <1>3, MainCloses DEF UpStream!Next, UpStream!Close
<1>4. CASE ~ ReadClient /\ ~ WritePiece /\ ~ Main
    <2>1. taken'["client"] = taken["client"]
        <3>1. ReadMessage => taken'["client"] = taken["client"]
            BY DEF ReadMessage, RInv, TypeOK
        <3> QED BY <1>4, <3>1, Movers
    <2> QED BY <1>4, <2>1, Movers
<1> QED BY <1>1, <1>2, <1>3, <1>4

LEMMA DownStepIsStream ==
    ASSUME RInv, [Next]_vars PROVE [DownStream!Next]_(DownStream!vars)
<1> USE DEF DownStream!vars
<1>1. CASE ReadMessage
    <2>1. phase # "over" /\ phase' = phase /\ toClient' = toClient
        BY <1>1 DEF ReadMessage, main, RInv, Stages
    <2>2. taken'["server"] = taken["server"] + 1
        BY <1>1 DEF ReadMessage, RInv, TypeOK
    <2> QED BY <2>1, <2>2 DEF DownStream!Next, DownStream!Take
<1>2. CASE WriteClient
    <2>1. /\ writing # <<>> /\ toClient' = toClient \o writing
          /\ phase' = phase /\ taken' = taken
        BY <1>2 DEF WriteClient, main
    <2>2. down = "run" /\ phase # "over"
        BY <2>1 DEF RInv, TypeOK, DownInRow, Stages
    <2>3. /\ Len(toClient) \in Nat /\ Len(writing) \in Nat /\ Len(recvq) \in Nat
          /\ Len(message) \in Nat /\ taken["server"] \in Nat
          /\ writing \in Seq(Nat) /\ toClient \in Seq(Nat) /\ Len(writing) = 1
        <3>1. /\ writing \in Seq(Nat) /\ toClient \in Seq(Nat) /\ recvq \in Seq(Nat)
              /\ message \in Seq(Nat) /\ taken["server"] \in Nat /\ Len(writing) <= 1
            BY PiecesAreNumbers DEF RInv, TypeOK
        <3>2. Len(writing) \in Nat /\ Len(writing) >= 1
            <4>1. writing # <<>>
                BY <2>1
            <4>2. Len(writing) \in Nat \ {0}
                BY <4>1, <3>1, EmptySeq
            <4> QED BY <4>2
        <3>3. Len(toClient) \in Nat /\ Len(recvq) \in Nat /\ Len(message) \in Nat
            BY <3>1, LenProperties
        <3>4. Len(writing) = 1
            <4> DEFINE k == Len(writing)
            <4>1. k \in Nat /\ k >= 1 /\ k <= 1
                BY <3>1, <3>2
            <4> HIDE DEF k
            <4>2. k = 1
                BY <4>1
            <4> QED BY <4>2 DEF k
        <3> QED BY <3>1, <3>3, <3>4
    <2>4. /\ Follows(writing, Len(toClient))
          /\ Len(toClient) + Len(writing) <= taken["server"]
        BY <2>2, <2>3 DEF RInv, DownInRow
    <2>5. writing[1] = Len(toClient) + 1
        BY <2>3, <2>4 DEF Follows
    <2>6. toClient \o writing = Append(toClient, Len(toClient) + 1)
        <3> DEFINE a == Append(toClient, Len(toClient) + 1)
                   c == toClient \o writing
        <3>1. /\ c \in Seq(Nat) /\ Len(c) = Len(toClient) + 1
              /\ \A i \in 1 .. Len(c) :
                    c[i] = IF i <= Len(toClient) THEN toClient[i]
                           ELSE writing[i - Len(toClient)]
            <4>1. /\ c \in Seq(Nat) /\ Len(c) = Len(toClient) + Len(writing)
                  /\ \A i \in 1 .. Len(toClient) + Len(writing) :
                        c[i] = IF i <= Len(toClient) THEN toClient[i]
                               ELSE writing[i - Len(toClient)]
                BY <2>3, ConcatProperties
            <4> QED BY <4>1, <2>3
        <3>2. /\ a \in Seq(Nat) /\ Len(a) = Len(toClient) + 1
              /\ \A i \in 1 .. Len(toClient) : a[i] = toClient[i]
              /\ a[Len(toClient) + 1] = Len(toClient) + 1
            BY <2>3, AppendProperties
        <3>3. \A i \in 1 .. Len(c) : c[i] = a[i]
            BY <2>3, <2>5, <3>1, <3>2
        <3> HIDE DEF a, c
        <3>4. c = a
            BY <3>1, <3>2, <3>3, SeqEqual
        <3> QED BY <3>4 DEF a, c
    <2>7. DownStream!Give
        BY <2>1, <2>2, <2>3, <2>4, <2>6 DEF DownStream!Give
    <2> QED BY <2>7 DEF DownStream!Next
<1>3. CASE Main
    BY <1>3, MainCloses DEF DownStream!Next, DownStream!Close
<1>4. CASE ~ ReadMessage /\ ~ WriteClient /\ ~ Main
    <2>1. taken'["server"] = taken["server"]
        <3>1. ReadClient => taken'["server"] = taken["server"]
            BY DEF ReadClient, RInv, TypeOK
        <3> QED BY <1>4, <3>1, Movers
    <2> QED BY <1>4, <2>1, Movers
<1> QED BY <1>1, <1>2, <1>3, <1>4

(***************************************************************************)
(* Through splitter, channels, batches, drain and abort, bridge_ws passes  *)
(* on in either direction what it read, in order and each piece once, and  *)
(* what it loses is a tail -- for any number of pieces.                    *)
(***************************************************************************)
THEOREM RelayIsTwoStreams == Spec => ImplementsStreams
<1>1. Init => UpStream!Init /\ DownStream!Init
    BY DEF Init, UpStream!Init, DownStream!Init
<1> QED BY <1>1, UpStepIsStream, DownStepIsStream, RelayInvariant, PTL
        DEF Spec, ImplementsStreams, UpStream!Spec, DownStream!Spec

-----------------------------------------------------------------------------
(* What the two streams come to *)

\* A stream passes on one more piece, or takes one.
LEMMA RowGrows ==
    ASSUME NEW t \in Nat, NEW g \in Seq(Nat), NEW t2, NEW g2,
           Len(g) <= t, Follows(g, 0),
           \/ t2 = t + 1 /\ g2 = g
           \/ Len(g) < t /\ g2 = Append(g, Len(g) + 1) /\ t2 = t
           \/ t2 = t /\ g2 = g
    PROVE  t2 \in Nat /\ g2 \in Seq(Nat) /\ Len(g2) <= t2 /\ Follows(g2, 0)
<1>1. Len(g) \in Nat
    BY LenProperties
<1>2. CASE Len(g) < t /\ g2 = Append(g, Len(g) + 1) /\ t2 = t
    <2>1. Len(g) + 1 \in Nat /\ 0 + Len(g) + 1 = Len(g) + 1
        BY <1>1
    <2>2. Follows(Append(g, Len(g) + 1), 0) /\ Len(Append(g, Len(g) + 1)) = Len(g) + 1
        BY <2>1, FollowsAppend
    <2>3. Append(g, Len(g) + 1) \in Seq(Nat)
        BY <2>1, AppendProperties
    <2> QED BY <1>1, <1>2, <2>2, <2>3
<1>3. CASE (t2 = t + 1 \/ t2 = t) /\ g2 = g
    BY <1>1, <1>3
<1> QED BY <1>2, <1>3

\* A row from the first piece on.
LEMMA FromTheFirst == \A g : Follows(g, 0) <=> \A i \in 1 .. Len(g) : g[i] = 0 + i
BY DEF Follows

(***************************************************************************)
(* Whatever closes, fails, stalls or is aborted, and whenever: the server  *)
(* has been sent a beginning of what was read from the client, and the     *)
(* client a beginning of what was read from the server -- no piece is      *)
(* missing in between, none comes twice or too early.                      *)
(***************************************************************************)
THEOREM OnlyTailsAreLost ==
    Spec => [](UpStream!OnlyATailIsMissing /\ DownStream!OnlyATailIsMissing)
<1> DEFINE UpInv == /\ taken["client"] \in Nat /\ toServer \in Seq(Nat)
                    /\ Len(toServer) <= taken["client"] /\ Follows(toServer, 0)
           DownInv == /\ taken["server"] \in Nat /\ toClient \in Seq(Nat)
                      /\ Len(toClient) <= taken["server"] /\ Follows(toClient, 0)
<1>1. UpStream!Init => UpInv
    BY EmptySeq, NothingFollows DEF UpStream!Init
<1>2. UpInv /\ [UpStream!Next]_(UpStream!vars) => UpInv'
    <2> SUFFICES ASSUME UpInv, [UpStream!Next]_(UpStream!vars) PROVE UpInv'
        OBVIOUS
    <2>1. \/ taken'["client"] = taken["client"] + 1 /\ toServer' = toServer
          \/ /\ Len(toServer) < taken["client"]
             /\ toServer' = Append(toServer, Len(toServer) + 1)
             /\ taken'["client"] = taken["client"]
          \/ taken'["client"] = taken["client"] /\ toServer' = toServer
        BY DEF UpStream!Next, UpStream!Take, UpStream!Give, UpStream!Close, UpStream!vars
    <2>2. /\ taken'["client"] \in Nat /\ toServer' \in Seq(Nat)
          /\ Len(toServer') <= taken'["client"] /\ Follows(toServer', 0)
        BY <2>1, RowGrows
    <2> QED BY <2>2
<1>3. DownStream!Init => DownInv
    BY EmptySeq, NothingFollows DEF DownStream!Init
<1>4. DownInv /\ [DownStream!Next]_(DownStream!vars) => DownInv'
    <2> SUFFICES ASSUME DownInv, [DownStream!Next]_(DownStream!vars) PROVE DownInv'
        OBVIOUS
    <2>1. \/ taken'["server"] = taken["server"] + 1 /\ toClient' = toClient
          \/ /\ Len(toClient) < taken["server"]
             /\ toClient' = Append(toClient, Len(toClient) + 1)
             /\ taken'["server"] = taken["server"]
          \/ taken'["server"] = taken["server"] /\ toClient' = toClient
        BY DEF DownStream!Next, DownStream!Take, DownStream!Give, DownStream!Close,
               DownStream!vars
    <2>2. /\ taken'["server"] \in Nat /\ toClient' \in Seq(Nat)
          /\ Len(toClient') <= taken'["server"] /\ Follows(toClient', 0)
        BY <2>1, RowGrows
    <2> QED BY <2>2
<1>5. UpInv /\ DownInv =>
        UpStream!OnlyATailIsMissing /\ DownStream!OnlyATailIsMissing
    BY FromTheFirst DEF UpStream!OnlyATailIsMissing, DownStream!OnlyATailIsMissing
<1> QED BY <1>1, <1>2, <1>3, <1>4, <1>5, RelayIsTwoStreams, PTL
        DEF ImplementsStreams, UpStream!Spec, DownStream!Spec
=============================================================================
