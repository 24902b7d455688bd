-------------------------------- MODULE Relay -------------------------------
(***************************************************************************)
(* One session in bridge_ws (bridge.rs): five tasks between the client's   *)
(* socket and the WebSocket, joined by three bounded channels, and the     *)
(* body of bridge_ws that waits for the first direction to end or for the  *)
(* idle guard, drains the other one and aborts the rest.                   *)
(*                                                                         *)
(*   client -> up -> sendq -> sender -> WebSocket                          *)
(*   client <- down <- recvq <- receiver <- WebSocket                      *)
(*   ping driver, receiver -> pongs -> sender                              *)
(*                                                                         *)
(* Data are pieces numbered in the order they were read: a packet of the   *)
(* splitter upwards, a WebSocket message downwards.  Encryption is left    *)
(* out.  The peers may stop reading, send, close or fail at any moment: a  *)
(* write that does not happen is a step that is not taken.                 *)
(*                                                                         *)
(* ReleasedReversed, SendRoomOneLate, TakePingsFirst, PingTouches and      *)
(* OtherEndedAtOnce are faulty variants of the definitions they precede.   *)
(***************************************************************************)
EXTENDS Naturals, Sequences, SequencesExt

CONSTANTS
    Idle,         \* session_idle_timeout() in ticks, when there is one
    Drain,        \* DRAIN_ON_CLOSE in ticks
    ChannelCap,   \* WS_CHANNEL_CAP
    BatchMax,     \* WS_SEND_BATCH_MAX
    PongCap,      \* capacity of the channel of pings and pongs
    Pieces        \* bound: pieces that come from each side

ASSUME RelayAssumption ==
    /\ Idle \in Nat \ {0} /\ Drain \in Nat \ {0}
    /\ ChannelCap \in Nat \ {0} /\ BatchMax \in Nat \ {0}
    /\ PongCap \in Nat \ {0} /\ Pieces \in Nat

VARIABLES
    guarded,   \* session_idle_timeout() is not None
    phase,     \* what bridge_ws waits for: the first end, the end of the
               \* other direction ("drainUp", "drainDown"), nothing any more
    outcome,   \* history: how it ended
    quiet,     \* Activity: ticks since the last touch
    waited,    \* ticks since the drain began
    up,        \* task up: "read", "send" parts, "flush" after the end, "ended"
    held,      \* what the splitter keeps of an unfinished packet
    parts,     \* packets up has still to put on the channel
    sendq,     \* the channel send_tx -> send_rx
    sender,    \* ws_send_driver
    batch,     \* what it is writing
    pongs,     \* the channel pong_tx -> pong_rx, control frames by number
    receiver,  \* ws_recv_driver: "read", "pong" (has one to send), "ended"
    message,   \* the message it has still to put on the channel
    recvq,     \* the channel recv_tx -> recv_rx
    down,      \* task down
    writing,   \* what it is writing to the client
    taken,     \* history: pieces read from the client and from the WebSocket
    toServer,  \* history: what the WebSocket accepted
    toClient,  \* history: what the client's socket accepted
    broken     \* history: the sides a write failed towards

upward == <<up, held, parts>>
sending == <<sender, batch>>
receiving == <<receiver, message>>
downward == <<down, writing>>
clock == <<quiet, waited>>
main == <<guarded, phase, outcome>>
record == <<taken, toServer, toClient, broken>>
vars == <<guarded, phase, outcome, quiet, waited, up, held, parts, sendq, sender, batch,
          pongs, receiver, message, recvq, down, writing, taken, toServer,
          toClient, broken>>

Piece == 1 .. Pieces

TypeOK ==
    /\ guarded \in BOOLEAN
    /\ phase \in {"relay", "drainUp", "drainDown", "over"}
    /\ outcome \in {"none", "drained", "late", "idle"}
    /\ quiet \in 0 .. Idle /\ waited \in 0 .. Drain
    /\ up \in {"read", "send", "flush", "ended"}
    /\ held \in Seq(Piece) /\ parts \in Seq(Piece)
    /\ sendq \in Seq(Piece) /\ Len(sendq) <= ChannelCap
    /\ sender \in {"run", "ended"}
    /\ batch \in Seq(Piece) /\ Len(batch) <= BatchMax
    /\ pongs \in 0 .. PongCap
    /\ receiver \in {"read", "pong", "ended"}
    /\ message \in Seq(Piece) /\ Len(message) <= 1
    /\ recvq \in Seq(Piece) /\ Len(recvq) <= ChannelCap
    /\ down \in {"run", "ended"}
    /\ writing \in Seq(Piece) /\ Len(writing) <= 1
    /\ taken \in [{"client", "server"} -> 0 .. Pieces]
    /\ toServer \in Seq(Piece) /\ toClient \in Seq(Piece)
    /\ broken \subseteq {"client", "server"}

Init ==
    /\ guarded \in BOOLEAN
    /\ phase = "relay" /\ outcome = "none"
    /\ quiet = 0 /\ waited = 0
    /\ up = "read" /\ held = <<>> /\ parts = <<>>
    /\ sendq = <<>> /\ sender = "run" /\ batch = <<>> /\ pongs = 0
    /\ receiver = "read" /\ message = <<>> /\ recvq = <<>>
    /\ down = "run" /\ writing = <<>>
    /\ taken = [side \in {"client", "server"} |-> 0]
    /\ toServer = <<>> /\ toClient = <<>> /\ broken = {}

-----------------------------------------------------------------------------
(* The task up *)

\* What the splitter lets go of its buffer b: any number of whole packets
\* (without a splitter, all of it).
ReleasedReversed(b, n) == Reverse(SubSeq(b, 1, n))
Released(b, n) == SubSeq(b, 1, n)

ReadClient ==
    /\ up = "read" /\ taken["client"] < Pieces
    /\ taken' = [taken EXCEPT !["client"] = @ + 1]
    /\ quiet' = 0
    /\ LET b == Append(held, taken["client"] + 1) IN
       \E n \in 0 .. Len(b) :
          /\ parts' = Released(b, n)
          /\ held' = SubSeq(b, n + 1, Len(b))
          /\ up' = IF n = 0 THEN "read" ELSE "send"
    /\ UNCHANGED <<main, waited, sendq, sending, pongs, receiving, recvq,
                   downward, toServer, toClient, broken>>

\* The client closes or its socket fails: flush() of the splitter.
ClientEnds ==
    /\ up = "read"
    /\ parts' = held /\ held' = <<>>
    /\ up' = IF held = <<>> THEN "ended" ELSE "flush"
    /\ UNCHANGED <<main, clock, sendq, sending, pongs, receiving, recvq,
                   downward, record>>

SendRoomOneLate == Len(sendq) <= ChannelCap
SendRoom == Len(sendq) < ChannelCap

PutPart ==
    /\ parts # <<>> /\ sender = "run" /\ SendRoom
    /\ sendq' = Append(sendq, Head(parts))
    /\ parts' = Tail(parts)
    /\ up' = IF Len(parts) > 1 THEN up
             ELSE IF up = "send" THEN "read" ELSE "ended"
    /\ UNCHANGED <<main, clock, held, sending, pongs, receiving, recvq,
                   downward, record>>

\* Nobody receives any more: up returns, or its flush comes to nothing.
PutPartFails ==
    /\ parts # <<>> /\ sender = "ended"
    /\ parts' = <<>> /\ held' = <<>> /\ up' = "ended"
    /\ UNCHANGED <<main, clock, sendq, sending, pongs, receiving, recvq,
                   downward, record>>

(* ws_send_driver *)

TakePingsFirst == batch = <<>> /\ pongs = 0
MayTake == batch = <<>>

TakeBatch ==
    /\ sender = "run" /\ MayTake /\ sendq # <<>>
    /\ LET n == Min({BatchMax, Len(sendq)}) IN
       /\ batch' = SubSeq(sendq, 1, n)
       /\ sendq' = SubSeq(sendq, n + 1, Len(sendq))
    /\ UNCHANGED <<main, clock, upward, sender, pongs, receiving, recvq,
                   downward, record>>

\* send_binary and send_batch write frame by frame.
WritePiece ==
    /\ batch # <<>>
    /\ toServer' = Append(toServer, Head(batch))
    /\ batch' = Tail(batch)
    /\ UNCHANGED <<main, clock, upward, sendq, sender, pongs, receiving, recvq,
                   downward, taken, toClient, broken>>

WriteControl ==
    /\ sender = "run" /\ batch = <<>> /\ pongs > 0
    /\ pongs' = pongs - 1
    /\ UNCHANGED <<main, clock, upward, sendq, sending, receiving, recvq,
                   downward, record>>

\* The driver ends and both its channels with it.
SenderGone ==
    /\ sender' = "ended" /\ batch' = <<>> /\ sendq' = <<>> /\ pongs' = 0

WriteFails ==
    /\ sender = "run" /\ (batch # <<>> \/ pongs > 0)
    /\ SenderGone
    /\ broken' = broken \cup {"server"}
    /\ UNCHANGED <<main, clock, upward, receiving, recvq, downward, taken,
                   toServer, toClient>>

\* recv() gives None: up is gone and bridge_ws has dropped its own send_tx.
SenderEnds ==
    /\ sender = "run" /\ batch = <<>> /\ sendq = <<>>
    /\ up = "ended" /\ phase # "relay"
    /\ SenderGone
    /\ UNCHANGED <<main, clock, upward, receiving, recvq, downward, record>>

(* ping_driver *)

Ping ==
    /\ sender = "run" /\ pongs < PongCap
    /\ pongs' = pongs + 1
    /\ UNCHANGED <<main, clock, upward, sendq, sending, receiving, recvq,
                   downward, record>>

(* ws_recv_driver *)

ReadMessage ==
    /\ receiver = "read" /\ message = <<>> /\ taken["server"] < Pieces
    /\ taken' = [taken EXCEPT !["server"] = @ + 1]
    /\ message' = <<taken["server"] + 1>>
    /\ UNCHANGED <<main, clock, upward, sendq, sending, pongs, receiver, recvq,
                   downward, toServer, toClient, broken>>

\* A ping of the server; its pongs are skipped over.
PingTouches == quiet' = 0 /\ UNCHANGED waited
PingLeavesClock == UNCHANGED clock

ReadPing ==
    /\ receiver = "read" /\ message = <<>>
    /\ receiver' = "pong"
    /\ PingLeavesClock
    /\ UNCHANGED <<main, upward, sendq, sending, pongs, message, recvq,
                   downward, record>>

PutPong ==
    /\ receiver = "pong" /\ sender = "run" /\ pongs < PongCap
    /\ pongs' = pongs + 1
    /\ receiver' = "read"
    /\ UNCHANGED <<main, clock, upward, sendq, sending, message, recvq,
                   downward, record>>

PutMessage ==
    /\ message # <<>> /\ down = "run" /\ Len(recvq) < ChannelCap
    /\ recvq' = recvq \o message
    /\ message' = <<>>
    /\ UNCHANGED <<main, clock, upward, sendq, sending, pongs, receiver,
                   downward, record>>

\* The server closes or its socket fails, the writer of pongs or the reader
\* of messages is gone.
ReceiverEnds ==
    /\ \/ receiver = "read" /\ message = <<>>
       \/ receiver = "pong" /\ sender = "ended"
       \/ message # <<>> /\ down = "ended"
    /\ receiver' = "ended" /\ message' = <<>>
    /\ UNCHANGED <<main, clock, upward, sendq, sending, pongs, recvq, downward,
                   record>>

(* The task down *)

TakeMessage ==
    /\ down = "run" /\ writing = <<>> /\ recvq # <<>>
    /\ writing' = <<Head(recvq)>>
    /\ recvq' = Tail(recvq)
    /\ quiet' = 0
    /\ UNCHANGED <<main, waited, upward, sendq, sending, pongs, receiving, down,
                   record>>

WriteClient ==
    /\ writing # <<>>
    /\ toClient' = toClient \o writing
    /\ writing' = <<>>
    /\ UNCHANGED <<main, clock, upward, sendq, sending, pongs, receiving, recvq,
                   down, taken, toServer, broken>>

WriteClientFails ==
    /\ writing # <<>>
    /\ writing' = <<>> /\ down' = "ended" /\ recvq' = <<>>
    /\ broken' = broken \cup {"client"}
    /\ UNCHANGED <<main, clock, upward, sendq, sending, pongs, receiving, taken,
                   toServer, toClient>>

\* recv() gives None: the channel is empty and its sender gone.
DownEnds ==
    /\ down = "run" /\ writing = <<>> /\ recvq = <<>> /\ receiver = "ended"
    /\ down' = "ended"
    /\ UNCHANGED <<main, clock, upward, sendq, sending, pongs, receiving, recvq,
                   writing, record>>

(* The body of bridge_ws *)

\* One direction ended first; the other one may flush what it already read,
\* until it ends (Drained) or its time is up (DrainExpires).
DirectionEnds ==
    /\ phase = "relay"
    /\ \/ up = "ended" /\ phase' = "drainDown"
       \/ down = "ended" /\ phase' = "drainUp"
    /\ waited' = 0
    /\ UNCHANGED <<guarded, outcome, quiet, upward, sendq, sending, pongs, receiving,
                   recvq, downward, record>>

\* Everything that still runs is aborted.
Abort(how) ==
    /\ phase' = "over" /\ outcome' = how
    /\ up' = "ended" /\ held' = <<>> /\ parts' = <<>>
    /\ SenderGone
    /\ receiver' = "ended" /\ message' = <<>> /\ recvq' = <<>>
    /\ down' = "ended" /\ writing' = <<>>
    /\ UNCHANGED <<guarded, clock, record>>

OtherEndedAtOnce == phase \in {"drainUp", "drainDown"}
OtherEnded ==
    \/ phase = "drainUp" /\ up = "ended"
    \/ phase = "drainDown" /\ down = "ended"

Drained == OtherEnded /\ Abort("drained")

DrainExpires ==
    /\ phase \in {"drainUp", "drainDown"} /\ ~ OtherEnded
    /\ waited = Drain
    /\ Abort("late")

IdleFires ==
    /\ guarded /\ phase = "relay" /\ quiet = Idle
    /\ Abort("idle")

AtMost(n, bound) == IF n < bound THEN n + 1 ELSE bound

Tick ==
    /\ phase # "over"
    /\ quiet' = AtMost(quiet, Idle)
    /\ waited' = IF phase = "relay" THEN 0 ELSE AtMost(waited, Drain)
    /\ UNCHANGED <<main, upward, sendq, sending, pongs, receiving, recvq,
                   downward, record>>

-----------------------------------------------------------------------------
Up == ReadClient \/ ClientEnds \/ PutPart \/ PutPartFails

Sender == TakeBatch \/ WritePiece \/ WriteControl \/ WriteFails \/ SenderEnds

Receiver == ReadMessage \/ ReadPing \/ PutPong \/ PutMessage \/ ReceiverEnds

Down == TakeMessage \/ WriteClient \/ WriteClientFails \/ DownEnds

Main == DirectionEnds \/ Drained \/ DrainExpires \/ IdleFires

\* The session's task has returned.
Stopped == phase = "over" /\ UNCHANGED vars

Next == Up \/ Sender \/ Ping \/ Receiver \/ Down \/ Main \/ Tick \/ Stopped

Spec == Init /\ [][Next]_vars

(***************************************************************************)
(* Fairness.  bridge_ws is polled when what it waits for has come, and the *)
(* clock runs; nothing is asked of the peers, nor of the tasks that wait   *)
(* for them.  CoOperative asks that the server keeps accepting what it is  *)
(* sent and that tokio, whose select! has no bias, comes to either channel *)
(* of the driver.                                                          *)
(***************************************************************************)
FairSpec == Spec /\ WF_vars(Main) /\ WF_vars(Tick)

CoOperative ==
    /\ WF_vars(PutPart) /\ WF_vars(TakeBatch) /\ WF_vars(WritePiece)
    /\ WF_vars(PutPartFails)

-----------------------------------------------------------------------------
UpStream == INSTANCE Stream WITH
    taken <- taken["client"], given <- toServer, open <- phase # "over"

DownStream == INSTANCE Stream WITH
    taken <- taken["server"], given <- toClient, open <- phase # "over"

(***************************************************************************)
(* Through splitter, channels, batches, drain and abort, either direction  *)
(* passes on what it read in order, each piece once, and nothing after the *)
(* session ended: what is lost is a tail.                                  *)
(***************************************************************************)
ImplementsStreams == UpStream!Spec /\ DownStream!Spec

(***************************************************************************)
(* "an instant abort would drop the tail of the session": when the drain   *)
(* ended in time, the client got every message read from the server,       *)
(* unless its own socket failed, whatever became of the other direction.   *)
(***************************************************************************)
DownTailArrives ==
    outcome = "drained" /\ "client" \notin broken =>
        Len(toClient) = taken["server"]

(***************************************************************************)
(* session_idle_timeout(): a session in which no payload moves any more is *)
(* torn down, whoever is blocked on whom and even if the server goes on    *)
(* answering and sending pings.                                            *)
(***************************************************************************)
Moves == ReadClient \/ TakeMessage

SilentSessionEnds == guarded /\ <>[][~ Moves]_vars => <>(phase = "over")

(***************************************************************************)
(* As long as the server accepts what it is sent, a packet on its way to   *)
(* it arrives, with or without the idle guard, or the session ends: pings  *)
(* and pongs do not starve it.                                             *)
(***************************************************************************)
PacketsArrive ==
    CoOperative =>
        \A n \in Piece :
            n \in Range(parts \o sendq \o batch) ~>
                n \in Range(toServer) \/ phase = "over" \/ sender = "ended"
=============================================================================
