----------------------------- MODULE MCSessions -----------------------------
(* Sessions on a small instance.                                           *)
EXTENDS Sessions, TLC

CONSTANTS talker, visitor, caller

Sent == talker :> 5 @@ visitor :> 0 @@ caller :> 0

\* With a handshake at once and after a piece that is none of it, and an HTTP
\* body longer than the buffer.
Kinds ==
    {[looks |-> "mtproto", junk |-> 0], [looks |-> "mtproto", junk |-> 1],
     [looks |-> "http", header |-> 1, body |-> 4], [looks |-> "tls"], [looks |-> "other"]}

Plain == {[looks |-> "other"]}

StreamsHere == talker :> Kinds @@ visitor :> Plain @@ caller :> Plain
=============================================================================
