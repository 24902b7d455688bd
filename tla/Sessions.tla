------------------------------ MODULE Sessions ------------------------------
(***************************************************************************)
(* The daemon around its sessions: the accept loop with its cap on         *)
(* connections and its watchdog (watchdog.rs), and what becomes of one     *)
(* connection and its permit -- the incremental read of the init           *)
(* (handshake.rs), the hand-over of what was read to a bridge or to a      *)
(* passthrough (main.rs, bridge.rs) and the end of the relay.              *)
(*                                                                         *)
(* What a client sends is a run of pieces, numbered as it sends them.  The *)
(* rungs of the ladder are Ladder, a bridge's tasks are Relay; here a rung *)
(* succeeds or fails and a relay takes a piece after the other.            *)
(*                                                                         *)
(* Linux does not bind a second socket to an address another one listens   *)
(* on, SO_REUSEADDR or not, and the old listener is dropped only once the  *)
(* new one is bound: a rebind can succeed only when the old socket no      *)
(* longer listens.                                                         *)
(*                                                                         *)
(* DoubledUncapped, ReleasedNever and HandshakeOnly are faulty variants of *)
(* the definitions they precede.                                           *)
(***************************************************************************)
EXTENDS Naturals, Sequences, SequencesExt, FiniteSets

CONSTANTS
    Clients,
    Cap,            \* max_conns()
    RebindAfter,    \* REBIND_AFTER_ERRORS
    FirstBackoff,   \* ACCEPT_ERROR_BACKOFF and REBIND_MAX_BACKOFF, in ticks
    MaxBackoff,
    HandshakeLen,   \* HANDSHAKE_LEN and INIT_READ_MAX, in pieces
    InitMax,
    StreamsOf,      \* what each client may send, see StreamKinds
    SentBy,         \* bound: the pieces each client sends
    MaxFaults       \* bound: how often the listener or a rebind fails

\* A handshake begins after `junk' pieces; an HTTP request is a header and a
\* body of this many; TLS shows from the first piece, other data never.
StreamKinds ==
    [looks : {"mtproto"}, junk : Nat] \cup [looks : {"http"}, header : Nat, body : Nat]
        \cup [looks : {"tls", "other"}]

ASSUME SessionsAssumption ==
    /\ Cap \in Nat \ {0} /\ RebindAfter \in Nat \ {0}
    /\ MaxBackoff \in Nat /\ FirstBackoff \in 1 .. MaxBackoff
    /\ HandshakeLen \in 1 .. InitMax /\ InitMax \in Nat
    /\ \A c \in Clients : StreamsOf[c] # {} /\ StreamsOf[c] \subseteq StreamKinds
    /\ SentBy \in [Clients -> Nat]
    /\ MaxFaults \in Nat

VARIABLES
    loop,      \* where serve_with_cap() is
    permits,   \* of the semaphore
    errors,    \* errors of accept() in a row
    backoff,   \* rebind_backoff
    listener,  \* "up", "starved" (listens, accept() fails), "dead"
    backlog,   \* the kernel's queue of connections
    faults,    \* how many there have been
    phase,     \* phase[c]: where its connection is
    stream,    \* what the client sends
    taken,     \* pieces read from its socket
    ahead,     \* pieces read and not yet given to an upstream
    given,     \* pieces its upstream has been given
    silent     \* nothing moves any more, but both sockets stay alive

loopVars == <<loop, permits, errors, backoff>>
netVars == <<listener, backlog, faults>>
dataVars == <<stream, taken, ahead, given>>
vars == <<loopVars, netVars, phase, dataVars, silent>>

Guarded == {"bridge", "tunnel"}
Relaying == Guarded \cup {"front"}
Served == {"init", "http", "ladder", "passthrough"} \cup Relaying

TypeOK ==
    /\ loop \in {"permit", "accept", "nap", "rebind", "backoff"}
    /\ permits \in 0 .. Cap
    /\ errors \in 0 .. RebindAfter + 1
    /\ backoff \in FirstBackoff .. MaxBackoff
    /\ listener \in {"up", "starved", "dead"}
    /\ backlog \in Seq(Clients)
    /\ faults \in 0 .. MaxFaults
    /\ phase \in [Clients -> {"away", "backlog"} \cup Served]
    /\ \A c \in Clients : stream[c] \in StreamsOf[c]
    /\ \A c \in Clients : taken[c] \in 0 .. SentBy[c]
    /\ \A c \in Clients : ahead[c] \in Seq(1 .. SentBy[c])
    /\ \A c \in Clients : given[c] \in Seq(1 .. SentBy[c])
    /\ silent \subseteq Clients

Init ==
    /\ loop = "permit" /\ permits = Cap /\ errors = 0 /\ backoff = FirstBackoff
    /\ listener = "up" /\ backlog = <<>> /\ faults = 0
    /\ phase = [c \in Clients |-> "away"]
    /\ stream = [c \in Clients |-> CHOOSE s \in StreamsOf[c] : TRUE]
    /\ taken = [c \in Clients |-> 0]
    /\ ahead = [c \in Clients |-> <<>>] /\ given = [c \in Clients |-> <<>>]
    /\ silent = {}

Goto(c, there) == phase' = [phase EXCEPT ![c] = there]

-----------------------------------------------------------------------------
\* serve_with_cap().

Reserve ==
    /\ loop = "permit" /\ permits > 0
    /\ permits' = permits - 1
    /\ loop' = "accept"
    /\ UNCHANGED <<errors, backoff, netVars, phase, dataVars, silent>>

\* The task owns the permit from here on.
Accept ==
    /\ loop = "accept" /\ listener = "up" /\ backlog # <<>>
    /\ backlog' = Tail(backlog)
    /\ Goto(Head(backlog), "init")
    /\ errors' = 0
    /\ loop' = "permit"
    /\ UNCHANGED <<permits, backoff, listener, faults, dataVars, silent>>

\* "don't hold a slot while backing off".
ReleasedNever == permits
Released == permits + 1

AcceptFails ==
    /\ loop = "accept" /\ listener # "up"
    /\ permits' = Released
    /\ errors' = errors + 1
    /\ loop' = "nap"
    /\ UNCHANGED <<backoff, netVars, phase, dataVars, silent>>

NapEnds ==
    /\ loop = "nap"
    /\ loop' = IF errors >= RebindAfter THEN "rebind" ELSE "permit"
    /\ UNCHANGED <<permits, errors, backoff, netVars, phase, dataVars, silent>>

Rebind ==
    /\ loop = "rebind" /\ listener = "dead"
    /\ listener' = "up"
    /\ errors' = 0 /\ backoff' = FirstBackoff
    /\ loop' = "permit"
    /\ UNCHANGED <<permits, backlog, faults, phase, dataVars, silent>>

Lesser(a, b) == IF a < b THEN a ELSE b
DoubledUncapped == 2 * backoff
Doubled == Lesser(2 * backoff, MaxBackoff)

\* The address is still taken, or the socket cannot be had.
RebindFails ==
    /\ loop = "rebind"
    /\ IF listener = "dead" THEN faults < MaxFaults /\ faults' = faults + 1
       ELSE UNCHANGED faults
    /\ loop' = "backoff"
    /\ UNCHANGED <<permits, errors, backoff, listener, backlog, phase, dataVars, silent>>

\* "stay armed to retry": the next accept() that fails is followed by another.
BackoffEnds ==
    /\ loop = "backoff"
    /\ backoff' = Doubled
    /\ errors' = RebindAfter
    /\ loop' = "permit"
    /\ UNCHANGED <<permits, netVars, phase, dataVars, silent>>

LoopStep ==
    \/ Reserve \/ Accept \/ AcceptFails \/ NapEnds
    \/ Rebind \/ RebindFails \/ BackoffEnds

-----------------------------------------------------------------------------
\* The kernel and the clients.

Arrive(c) ==
    /\ phase[c] = "away" /\ listener # "dead"
    /\ Goto(c, "backlog")
    /\ backlog' = Append(backlog, c)
    /\ \E s \in StreamsOf[c] : stream' = [stream EXCEPT ![c] = s]
    /\ UNCHANGED <<loopVars, listener, faults, taken, ahead, given, silent>>

\* No descriptors are left; then there are again.
Starves ==
    /\ listener = "up" /\ faults < MaxFaults
    /\ listener' = "starved" /\ faults' = faults + 1
    /\ UNCHANGED <<loopVars, backlog, phase, dataVars, silent>>

Recovers ==
    /\ listener = "starved"
    /\ listener' = "up"
    /\ UNCHANGED <<loopVars, backlog, faults, phase, dataVars, silent>>

\* The socket no longer listens: what was queued on it is reset.
Dies ==
    /\ listener # "dead" /\ faults < MaxFaults
    /\ listener' = "dead" /\ faults' = faults + 1
    /\ backlog' = <<>>
    /\ phase' = [c \in Clients |-> IF phase[c] = "backlog" THEN "away" ELSE phase[c]]
    /\ UNCHANGED <<loopVars, dataVars, silent>>

-----------------------------------------------------------------------------
\* One connection: handle_conn().

Pieces(i, j) == [n \in 1 .. (j + 1 - i) |-> i + n - 1]

Junk(c) == IF stream[c].looks = "mtproto" THEN stream[c].junk ELSE 0

\* read_init_buffer(): what the pieces read so far are taken for.
Sees(c, n) ==
    IF stream[c].looks = "http" /\ n >= stream[c].header THEN "http"
    ELSE IF stream[c].looks = "tls" /\ n >= 1 THEN "passthrough"
    ELSE IF stream[c].looks = "mtproto" /\ n >= stream[c].junk + HandshakeLen THEN "ladder"
    ELSE IF n = InitMax THEN "passthrough" ELSE "init"

ReadTo(c, n) ==
    /\ n > taken[c] /\ n <= Lesser(InitMax, SentBy[c])
    /\ taken' = [taken EXCEPT ![c] = n]

\* A piece of the init; past the handshake it stays in the PrefixedStream.
ReadsInit(c) ==
    /\ phase[c] = "init"
    /\ \E n \in 1 .. InitMax :
          /\ ReadTo(c, n)
          /\ Goto(c, Sees(c, n))
          /\ ahead' = [ahead EXCEPT ![c] =
                IF Sees(c, n) = "ladder" THEN Pieces(Junk(c) + HandshakeLen + 1, n)
                ELSE Pieces(1, n)]
    /\ UNCHANGED <<loopVars, netVars, stream, given, silent>>

\* read_full_http_request(): the body, as far as the buffer goes.
ReadsBody(c) ==
    /\ phase[c] = "http"
    /\ LET total == Lesser(stream[c].header + stream[c].body, InitMax)
       IN  IF taken[c] >= total
           THEN Goto(c, "passthrough") /\ UNCHANGED <<taken, ahead>>
           ELSE \E n \in 1 .. total :
                    /\ ReadTo(c, n)
                    /\ ahead' = [ahead EXCEPT ![c] = Pieces(1, n)]
                    /\ UNCHANGED phase
    /\ UNCHANGED <<loopVars, netVars, stream, given, silent>>

\* INIT_READ_STEP or INIT_READ_TOTAL is over, or the client's side has ended.
ReadEnds(c) ==
    /\ phase[c] \in {"init", "http"}
    /\ Goto(c, "passthrough")
    /\ UNCHANGED <<loopVars, netVars, dataVars, silent>>

\* A rung connects: the upstream gets an init of its own instead of the
\* handshake.
Bridges(c) ==
    /\ phase[c] = "ladder"
    /\ Goto(c, "bridge")
    /\ UNCHANGED <<loopVars, netVars, dataVars, silent>>

\* No data centre or no rung: blind_relay() with what was read.
HandshakeOnly(c) == Pieces(Junk(c) + 1, Junk(c) + HandshakeLen)
Replayed(c) == Pieces(Junk(c) + 1, Junk(c) + HandshakeLen) \o ahead[c]

PassesOn(c) ==
    /\ phase[c] = "ladder"
    /\ Goto(c, "passthrough")
    /\ ahead' = [ahead EXCEPT ![c] = Replayed(c)]
    /\ UNCHANGED <<loopVars, netVars, stream, taken, given, silent>>

\* A Worker or the front takes the initial bytes.  A Worker that fails leaves
\* them as they are for the next.
Tunnels(c) ==
    /\ phase[c] = "passthrough"
    /\ \/ Goto(c, "tunnel") \/ Goto(c, "front")
    /\ given' = [given EXCEPT ![c] = ahead[c]]
    /\ ahead' = [ahead EXCEPT ![c] = <<>>]
    /\ UNCHANGED <<loopVars, netVars, stream, taken, silent>>

\* The upward direction: PrefixedStream::poll_read(), then the socket.
Relays(c) ==
    /\ phase[c] \in Relaying /\ c \notin silent
    /\ IF ahead[c] # <<>>
       THEN \E n \in 1 .. Len(ahead[c]) :
                /\ given' = [given EXCEPT ![c] = @ \o SubSeq(ahead[c], 1, n)]
                /\ ahead' = [ahead EXCEPT ![c] = SubSeq(@, n + 1, Len(@))]
                /\ UNCHANGED taken
       ELSE /\ taken[c] < SentBy[c]
            /\ taken' = [taken EXCEPT ![c] = @ + 1]
            /\ given' = [given EXCEPT ![c] = Append(@, taken[c] + 1)]
            /\ UNCHANGED ahead
    /\ UNCHANGED <<loopVars, netVars, phase, stream, silent>>

\* "silent in both directions while its sockets stayed alive".
FallsSilent(c) ==
    /\ phase[c] \in Relaying
    /\ silent' = silent \cup {c}
    /\ UNCHANGED <<loopVars, netVars, phase, dataVars>>

\* handle_conn() returns: the task ends and drops the permit.
Ends(c) ==
    /\ Goto(c, "away")
    /\ permits' = permits + 1
    /\ taken' = [taken EXCEPT ![c] = 0]
    /\ ahead' = [ahead EXCEPT ![c] = <<>>] /\ given' = [given EXCEPT ![c] = <<>>]
    /\ silent' = silent \ {c}
    /\ UNCHANGED <<loop, errors, backoff, netVars, stream>>

\* The connection is to the listener itself, or no target of the front answers.
Drops(c) ==
    /\ \/ phase[c] = "init" /\ taken[c] = 0
       \/ phase[c] = "passthrough"
    /\ Ends(c)

\* A side closes.
Closes(c) ==
    /\ phase[c] \in Relaying /\ c \notin silent
    /\ Ends(c)

\* The idle guard, which the front passthrough has not.
Reaped(c) ==
    /\ phase[c] \in Guarded /\ c \in silent
    /\ Ends(c)

\* What time limits bring about, or a client that leaves some day.
Progress(c) ==
    \/ ReadEnds(c) \/ Bridges(c) \/ PassesOn(c) \/ Tunnels(c)
    \/ Drops(c) \/ Closes(c) \/ Reaped(c)

Connection(c) ==
    \/ ReadsInit(c) \/ ReadsBody(c) \/ Relays(c) \/ FallsSilent(c) \/ Progress(c)

Next ==
    \/ LoopStep
    \/ \E c \in Clients : Arrive(c) \/ Connection(c)
    \/ Starves \/ Recovers \/ Dies

Fairness ==
    /\ WF_vars(LoopStep) /\ WF_vars(Recovers)
    /\ \A c \in Clients : WF_vars(Progress(c))

Spec == Init /\ [][Next]_vars /\ Fairness

-----------------------------------------------------------------------------
(***************************************************************************)
(* However the init arrives in pieces, whatever it is taken for and        *)
(* whichever rungs fail before, the upstream a session ends up with is     *)
(* given the client's bytes in order, none twice and none left out, from   *)
(* the first (a passthrough may leave out what came before a handshake) or *)
(* from the one after the handshake (a bridge) to the last that was read:  *)
(* "dropping them would leave the session hung" (blind_relay_prefixed).    *)
(***************************************************************************)
EveryByteOnce ==
    \A c \in Clients : phase[c] \in Relaying =>
        LET first == taken[c] + 1 - Len(given[c] \o ahead[c])
        IN  /\ given[c] \o ahead[c] = Pieces(first, taken[c])
            /\ IF phase[c] = "bridge" THEN first = Junk(c) + HandshakeLen + 1
               ELSE first <= Junk(c) + 1

\* Every permit is held by a front passthrough nothing moves on any more.
Wedged == Cardinality({c \in silent : phase[c] = "front"}) = Cap

(***************************************************************************)
(* Whatever has become of the sessions before it and of the listener, a    *)
(* client that waits in the backlog is accepted: permits come back on      *)
(* every path, the loop gets over failed accepts and rebinds, and of all   *)
(* sessions only front passthroughs that fell silent can use up the cap,   *)
(* which "enough accumulate over a day and wedge the proxy" says of        *)
(* sessions without the idle guard (session_idle_timeout).                 *)
(***************************************************************************)
EveryClientIsServed ==
    []<>(~ Wedged) => \A c \in Clients : phase[c] = "backlog" ~> phase[c] # "backlog"

(***************************************************************************)
(* The safety half of that: whenever the loop finds no permit, all are     *)
(* with sessions, and unless the cap is wedged one of these is on a path   *)
(* that ends by itself: a read with a time limit, a rung, a relay that     *)
(* still moves or one under the idle guard.                                *)
(***************************************************************************)
OnlyFrontsWedge ==
    loop = "permit" /\ permits = 0 /\ ~ Wedged =>
        \E c \in Clients : phase[c] \in Served /\ ~ (phase[c] = "front" /\ c \in silent)
=============================================================================
