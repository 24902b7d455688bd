------------------------------- MODULE Ladder -------------------------------
(***************************************************************************)
(* The way of a session down the ladder of rungs -- pooled and direct      *)
(* WebSocket, fronted WebSocket, Cloudflare, TCP, blind relay -- and the   *)
(* flags of SkipState it reads before a rung and writes after it           *)
(* (handle_handshake in main.rs; try_ws_bridge, try_tcp_fallback and       *)
(* blind_relay in bridge.rs).  Other sessions, the pool's dials and the    *)
(* clock run between any two of its steps.                                 *)
(*                                                                         *)
(* A relay changes no flag: a session that connects is over here (Relay    *)
(* and Sessions take it on).  Likewise the Cloudflare rung is its outcome  *)
(* (WorkerCooldown, CfBalancer and CfRace model it).  DC_FAIL only         *)
(* shortens a dial, which shows as another verdict.                        *)
(*                                                                         *)
(* GatedByOrig and BlockedByAny are faulty variants of the definitions     *)
(* they precede.                                                           *)
(***************************************************************************)
EXTENDS Naturals, Sequences, FiniteSets

CONSTANTS
    Sessions,      \* bound: sessions at a time
    Slots,         \* the (DC, media) pairs of the clients
    Origs,         \* original destinations where the DC is known, maybe NoIp
    NoIp,          \* none, or an empty address
    FrontOf,       \* dc_front_ip(): the front of a DC or NoIp
    DefaultOf,     \* dc_default_ip()
    StockFront,    \* front_ip()
    Alt,           \* dc_alt_ips(): the slot of a known alternative address
    DomainCount,   \* Len of ws_domains()
    IpTtl, DcTtl, FrontTtl, BlackTtl

DC(c) == c[1]
Media(c) == c[2]

ASSUME LadderAssumption ==
    /\ IpTtl \in Nat /\ DcTtl \in Nat
    /\ FrontTtl \in Nat /\ BlackTtl \in Nat
    /\ DomainCount \in Nat \ {0}
    /\ NoIp \notin DOMAIN Alt

\* ws_target_ip(): where a session of slot c dials.
TargetIp(c, orig) ==
    IF FrontOf[DC(c)] # NoIp THEN FrontOf[DC(c)]
    ELSE IF orig # NoIp THEN orig ELSE DefaultOf[DC(c)]

Target(c, orig) == <<TargetIp(c, orig), DC(c)>>

Targets == {Target(c, o) : c \in Slots, o \in Origs}
           \cup {<<o, DC(c)>> : o \in Origs \ {NoIp}, c \in Slots}

\* is_blocked_media_cdn().
BlockedCdn(orig) == orig \in DOMAIN Alt /\ Media(Alt[orig])

\* tcp_fallback_targets(), given ws_blacklisted().
TcpTargets(c, orig, listed) ==
    LET target == Target(c, orig)
        own == <<orig, DC(c)>>
        known == orig \in DOMAIN Alt /\ own # target
    IN IF ~Media(c) \/ ~known THEN <<target>>
       ELSE IF listed THEN <<target, own>>
       ELSE IF BlockedCdn(orig) THEN <<target>>
       ELSE <<own, target>>

\* ws_redirect_blacklist_warranted(): on the stock front only DC2, which 203 is
\* an alias of, and DC4 are served, a redirect of another DC is its normal answer.
Warranted(c, orig) ==
    LET d == IF DC(c) = 203 THEN 2 ELSE DC(c)
        target == TargetIp(c, orig)
    IN \/ FrontOf[d] = NoIp \/ FrontOf[d] # target
       \/ target = StockFront /\ d \in {2, 4}

VARIABLES
    ipFail, dcFail, frontFail, blacklist, ipHeld, blackHeld,   \* SkipState
    pc,           \* pc[s]: the rung or decision session s is at
    job,          \* job[s]: what it knows
    blocked,      \* history: for how long a target is known to time out
    warned        \* history: s began, and is still, under such a warning

flags == <<ipFail, dcFail, frontFail, blacklist, ipHeld, blackHeld, blocked>>
vars == <<ipFail, dcFail, frontFail, blacklist, ipHeld, blackHeld, blocked,
          pc, job, warned>>

Skip == INSTANCE SkipState

Verdicts == {"redirect", "timeout", "error"}

\* The locals of a session.  rung: all_blocked and timed_out of the loop it is
\* in; total: the same for the whole direct path; saw: history, every verdict.
Rungs == [allBlocked : BOOLEAN, timedOut : BOOLEAN]

Fresh == [allBlocked |-> TRUE, timedOut |-> FALSE]

NoSlot == <<0, FALSE>>

Jobs == [slot : Slots \cup {NoSlot}, orig : Origs \cup {NoIp},
         left : 0 .. DomainCount, rung : Rungs, total : Rungs,
         saw : SUBSET Verdicts, todo : Seq(Targets)]

NoJob == [slot |-> NoSlot, orig |-> NoIp, left |-> 0, rung |-> Fresh,
          total |-> Fresh, saw |-> {}, todo |-> <<>>]

Pcs == {"idle", "gate", "gateIp", "pool", "direct", "gateFront", "fronting",
        "verdict", "redirect", "cf", "tcp", "blind"}

TypeOK ==
    /\ Skip!TypeOK
    /\ pc \in [Sessions -> Pcs]
    /\ job \in [Sessions -> Jobs]
    /\ \A s \in Sessions : pc[s] \notin {"idle", "blind"} =>
          job[s].slot \in Slots /\ job[s].orig \in Origs
    /\ blocked \in [Targets -> 0 .. IpTtl]
    /\ warned \in [Sessions -> BOOLEAN]

Init ==
    /\ Skip!Init
    /\ pc = [s \in Sessions |-> "idle"]
    /\ job = [s \in Sessions |-> NoJob]
    /\ blocked = [k \in Targets |-> 0]
    /\ warned = [s \in Sessions |-> FALSE]

At(s) == Target(job[s].slot, job[s].orig)

Goto(s, there) == pc' = [pc EXCEPT ![s] = there]

\* The session is bridged, relayed blindly or dropped.
Leave(s) == Goto(s, "idle") /\ job' = [job EXCEPT ![s] = NoJob]

-----------------------------------------------------------------------------
\* handle_handshake(): the DC of the packet, or of the original destination;
\* without either nothing but a blind relay is left.
Begin(s, c, o) ==
    /\ pc[s] = "idle"
    /\ job' = [job EXCEPT ![s] = [NoJob EXCEPT !.slot = c, !.orig = o]]
    /\ Goto(s, "gate")
    /\ UNCHANGED flags

BeginUnknown(s, o) ==
    /\ pc[s] = "idle"
    /\ o \notin DOMAIN Alt
    /\ job' = [job EXCEPT ![s] = [NoJob EXCEPT !.orig = o]]
    /\ Goto(s, "blind")
    /\ UNCHANGED flags

\* should_skip_ws(): two flags, one after the other.
GateBlacklist(s) ==
    /\ pc[s] = "gate"
    /\ Goto(s, IF blacklist[job[s].slot] > 0 THEN "cf" ELSE "gateIp")
    /\ UNCHANGED <<flags, job>>

\* The target whose flag guards the direct rung.
GatedByOrig(s) == <<job[s].orig, DC(job[s].slot)>>
GatedBy(s) == At(s)

GateIp(s) ==
    /\ pc[s] = "gateIp"
    /\ IF ipFail[GatedBy(s)] > 0
       THEN Goto(s, "cf") /\ UNCHANGED job
       ELSE /\ Goto(s, IF Media(job[s].slot) THEN "direct" ELSE "pool")
            /\ job' = [job EXCEPT ![s].left = DomainCount]
    /\ UNCHANGED flags

\* A WebSocket of the slot came up: the code takes its target to work, also when
\* the connection is a pooled one, which in a DC without a front may go to
\* another address; the history follows the code.
Opens(k, c) ==
    /\ Skip!ComesUp(k, c)
    /\ blocked' = [blocked EXCEPT ![k] = 0]

\* try_ws_bridge(): a WebSocket of any kind came up and took the relay init.
Connect(s) ==
    /\ pc[s] \in {"pool", "direct", "fronting"}
    /\ Opens(At(s), job[s].slot)
    /\ Leave(s)

\* No pooled connection, or it did not take the relay init.
PoolMisses(s) ==
    /\ pc[s] = "pool"
    /\ Goto(s, "direct")
    /\ UNCHANGED <<flags, job>>

\* A dial of try_ws_with_domains() or try_ws_fronting() fails.  A relay init
\* that is not taken is an error like any other.
BlockedByAny(rung, v) ==
    [allBlocked |-> rung.allBlocked /\ v # "timeout",
     timedOut |-> rung.timedOut \/ v = "timeout"]
After(rung, v) ==
    [allBlocked |-> rung.allBlocked /\ v = "redirect",
     timedOut |-> rung.timedOut \/ v = "timeout"]

Folded(total, rung) ==
    [allBlocked |-> total.allBlocked /\ rung.allBlocked,
     timedOut |-> total.timedOut \/ rung.timedOut]

DialFails(s, v) ==
    /\ pc[s] \in {"direct", "fronting"}
    /\ job[s].left > 1
    /\ job' = [job EXCEPT ![s].left = @ - 1, ![s].rung = After(@, v),
                          ![s].saw = @ \cup {v}]
    /\ UNCHANGED <<flags, pc>>

\* The last domain of a rung: the fold keeps what the direct dials said.
LastDialFails(s, v) ==
    /\ pc[s] \in {"direct", "fronting"}
    /\ job[s].left = 1
    /\ job' = [job EXCEPT ![s].left = 0, ![s].rung = Fresh, ![s].saw = @ \cup {v},
                          ![s].total = Folded(@, After(job[s].rung, v))]
    /\ IF pc[s] = "direct"
       THEN Goto(s, "gateFront") /\ UNCHANGED flags
       ELSE /\ Goto(s, "verdict")
            /\ Skip!FrontingFails(At(s)) /\ UNCHANGED blocked

\* should_skip_fronting(): flagged, or fronting is not configured.
SkipFronting(s) ==
    /\ pc[s] = "gateFront"
    /\ Goto(s, "verdict")
    /\ UNCHANGED <<flags, job>>

GateFronting(s) ==
    /\ pc[s] = "gateFront"
    /\ frontFail[At(s)] = 0
    /\ Goto(s, "fronting")
    /\ job' = [job EXCEPT ![s].left = DomainCount]
    /\ UNCHANGED flags

\* The end of try_ws_bridge().  What becomes known is what was seen: a target
\* that timed out is blocked for IpTtl, or for what is left of the mark of an
\* earlier failure.
Verdict(s) ==
    /\ pc[s] = "verdict"
    /\ Skip!RungFails(At(s), job[s].slot, job[s].total.timedOut)
    /\ blocked' = IF "timeout" \notin job[s].saw THEN blocked
                  ELSE [blocked EXCEPT ![At(s)] =
                          IF ipFail[At(s)] > 0 THEN ipFail[At(s)] ELSE IpTtl]
    /\ Goto(s, "redirect")
    /\ UNCHANGED job

\* handle_handshake() on its return.
Blacklist(s) ==
    /\ pc[s] = "redirect"
    /\ IF job[s].total.allBlocked /\ Warranted(job[s].slot, job[s].orig)
       THEN Skip!Redirected(job[s].slot) /\ UNCHANGED blocked
       ELSE UNCHANGED flags
    /\ Goto(s, "cf")
    /\ job' = [job EXCEPT ![s].total = Fresh, ![s].saw = {}]

\* try_cf_fallback(): no flag is read or written, a success lifts none.
FallbackConnects(s) ==
    /\ pc[s] \in {"cf", "tcp"}
    /\ pc[s] = "tcp" => job[s].todo # <<>>
    /\ Leave(s)
    /\ UNCHANGED flags

\* try_tcp_fallback(), when the Cloudflare rung has failed: an address on
\* cooldown is dialled all the same, with a shorter timeout; a connection that
\* does not take the relay init leaves no mark.
CfFails(s) ==
    /\ pc[s] = "cf"
    /\ job' = [job EXCEPT ![s].todo =
                  TcpTargets(job[s].slot, job[s].orig, blacklist[job[s].slot] > 0)]
    /\ Goto(s, "tcp")
    /\ UNCHANGED flags

TcpFails(s) ==
    /\ pc[s] = "tcp"
    /\ job[s].todo # <<>>
    /\ \/ Skip!TcpFails(Head(job[s].todo)) /\ UNCHANGED blocked
       \/ UNCHANGED flags
    /\ job' = [job EXCEPT ![s].todo = Tail(@)]
    /\ UNCHANGED pc

TcpExhausted(s) ==
    /\ pc[s] = "tcp"
    /\ job[s].todo = <<>>
    /\ Goto(s, "blind")
    /\ UNCHANGED <<flags, job>>

\* blind_relay(): through a Worker, where that is tried and one connects, else
\* to the first passthrough target that accepts; without one the session ends.
BlindRelay(s) ==
    /\ pc[s] = "blind"
    /\ Leave(s)
    /\ UNCHANGED flags

-----------------------------------------------------------------------------
\* note_connect_success(): a dial of the pool, for a seed or after a session.
PoolDials(c, o) ==
    /\ ~Media(c)
    /\ FrontOf[DC(c)] # NoIp \/ o # NoIp
    /\ Opens(Target(c, o), c)
    /\ UNCHANGED <<pc, job>>

Clock ==
    /\ Skip!Tick
    /\ blocked' = [k \in Targets |-> Skip!Later(blocked[k])]
    /\ UNCHANGED <<pc, job>>

Step(s) ==
    \/ \E c \in Slots, o \in Origs : Begin(s, c, o)
    \/ \E o \in Origs \cup {NoIp} : BeginUnknown(s, o)
    \/ GateBlacklist(s) \/ GateIp(s)
    \/ Connect(s) \/ PoolMisses(s)
    \/ \E v \in Verdicts : DialFails(s, v) \/ LastDialFails(s, v)
    \/ SkipFronting(s) \/ GateFronting(s)
    \/ Verdict(s) \/ Blacklist(s)
    \/ FallbackConnects(s) \/ CfFails(s)
    \/ TcpFails(s) \/ TcpExhausted(s) \/ BlindRelay(s)

\* A session is warned while its target has been known to time out since before
\* it began.
Heed ==
    warned' = [s \in Sessions |->
        /\ pc'[s] \notin {"idle", "redirect", "cf", "tcp", "blind"}
        /\ blocked'[Target(job'[s].slot, job'[s].orig)] > 0
        /\ pc[s] # "idle" => warned[s]]

Next ==
    /\ \/ \E s \in Sessions : Step(s)
       \/ \E c \in Slots, o \in Origs : PoolDials(c, o)
       \/ Clock
    /\ Heed

Spec == Init /\ [][Next]_vars

-----------------------------------------------------------------------------
(***************************************************************************)
(* "clearing caused a flap loop under sustained ISP WS blocks -- every new *)
(* connection paid a full WS timeout before falling back"                  *)
(* (ip_fail.rs:110-113): once a session has ended its direct path on a     *)
(* timeout, no session that begins within the cooldown dials that target   *)
(* on the direct rung, whatever the fallbacks of other sessions answer,    *)
(* until a WebSocket to it has come up.                                    *)
(***************************************************************************)
BlockedPathIsSpared ==
    \A s \in Sessions : warned[s] =>
        pc[s] \notin {"pool", "direct", "gateFront", "fronting", "verdict"}

(***************************************************************************)
(* "the DC is only 'all blocked' if both the direct and fronting attempts  *)
(* saw nothing but redirects" (try_ws_bridge), and never on account of a   *)
(* DC the stock front does not serve: a slot becomes blacklisted only when *)
(* a session of it has dialled, and every dial was answered by a redirect. *)
(***************************************************************************)
BlacklistIsEarned ==
    [][\A c \in Slots : blacklist[c] = 0 /\ blacklist'[c] > 0 =>
          \E s \in Sessions :
              /\ pc[s] = "redirect" /\ pc'[s] = "cf" /\ job[s].slot = c
              /\ job[s].saw = {"redirect"}
              /\ ~(FrontOf[DC(c)] = StockFront /\ StockFront # NoIp
                   /\ DC(c) \notin {2, 4, 203})]_vars

(***************************************************************************)
(* handle_handshake() goes down the ladder and never up: a session at some *)
(* rung stays there for another dial, one domain or target fewer to go, or *)
(* goes on to a lower one, whatever flags other sessions raise and lower   *)
(* meanwhile.  So it makes at most DomainCount dials on either WebSocket   *)
(* rung and one for each TCP target, and comes to its end.                 *)
(***************************************************************************)
Height(p) ==
    CASE p = "gate" -> 11 [] p = "gateIp" -> 10 [] p = "pool" -> 9
      [] p = "direct" -> 8 [] p = "gateFront" -> 7 [] p = "fronting" -> 6
      [] p = "verdict" -> 5 [] p = "redirect" -> 4 [] p = "cf" -> 3
      [] p = "tcp" -> 2 [] p = "blind" -> 1 [] p = "idle" -> 0

ToDial(j) == j.left + Len(j.todo)

GoesDown(s) ==
    \/ Height(pc'[s]) < Height(pc[s])
    \/ pc'[s] = pc[s] /\ ToDial(job'[s]) < ToDial(job[s])
    \/ pc'[s] = pc[s] /\ job'[s] = job[s]

OnlyDownwards == [][\A s \in Sessions : pc[s] # "idle" => GoesDown(s)]_vars

\* A flag held up by failures that go on does not outlive its time to live.
HeldNoLonger == Skip!HeldNoLonger
=============================================================================
