------------------------------ MODULE SkipState -----------------------------
(***************************************************************************)
(* What sessions and pool dials tell each other about a direct path that   *)
(* does not work: the TtlMaps of ip_fail.rs, fronting.rs and               *)
(* ws_blacklist.rs.  A flag is kept as the time it still has, 0 when the   *)
(* key is absent or its expiry has passed: no reader tells the two apart,  *)
(* so the pruning of expired entries has no step.                          *)
(*                                                                         *)
(* A handler that sets or clears several flags takes their mutexes one     *)
(* after the other and decides nothing in between: it is one step.         *)
(*                                                                         *)
(* MarkAdded and MarkIfAbsentAlways are faulty variants of the definitions *)
(* they precede.                                                           *)
(***************************************************************************)
EXTENDS Naturals

CONSTANTS
    Targets,      \* (dial address, DC) pairs
    Slots,        \* (DC, media) pairs
    IpTtl,        \* ip_fail cooldown()
    DcTtl,        \* dc_fail_cooldown()
    FrontTtl,     \* fronting cooldown()
    BlackTtl      \* blacklist_ttl()

VARIABLES
    ipFail,       \* IP_FAIL: skip the direct rung of this target
    dcFail,       \* DC_FAIL: dial this slot with the short timeout
    frontFail,    \* FRONTING_FAIL: do not front through this target
    blacklist,    \* BLACKLIST: skip the direct rung of this slot
    ipHeld,       \* history: for how long ipFail has been set without a break
    blackHeld     \* history: the same for blacklist

vars == <<ipFail, dcFail, frontFail, blacklist, ipHeld, blackHeld>>

TypeOK ==
    /\ ipFail \in [Targets -> 0 .. IpTtl]
    /\ dcFail \in [Slots -> 0 .. DcTtl]
    /\ frontFail \in [Targets -> 0 .. FrontTtl]
    /\ blacklist \in [Slots -> 0 .. BlackTtl]
    /\ ipHeld \in [Targets -> Nat]
    /\ blackHeld \in [Slots -> Nat]

Init ==
    /\ ipFail = [k \in Targets |-> 0]
    /\ dcFail = [c \in Slots |-> 0]
    /\ frontFail = [k \in Targets |-> 0]
    /\ blacklist = [c \in Slots |-> 0]
    /\ ipHeld = [k \in Targets |-> 0]
    /\ blackHeld = [c \in Slots |-> 0]

-----------------------------------------------------------------------------
\* mark(): whatever was left of the flag is replaced.
MarkAdded(flags, k, ttl) == [flags EXCEPT ![k] = @ + ttl]
Mark(flags, k, ttl) == [flags EXCEPT ![k] = ttl]

\* mark_if_absent(): a flag that is up is left as it is.
MarkIfAbsentAlways(flags, k, ttl) == Mark(flags, k, ttl)
MarkIfAbsent(flags, k, ttl) == [flags EXCEPT ![k] = IF @ > 0 THEN @ ELSE ttl]

Lowered(flags, k) == [flags EXCEPT ![k] = 0]

\* How long a flag that is marked now has been up.
HeldSince(held, flags, k) == [held EXCEPT ![k] = IF flags[k] > 0 THEN @ ELSE 0]

Later(left) == IF left > 0 THEN left - 1 ELSE 0

MarkIp(k) ==
    /\ ipFail' = MarkIfAbsent(ipFail, k, IpTtl)
    /\ ipHeld' = HeldSince(ipHeld, ipFail, k)

\* The direct rung failed on target k of slot c: mark_dc_failed(), and
\* mark_ip_failed() when one of its dials ran into a timeout.
RungFails(k, c, timedOut) ==
    /\ IF timedOut THEN MarkIp(k) ELSE UNCHANGED <<ipFail, ipHeld>>
    /\ dcFail' = MarkIfAbsent(dcFail, c, DcTtl)
    /\ UNCHANGED <<frontFail, blacklist, blackHeld>>

\* mark_fronting_failed(): this one starts over.
FrontingFails(k) ==
    /\ frontFail' = Mark(frontFail, k, FrontTtl)
    /\ UNCHANGED <<ipFail, dcFail, blacklist, ipHeld, blackHeld>>

\* mark_ws_blacklisted().
Redirected(c) ==
    /\ blacklist' = MarkIfAbsent(blacklist, c, BlackTtl)
    /\ blackHeld' = HeldSince(blackHeld, blacklist, c)
    /\ UNCHANGED <<ipFail, dcFail, frontFail, ipHeld>>

\* The TCP fallback could not connect to k.
TcpFails(k) ==
    /\ MarkIp(k)
    /\ UNCHANGED <<dcFail, frontFail, blacklist, blackHeld>>

\* A WebSocket to k came up: the three flags a dial leaves behind are lifted,
\* the blacklist is not.
ComesUp(k, c) ==
    /\ ipFail' = Lowered(ipFail, k)
    /\ dcFail' = Lowered(dcFail, c)
    /\ frontFail' = Lowered(frontFail, k)
    /\ ipHeld' = Lowered(ipHeld, k)
    /\ UNCHANGED <<blacklist, blackHeld>>

Tick ==
    /\ ipFail' = [k \in Targets |-> Later(ipFail[k])]
    /\ dcFail' = [c \in Slots |-> Later(dcFail[c])]
    /\ frontFail' = [k \in Targets |-> Later(frontFail[k])]
    /\ blacklist' = [c \in Slots |-> Later(blacklist[c])]
    /\ ipHeld' = [k \in Targets |-> IF ipFail[k] > 1 THEN ipHeld[k] + 1 ELSE 0]
    /\ blackHeld' = [c \in Slots |-> IF blacklist[c] > 1 THEN blackHeld[c] + 1 ELSE 0]

Next ==
    \/ \E k \in Targets :
          \/ \E c \in Slots :
                \/ \E timedOut \in BOOLEAN : RungFails(k, c, timedOut)
                \/ ComesUp(k, c)
          \/ FrontingFails(k)
          \/ TcpFails(k)
    \/ \E c \in Slots : Redirected(c)
    \/ Tick

Spec == Init /\ [][Next]_vars

-----------------------------------------------------------------------------
(***************************************************************************)
(* "avoid pushing cooldown expiry forward on every concurrent failure"     *)
(* (mark_if_absent): however many sessions fail on a path that is flagged  *)
(* already -- the TCP fallback goes on failing while the direct rung is    *)
(* skipped --, the flag is never up for longer than its time to live       *)
(* before the direct rung is probed again.                                 *)
(***************************************************************************)
HeldNoLonger ==
    /\ \A k \in Targets : ipFail[k] > 0 => ipHeld[k] + ipFail[k] <= IpTtl
    /\ \A c \in Slots : blacklist[c] > 0 => blackHeld[c] + blacklist[c] <= BlackTtl
=============================================================================
