----------------------------- MODULE CfBalancer -----------------------------
(***************************************************************************)
(* Which CF-proxy domains a session of a data centre dials, and in which   *)
(* order (cf_balancer.rs, called from try_cf_fallback in bridge.rs): a     *)
(* shared pool, and per DC a round-robin cursor and the domain that worked *)
(* last.  A session takes the head of the order, dials it all, and either  *)
(* remembers the domain that answered or moves the cursor on.              *)
(*                                                                         *)
(* The pool, the cursors and the sticky domains sit under three mutexes    *)
(* taken one after the other: each acquisition is a step.  ProxyPool fills *)
(* the pool, CfOutage has nobody answer.                                   *)
(*                                                                         *)
(* WithStickyTwice, ByWholeList, MovedUnwrapped and StickyKept are faulty  *)
(* variants of the definitions they precede.                               *)
(***************************************************************************)
EXTENDS Naturals, Sequences, FiniteSets, SequencesExt

CONSTANTS
    DCs,
    Pools,         \* bound: the lists the pool may hold, without duplicates
    Longest,       \* bound: the length of the longest of them
    Attempts,      \* max_cf_proxy_attempts()
    Sessions,      \* bound: sessions on the CF-proxy rung at a time
    None

Domains == UNION {Range(p) : p \in Pools}

ASSUME BalancerAssumption ==
    /\ IsFiniteSet(DCs)
    /\ Attempts \in Nat \ {0} /\ Longest \in Nat \ {0}
    /\ Pools \subseteq Seq(Domains)
    /\ \A p \in Pools : IsInjective(p) /\ Len(p) <= Longest
    /\ None \notin Domains /\ None \notin Nat

VARIABLES
    pool,         \* PROXY_DOMAINS
    cursor,       \* DC_PROXY_IDX; None before the DC's first use
    sticky,       \* DC_PROXY_STICKY
    rr,           \* PROXY_RR
    pc,           \* pc[s]: the step session s takes next
    dc,           \* dc[s]: its data centre
    seen,         \* seen[s]: its copy of the pool
    hint,         \* hint[s]: the sticky domain it read or removed
    list          \* list[s]: its order, before take(max_cf_proxy_attempts())

vars == <<pool, cursor, sticky, rr, pc, dc, seen, hint, list>>

TypeOK ==
    /\ pool \in Pools
    /\ cursor \in [DCs -> (0 .. Longest - 1) \cup {None}]
    /\ sticky \in [DCs -> Domains \cup {None}]
    /\ rr \in Nat
    /\ pc \in [Sessions -> {"idle", "sticky", "order", "dial", "measure", "advance"}]
    /\ dc \in [Sessions -> DCs \cup {None}]
    /\ seen \in [Sessions -> Pools \cup {<<>>}]
    /\ hint \in [Sessions -> Domains \cup {None}]
    /\ list \in [Sessions -> Seq(Domains)]

NoSession ==
    /\ pc = [s \in Sessions |-> "idle"] /\ dc = [s \in Sessions |-> None]
    /\ seen = [s \in Sessions |-> <<>>] /\ hint = [s \in Sessions |-> None]
    /\ list = [s \in Sessions |-> <<>>]

\* All but the pool, which ProxyPool fills.
Init ==
    /\ cursor = [d \in DCs |-> None] /\ sticky = [d \in DCs |-> None]
    /\ rr = 0
    /\ NoSession

-----------------------------------------------------------------------------
\* ordered_domains(): the pool p from index i on, round to it again.
Rotated(p, i) ==
    LET start == i % Len(p)
    IN  [k \in 1 .. Len(p) |-> p[((start + k - 1) % Len(p)) + 1]]

\* proxy_domains_for_dc(): the sticky domain in front, if the pool has it.
WithStickyTwice(order, d) ==
    IF d \in Range(order) THEN <<d>> \o order ELSE order
WithSticky(order, d) ==
    IF d \in Range(order)
    THEN <<d>> \o RemoveAt(order, CHOOSE k \in 1 .. Len(order) : order[k] = d)
    ELSE order

Window(s) == SubSeq(list[s], 1, Min({Attempts, Len(list[s])}))

\* The cursor of a DC, given a first value on first use.
Cursor(d, n) == IF cursor[d] = None THEN rr % n ELSE cursor[d]
FirstUse(d) == rr' = IF cursor[d] = None THEN rr + 1 ELSE rr

\* proxy_domains_for_dc(): proxy_domains().
ReadPool(s, d) ==
    /\ pc[s] = "idle"
    /\ dc' = [dc EXCEPT ![s] = d]
    /\ seen' = [seen EXCEPT ![s] = pool]
    /\ pc' = [pc EXCEPT ![s] = "sticky"]
    /\ UNCHANGED <<pool, cursor, sticky, rr, hint, list>>

ReadSticky(s) ==
    /\ pc[s] = "sticky"
    /\ hint' = [hint EXCEPT ![s] = sticky[dc[s]]]
    /\ pc' = [pc EXCEPT ![s] = "order"]
    /\ UNCHANGED <<pool, cursor, sticky, rr, dc, seen, list>>

\* ordered_domains(): a list of one or none leaves the cursors alone.
Order(s) ==
    LET p == seen[s]  n == Len(p)  d == dc[s] IN
    /\ pc[s] = "order"
    /\ IF n <= 1
       THEN /\ list' = [list EXCEPT ![s] = p]
            /\ UNCHANGED <<cursor, rr>>
       ELSE /\ list' = [list EXCEPT ![s] = WithSticky(Rotated(p, Cursor(d, n)), hint[s])]
            /\ cursor' = [cursor EXCEPT ![d] = Cursor(d, n)]
            /\ FirstUse(d)
    /\ pc' = [pc EXCEPT ![s] = "dial"]
    /\ UNCHANGED <<pool, sticky, dc, seen, hint>>

Done(s) ==
    /\ pc' = [pc EXCEPT ![s] = "idle"]
    /\ dc' = [dc EXCEPT ![s] = None]
    /\ seen' = [seen EXCEPT ![s] = <<>>]
    /\ hint' = [hint EXCEPT ![s] = None]
    /\ list' = [list EXCEPT ![s] = <<>>]

\* A candidate answered, the primary or the winner of the race:
\* update_proxy_domain_for_dc().
Connect(s, d) ==
    /\ pc[s] = "dial"
    /\ d \in Range(Window(s))
    /\ sticky' = [sticky EXCEPT ![dc[s]] = d]
    /\ Done(s)
    /\ UNCHANGED <<pool, cursor, rr>>

\* The sticky domains without the one of DC d.
StickyKept(d) == sticky
StickyDropped(d) == [sticky EXCEPT ![d] = None]

\* advance_proxy_domains_for_dc(): every candidate failed, or there was none.
DropSticky(s) ==
    /\ pc[s] = "dial"
    /\ hint' = [hint EXCEPT ![s] = sticky[dc[s]]]
    /\ sticky' = StickyDropped(dc[s])
    /\ pc' = [pc EXCEPT ![s] = "measure"]
    /\ UNCHANGED <<pool, cursor, rr, dc, seen, list>>

MeasurePool(s) ==
    /\ pc[s] = "measure"
    /\ seen' = [seen EXCEPT ![s] = pool]
    /\ pc' = [pc EXCEPT ![s] = "advance"]
    /\ UNCHANGED <<pool, cursor, sticky, rr, dc, hint, list>>

\* How far the cursor moves: as many as were dialled.
ByWholeList(s) == Len(list[s])
By(s) == Len(Window(s))

\* The cursor i moved on by k in p, and once more if it meets domain d.
MovedUnwrapped(p, i, k, d) == i + k
Moved(p, i, k, d) ==
    LET n == Max({1, Len(p)})
        j == (i + k) % n
        there == IF j < Len(p) THEN p[j + 1] ELSE None
    IN IF there = d THEN (j + 1) % n ELSE j

Advance(s) ==
    LET d == dc[s]  n == Max({1, Len(seen[s])}) IN
    /\ pc[s] = "advance"
    /\ cursor' = [cursor EXCEPT ![d] = Moved(seen[s], Cursor(d, n), By(s), hint[s])]
    /\ FirstUse(d)
    /\ Done(s)
    /\ UNCHANGED <<pool, sticky>>

SetPool(p) ==
    /\ pool' = p
    /\ UNCHANGED <<cursor, sticky, rr, pc, dc, seen, hint, list>>

Choose(s) == (\E d \in DCs : ReadPool(s, d)) \/ ReadSticky(s) \/ Order(s)

GiveUp(s) == DropSticky(s) \/ MeasurePool(s) \/ Advance(s)

Succeed(s) == \E d \in Domains : Connect(s, d)

\* A step of a session.
Step(s) == Choose(s) \/ Succeed(s) \/ GiveUp(s)

-----------------------------------------------------------------------------
(***************************************************************************)
(* Whatever happens to the pool, the cursor and the sticky domain while a  *)
(* session puts its list together, the list names every domain of the pool *)
(* it read exactly once, and starts with the sticky domain it read if that *)
(* is one of them (proxy_domains_for_dc()).                                *)
(***************************************************************************)
ListsAreWhole ==
    \A s \in Sessions : pc[s] = "dial" =>
        /\ IsInjective(list[s])
        /\ Range(list[s]) = Range(seen[s])
        /\ hint[s] \in Range(seen[s]) => list[s][1] = hint[s]
=============================================================================
