--------------------------- MODULE Balancer_proof ---------------------------
(***************************************************************************)
(* Proofs about CfBalancer in its two surroundings: ProxyPool, where the   *)
(* pool is replaced under the sessions, and CfOutage, where no domain      *)
(* answers.                                                                *)
(***************************************************************************)
EXTENDS ProxyPool, CfOutage, SequenceTheorems, FiniteSetTheorems, TLAPS

-----------------------------------------------------------------------------
(* Remainders, and the greatest and least of two numbers *)

\* A number is so many times n and its remainder.
LEMMA Remainder ==
    ASSUME NEW x \in Nat, NEW n \in Nat \ {0}
    PROVE  /\ x % n \in 0 .. n - 1 /\ x \div n \in Nat
           /\ x = n * (x \div n) + (x % n)
OBVIOUS

\* It has no other remainder.
LEMMA RemainderIs ==
    ASSUME NEW n \in Nat \ {0}, NEW q \in Int, NEW r \in 0 .. n - 1, NEW x \in Nat,
           x = n * q + r
    PROVE  x % n = r
OBVIOUS

\* Counting on from a remainder comes round once at most.
LEMMA Round ==
    ASSUME NEW n \in Nat \ {0}, NEW i \in 0 .. n - 1, NEW k \in 0 .. n
    PROVE  (i + k) % n = IF i + k < n THEN i + k ELSE i + k - n
<1>1. CASE i + k < n
    BY <1>1, RemainderIs
<1>2. CASE i + k >= n
    <2>1. i + k = n * 1 + (i + k - n) /\ i + k - n \in 0 .. n - 1
        BY <1>2
    <2> QED BY <1>2, <2>1, RemainderIs
<1> QED BY <1>1, <1>2

\* The remainder may be taken before or after.
LEMMA RemainderOfSum ==
    ASSUME NEW n \in Nat \ {0}, NEW x \in Nat, NEW k \in Nat
    PROVE  ((x % n) + k) % n = (x + k) % n
<1> DEFINE q == x \div n
           r == x % n
           y == r + k
           u == y \div n
           v == y % n
<1>1. r \in 0 .. n - 1 /\ q \in Nat /\ x = n * q + r
    BY Remainder
<1>2. y \in Nat
    BY <1>1
<1>3. v \in 0 .. n - 1 /\ u \in Nat /\ y = n * u + v
    BY <1>2, Remainder
<1> HIDE DEF u, v, q, r
<1>4. x + k = n * (q + u) + v
    <2>1. x + k = n * q + n * u + v
        BY <1>1, <1>3
    <2>2. n * (q + u) = n * q + n * u
        BY <1>1, <1>3
    <2> QED BY <1>1, <1>3, <2>1, <2>2
<1> DEFINE z == x + k
           w == q + u
<1>5. z \in Nat /\ w \in Int /\ z = n * w + v
    BY <1>1, <1>3, <1>4
<1> HIDE DEF z, w
<1>6. z % n = v
    BY <1>3, <1>5, RemainderIs
<1> QED BY <1>6 DEF v, y, r, z

\* The Min and the Max of two numbers.
LEMMA OfTwo ==
    ASSUME NEW a \in Nat, NEW b \in Nat
    PROVE  /\ Min({a, b}) = IF a <= b THEN a ELSE b
           /\ Max({a, b}) = IF a >= b THEN a ELSE b
<1>1. \E x \in {a, b} : \A y \in {a, b} : x <= y
    OBVIOUS
<1>2. \E x \in {a, b} : \A y \in {a, b} : x >= y
    OBVIOUS
<1> QED BY <1>1, <1>2 DEF Min, Max

-----------------------------------------------------------------------------
(* The order of the domains *)

\* a has the elements of p, each once as p has.
Shuffled(a, p) ==
    /\ a \in Seq(Domains) /\ Len(a) = Len(p) /\ Len(a) \in Nat
    /\ \A i, j \in 1 .. Len(a) : a[i] = a[j] => i = j
    /\ Range(a) = Range(p)

\* A pool is a list of domains without duplicates.
LEMMA PoolIs ==
    ASSUME NEW p \in Pools
    PROVE  Shuffled(p, p) /\ Len(p) <= Longest
<1>1. p \in Seq(Domains) /\ IsInjective(p) /\ Len(p) <= Longest
    BY BalancerAssumption
<1>2. Len(p) \in Nat /\ DOMAIN p = 1 .. Len(p)
    BY <1>1, LenProperties
<1> QED BY <1>1, <1>2 DEF IsInjective, Shuffled

\* What the properties say of such a list.
LEMMA ShuffledIs ==
    ASSUME NEW a, NEW p, Shuffled(a, p)
    PROVE  IsInjective(a) /\ Range(a) = {a[i] : i \in 1 .. Len(a)}
<1>1. DOMAIN a = 1 .. Len(a)
    BY LenProperties DEF Shuffled
<1> QED BY <1>1 DEF Shuffled, IsInjective, Range

\* ordered_domains() names every domain once, and the cursor's first.
LEMMA RotatedIs ==
    ASSUME NEW p \in Pools, Len(p) > 0, NEW i \in Nat
    PROVE  /\ Shuffled(Rotated(p, i), p)
           /\ \A k \in 1 .. Len(p) : Rotated(p, i)[k] = p[((i + (k - 1)) % Len(p)) + 1]
<1> DEFINE n == Len(p)
           start == i % n
           a == Rotated(p, i)
           Spot(k) == ((start + k - 1) % n) + 1
<1>1. Shuffled(p, p)
    BY PoolIs
<1>2. n \in Nat \ {0} /\ p \in Seq(Domains) /\ DOMAIN p = 1 .. n
      /\ \A j \in 1 .. n : p[j] \in Domains
    BY <1>1, LenProperties, ElementOfSeq DEF Shuffled
<1>3. start \in 0 .. n - 1
    BY <1>2, Remainder
<1>4. a = [k \in 1 .. n |-> p[Spot(k)]]
    BY DEF Rotated
<1> HIDE DEF n, start
<1>5. \A k \in 1 .. n :
        Spot(k) = IF start + k <= n THEN start + k ELSE start + k - n
    <2> TAKE k \in 1 .. n
    <2> DEFINE h == k - 1
    <2>1. h \in 0 .. n /\ start + k - 1 = start + h
        BY <1>2, <1>3
    <2> HIDE DEF h
    <2>2. (start + h) % n = IF start + h < n THEN start + h ELSE start + h - n
        BY <1>2, <1>3, <2>1, Round
    <2> QED BY <1>2, <1>3, <2>1, <2>2 DEF h
<1>6. \A k \in 1 .. n : Spot(k) \in 1 .. n
    BY <1>2, <1>3, <1>5
<1>7. \A k, l \in 1 .. n : Spot(k) = Spot(l) => k = l
    BY <1>2, <1>3, <1>5
<1>8. \A j \in 1 .. n : \E k \in 1 .. n : Spot(k) = j
    <2> TAKE j \in 1 .. n
    <2>1. CASE j > start
        <3>1. j - start \in 1 .. n
            BY <1>2, <1>3, <2>1
        <3>2. Spot(j - start) = j
            BY <1>2, <1>3, <1>5, <2>1, <3>1
        <3> QED BY <3>1, <3>2
    <2>2. CASE j <= start
        <3>1. j - start + n \in 1 .. n
            BY <1>2, <1>3, <2>2
        <3>2. Spot(j - start + n) = j
            BY <1>2, <1>3, <1>5, <2>2, <3>1
        <3> QED BY <3>1, <3>2
    <2> QED BY <1>2, <1>3, <2>1, <2>2
<1> HIDE DEF Spot, a
<1>9. a \in [1 .. n -> Domains] /\ \A k \in 1 .. n : a[k] = p[Spot(k)]
    BY <1>2, <1>4, <1>6
<1>10. a \in Seq(Domains) /\ Len(a) = n /\ DOMAIN a = 1 .. n
    <2>1. a \in Seq(Domains)
        BY <1>2, <1>9, SeqDef
    <2>2. DOMAIN a = 1 .. n /\ DOMAIN a = 1 .. Len(a) /\ Len(a) \in Nat
        BY <1>9, <2>1, LenProperties
    <2> QED BY <1>2, <2>1, <2>2
<1>11. \A k, l \in 1 .. n : a[k] = a[l] => k = l
    <2>1. \A k, l \in 1 .. n : p[k] = p[l] => k = l
        BY <1>1 DEF Shuffled, n
    <2> QED BY <1>6, <1>7, <1>9, <2>1
<1>12. Range(a) = Range(p)
    <2>1. Range(a) = {a[k] : k \in 1 .. n} /\ Range(p) = {p[j] : j \in 1 .. n}
        BY <1>2, <1>10 DEF Range
    <2>2. \A k \in 1 .. n : a[k] \in {p[j] : j \in 1 .. n}
        BY <1>6, <1>9
    <2>3. \A j \in 1 .. n : p[j] \in {a[k] : k \in 1 .. n}
        BY <1>8, <1>9
    <2> QED BY <2>1, <2>2, <2>3
<1>13. Shuffled(a, p)
    BY <1>2, <1>10, <1>11, <1>12 DEF Shuffled, n
<1>14. \A k \in 1 .. n : a[k] = p[((i + (k - 1)) % n) + 1]
    <2> TAKE k \in 1 .. n
    <2> DEFINE h == k - 1
    <2>1. h \in Nat /\ start + k - 1 = start + h
        BY <1>2, <1>3
    <2> HIDE DEF h
    <2>2. (start + h) % n = (i + h) % n
        BY <1>2, <2>1, RemainderOfSum DEF start
    <2> QED BY <1>9, <2>1, <2>2 DEF Spot, h
<1> QED BY <1>13, <1>14 DEF a, n

\* l is a with d moved to the front.
InFront(l, a, d) ==
    \E m \in 1 .. Len(a) :
       /\ a[m] = d
       /\ \A i \in 1 .. Len(a) - 1 : l[i + 1] = IF i < m THEN a[i] ELSE a[i + 1]

\* proxy_domains_for_dc() keeps the order but for the sticky domain.
LEMMA WithStickyIs ==
    ASSUME NEW p, NEW a, Shuffled(a, p), NEW d
    PROVE  /\ Shuffled(WithSticky(a, d), p)
           /\ d \notin Range(p) => WithSticky(a, d) = a
           /\ d \in Range(p) => WithSticky(a, d)[1] = d /\ InFront(WithSticky(a, d), a, d)
<1> DEFINE n == Len(a)
           c == WithSticky(a, d)
<1>1. /\ a \in Seq(Domains) /\ n \in Nat /\ n = Len(p) /\ Range(a) = Range(p)
      /\ Range(a) = {a[i] : i \in 1 .. n}
      /\ \A i \in 1 .. n : a[i] \in Domains
      /\ \A i, j \in 1 .. n : a[i] = a[j] => i = j
    BY ShuffledIs, ElementOfSeq DEF Shuffled
<1>2. CASE d \notin Range(p)
    <2>1. c = a
        BY <1>1, <1>2 DEF WithSticky
    <2> QED BY <1>2, <2>1
<1>3. CASE d \in Range(p)
    <2> DEFINE m == CHOOSE k \in 1 .. n : a[k] = d
               b == SubSeq(a, 1, m - 1)
               e == SubSeq(a, m + 1, n)
    <2>1. m \in 1 .. n /\ a[m] = d /\ n \in Nat \ {0} /\ d \in Domains
        BY <1>1, <1>3
    <2>2. c = <<d>> \o (b \o e)
        BY <1>1, <1>3 DEF WithSticky, RemoveAt
    <2> HIDE DEF m, n, c
    <2>3. /\ b \in Seq(Domains) /\ Len(b) = m - 1
          /\ \A i \in 1 .. m - 1 : b[i] = a[i]
        BY <1>1, <2>1, SubSeqProperties DEF n
    <2>4. /\ e \in Seq(Domains) /\ Len(e) = n - m
          /\ \A i \in 1 .. n - m : e[i] = a[m + i]
        <3>1. \A i \in m + 1 .. n : a[i] \in Domains
            BY <1>1, <2>1
        <3> QED BY <1>1, <2>1, <3>1, SubSeqProperties
    <2> HIDE DEF b, e
    <2>5. /\ b \o e \in Seq(Domains) /\ Len(b \o e) = n - 1
          /\ \A i \in 1 .. n - 1 : (b \o e)[i] = IF i < m THEN a[i] ELSE a[i + 1]
        <3>1. /\ b \o e \in Seq(Domains) /\ Len(b \o e) = (m - 1) + (n - m)
              /\ \A i \in 1 .. (m - 1) + (n - m) :
                    (b \o e)[i] = IF i <= m - 1 THEN b[i] ELSE e[i - (m - 1)]
            <4>1. /\ b \o e \in Seq(Domains) /\ Len(b \o e) = Len(b) + Len(e)
                  /\ \A i \in 1 .. Len(b) + Len(e) :
                        (b \o e)[i] = IF i <= Len(b) THEN b[i] ELSE e[i - Len(b)]
                BY <2>3, <2>4, ConcatProperties
            <4> QED BY <2>3, <2>4, <4>1
        <3>2. (m - 1) + (n - m) = n - 1
            BY <2>1
        <3>3. ASSUME NEW i \in 1 .. n - 1
              PROVE  (b \o e)[i] = IF i < m THEN a[i] ELSE a[i + 1]
            <4>1. CASE i < m
                BY <2>1, <2>3, <3>1, <3>2, <4>1
            <4>2. CASE i >= m
                <5>1. i - (m - 1) \in 1 .. n - m /\ m + (i - (m - 1)) = i + 1
                    BY <2>1, <4>2
                <5>2. e[i - (m - 1)] = a[m + (i - (m - 1))]
                    BY <2>4, <5>1
                <5>3. ~ (i <= m - 1) /\ ~ (i < m)
                    BY <2>1, <4>2
                <5>4. (b \o e)[i] = e[i - (m - 1)]
                    <6>1. (b \o e)[i] = IF i <= m - 1 THEN b[i] ELSE e[i - (m - 1)]
                        BY <3>1, <3>2
                    <6> QED BY <5>3, <6>1
                <5>5. (b \o e)[i] = a[i + 1]
                    <6>1. a[m + (i - (m - 1))] = a[i + 1]
                        BY <5>1
                    <6> QED BY <5>2, <5>4, <6>1
                <5> QED BY <5>3, <5>5
            <4>3. i < m \/ i >= m
                BY <2>1
            <4> QED BY <4>1, <4>2, <4>3
        <3> QED BY <3>1, <3>2, <3>3
    <2>6. <<d>> \in Seq(Domains) /\ Len(<<d>>) = 1 /\ <<d>>[1] = d
        BY <2>1
    <2>7. /\ c \in Seq(Domains) /\ Len(c) = n /\ c[1] = d
          /\ \A i \in 1 .. n - 1 : c[i + 1] = IF i < m THEN a[i] ELSE a[i + 1]
        <3> DEFINE f == b \o e
                   g == <<d>>
        <3> HIDE DEF f, g
        <3>1. /\ g \o f \in Seq(Domains) /\ Len(g \o f) = 1 + (n - 1)
              /\ \A i \in 1 .. 1 + (n - 1) :
                    (g \o f)[i] = IF i <= 1 THEN g[i] ELSE f[i - 1]
            BY <2>5, <2>6, ConcatProperties DEF f, g
        <3>2. c = g \o f
            BY <2>2 DEF f, g
        <3>3. 1 + (n - 1) = n /\ 1 \in 1 .. n
            BY <2>1
        <3>4. c[1] = d
            BY <2>6, <3>1, <3>2, <3>3 DEF g
        <3>5. ASSUME NEW i \in 1 .. n - 1
              PROVE  c[i + 1] = IF i < m THEN a[i] ELSE a[i + 1]
            <4>1. i + 1 \in 1 .. n /\ ~ (i + 1 <= 1) /\ (i + 1) - 1 = i
                BY <2>1
            <4>2. c[i + 1] = f[i]
                BY <3>1, <3>2, <3>3, <4>1
            <4> QED BY <2>5, <4>2 DEF f
        <3> QED BY <3>1, <3>2, <3>3, <3>4, <3>5
    <2>8. \A j \in 1 .. n :
            c[j] = IF j = 1 THEN a[m] ELSE IF j <= m THEN a[j - 1] ELSE a[j]
        <3> TAKE j \in 1 .. n
        <3>1. CASE j = 1
            BY <2>1, <2>7, <3>1
        <3>2. CASE j # 1
            <4>1. j - 1 \in 1 .. n - 1 /\ (j - 1) + 1 = j
                BY <2>1, <3>2
            <4>2. c[(j - 1) + 1] = IF j - 1 < m THEN a[j - 1] ELSE a[(j - 1) + 1]
                BY <2>7, <4>1
            <4>3. j - 1 < m <=> j <= m
                BY <2>1
            <4> QED BY <3>2, <4>1, <4>2, <4>3
        <3> QED BY <3>1, <3>2
    <2>9. \A i, j \in 1 .. n : c[i] = c[j] => i = j
        BY <1>1, <2>1, <2>8 DEF n
    <2>10. Range(c) = Range(a)
        <3>1. DOMAIN c = 1 .. n
            BY <2>7, LenProperties
        <3>2. \A j \in 1 .. n : \E i \in 1 .. n : c[j] = a[i]
            BY <2>1, <2>8
        <3>3. ASSUME NEW i \in 1 .. n
              PROVE  \E j \in 1 .. n : c[j] = a[i]
            <4>1. CASE i = m
                BY <2>1, <2>7, <4>1
            <4>2. CASE i < m
                <5>1. i + 1 \in 1 .. n /\ i \in 1 .. n - 1
                    BY <2>1, <4>2
                <5> QED BY <2>7, <4>2, <5>1
            <4>3. CASE i > m
                <5>1. i \in 1 .. n /\ ~ (i = 1) /\ ~ (i <= m)
                    BY <2>1, <4>3
                <5> QED BY <2>8, <5>1
            <4> QED BY <2>1, <4>1, <4>2, <4>3
        <3>4. Range(c) = {c[j] : j \in 1 .. n}
            BY <3>1 DEF Range
        <3>5. \A j \in 1 .. n : c[j] \in {a[i] : i \in 1 .. n}
            BY <3>2
        <3>6. \A i \in 1 .. n : a[i] \in {c[j] : j \in 1 .. n}
            BY <3>3
        <3>7. Range(a) = {a[i] : i \in 1 .. n}
            BY <1>1
        <3> QED BY <3>4, <3>5, <3>6, <3>7
    <2>11. Shuffled(c, p)
        BY <1>1, <2>1, <2>7, <2>9, <2>10 DEF Shuffled, n
    <2>12. InFront(c, a, d)
        BY <2>1, <2>7 DEF InFront, n
    <2> QED BY <1>3, <2>7, <2>11, <2>12 DEF c
<1> QED BY <1>2, <1>3

-----------------------------------------------------------------------------
(***************************************************************************)
(* The inductive invariant of the balancer, whatever happens to the pool:  *)
(* a session knows its DC, the list it read was a pool, and its order is   *)
(* that list shuffled, its sticky domain in front.                         *)
(***************************************************************************)
Sane(p, d, q, h, l) ==
    /\ p # "idle" => d \in DCs
    /\ p \in {"sticky", "order", "dial", "advance"} => q \in Pools
    /\ p = "dial" => Shuffled(l, q) /\ (h \in Range(q) => l[1] = h)

BInv ==
    /\ TypeOK
    /\ \A s \in Sessions : Sane(pc[s], dc[s], seen[s], hint[s], list[s])

\* It implies what is said of a session's list.
LEMMA ListsFollow == BInv => ListsAreWhole
BY ShuffledIs DEF BInv, Sane, ListsAreWhole, Shuffled

\* It is kept by a step that leaves the other sessions alone.
LEMMA OneSession ==
    ASSUME BInv, NEW s \in Sessions,
           NEW p \in {"idle", "sticky", "order", "dial", "measure", "advance"},
           NEW d \in DCs \cup {None}, NEW q \in Pools \cup {<<>>},
           NEW h \in Domains \cup {None}, NEW l \in Seq(Domains),
           Sane(p, d, q, h, l),
           pc' = [pc EXCEPT ![s] = p], dc' = [dc EXCEPT ![s] = d],
           seen' = [seen EXCEPT ![s] = q], hint' = [hint EXCEPT ![s] = h],
           list' = [list EXCEPT ![s] = l],
           pool' \in Pools, cursor' \in [DCs -> (0 .. Longest - 1) \cup {None}],
           sticky' \in [DCs -> Domains \cup {None}], rr' \in Nat
    PROVE  BInv'
<1>1. TypeOK /\ \A t \in Sessions : Sane(pc[t], dc[t], seen[t], hint[t], list[t])
    BY DEF BInv
<1>2. TypeOK'
    BY <1>1 DEF TypeOK
<1>3. ASSUME NEW t \in Sessions
      PROVE  Sane(pc'[t], dc'[t], seen'[t], hint'[t], list'[t])
    <2>1. CASE t = s
        BY <1>1, <2>1 DEF TypeOK
    <2>2. CASE t # s
        <3>1. /\ pc'[t] = pc[t] /\ dc'[t] = dc[t] /\ seen'[t] = seen[t]
              /\ hint'[t] = hint[t] /\ list'[t] = list[t]
            BY <1>1, <2>2 DEF TypeOK
        <3> QED BY <1>1, <3>1
    <2> QED BY <2>1, <2>2
<1> QED BY <1>2, <1>3 DEF BInv

\* The parts of a session's state, and that they stay when nothing is put there.
LEMMA SessionFacts ==
    ASSUME BInv, NEW s \in Sessions
    PROVE  /\ pc[s] \in {"idle", "sticky", "order", "dial", "measure", "advance"}
           /\ dc[s] \in DCs \cup {None} /\ seen[s] \in Pools \cup {<<>>}
           /\ hint[s] \in Domains \cup {None} /\ list[s] \in Seq(Domains)
           /\ Sane(pc[s], dc[s], seen[s], hint[s], list[s])
           /\ dc = [dc EXCEPT ![s] = dc[s]] /\ seen = [seen EXCEPT ![s] = seen[s]]
           /\ hint = [hint EXCEPT ![s] = hint[s]] /\ list = [list EXCEPT ![s] = list[s]]
           /\ pool \in Pools /\ cursor \in [DCs -> (0 .. Longest - 1) \cup {None}]
           /\ sticky \in [DCs -> Domains \cup {None}] /\ rr \in Nat
BY DEF BInv, TypeOK

\* The cursor a session goes by is an index.
LEMMA CursorIs ==
    ASSUME BInv, NEW d \in DCs, NEW n \in Nat \ {0}, n <= Longest
    PROVE  Cursor(d, n) \in 0 .. Longest - 1 /\ Cursor(d, n) \in Nat
<1>1. rr \in Nat /\ cursor[d] \in (0 .. Longest - 1) \cup {None} /\ Longest \in Nat
    BY BalancerAssumption DEF BInv, TypeOK
<1>2. rr % n \in 0 .. n - 1
    BY <1>1, Remainder
<1> QED BY <1>1, <1>2 DEF Cursor

\* What the pool's size is taken for.
LEMMA SizeIs ==
    ASSUME NEW p \in Pools
    PROVE  /\ Max({1, Len(p)}) \in Nat \ {0} /\ Max({1, Len(p)}) <= Longest
           /\ Longest \in Nat \ {0}
<1>1. Len(p) \in Nat /\ Len(p) <= Longest /\ Longest \in Nat \ {0}
    BY PoolIs, BalancerAssumption DEF Shuffled
<1> DEFINE k == Len(p)
<1> HIDE DEF k
<1>2. k \in Nat /\ k <= Longest
    BY <1>1 DEF k
<1>3. 1 \in Nat
    OBVIOUS
<1>4. Max({1, k}) = IF 1 >= k THEN 1 ELSE k
    BY <1>2, <1>3, OfTwo
<1>5. Max({1, k}) \in Nat \ {0} /\ Max({1, k}) <= Longest
    BY <1>1, <1>2, <1>4
<1> QED BY <1>1, <1>5 DEF k

\* Giving the cursor an index keeps its type, and a first use the round robin's.
LEMMA CursorKept ==
    ASSUME BInv, NEW d \in DCs, NEW i \in 0 .. Longest - 1, FirstUse(d),
           cursor' = [cursor EXCEPT ![d] = i]
    PROVE  rr' \in Nat /\ cursor' \in [DCs -> (0 .. Longest - 1) \cup {None}]
<1>1. cursor \in [DCs -> (0 .. Longest - 1) \cup {None}] /\ rr \in Nat
    BY DEF BInv, TypeOK
<1>2. rr' \in Nat
    BY <1>1 DEF FirstUse
<1> DEFINE S == (0 .. Longest - 1) \cup {None}
<1>3. cursor \in [DCs -> S] /\ i \in S
    BY <1>1
<1> HIDE DEF S
<1>4. cursor' \in [DCs -> S]
    BY <1>3
<1> QED BY <1>2, <1>4 DEF S

\* Wherever the cursor moves, it is an index of the pool or 0.
LEMMA MovedIs ==
    ASSUME NEW p \in Pools, NEW i \in Nat, NEW k \in Nat, NEW d
    PROVE  Moved(p, i, k, d) \in 0 .. Longest - 1
<1> DEFINE n == Max({1, Len(p)})
           j == (i + k) % n
<1>1. n \in Nat \ {0} /\ n <= Longest /\ Longest \in Nat \ {0}
    BY SizeIs
<1> HIDE DEF n
<1>2. i + k \in Nat
    OBVIOUS
<1>3. j \in 0 .. n - 1
    BY <1>1, <1>2, Remainder
<1>4. (j + 1) % n \in 0 .. n - 1
    BY <1>1, <1>3, Remainder
<1>5. Moved(p, i, k, d) \in {j, (j + 1) % n}
    BY DEF Moved, n
<1> QED BY <1>1, <1>3, <1>4, <1>5

\* A session that ends leaves nothing behind.
LEMMA DoneKeeps ==
    ASSUME BInv, NEW s \in Sessions, Done(s), UNCHANGED pool,
           cursor' \in [DCs -> (0 .. Longest - 1) \cup {None}],
           sticky' \in [DCs -> Domains \cup {None}], rr' \in Nat
    PROVE  BInv'
<1>1. Sane("idle", None, <<>>, None, <<>>)
    BY DEF Sane
<1>2. pool' \in Pools /\ <<>> \in Seq(Domains)
    BY SessionFacts
<1> QED BY <1>1, <1>2, OneSession DEF Done

\* Choosing keeps the invariant.
LEMMA ChooseKeeps ==
    ASSUME BInv, NEW s \in Sessions, Choose(s)
    PROVE  BInv'
<1>1. /\ dc[s] \in DCs \cup {None} /\ seen[s] \in Pools \cup {<<>>}
      /\ hint[s] \in Domains \cup {None} /\ list[s] \in Seq(Domains)
      /\ Sane(pc[s], dc[s], seen[s], hint[s], list[s])
      /\ pool \in Pools /\ cursor \in [DCs -> (0 .. Longest - 1) \cup {None}]
      /\ sticky \in [DCs -> Domains \cup {None}] /\ rr \in Nat
    BY SessionFacts
<1>2. /\ dc = [dc EXCEPT ![s] = dc[s]] /\ seen = [seen EXCEPT ![s] = seen[s]]
      /\ hint = [hint EXCEPT ![s] = hint[s]] /\ list = [list EXCEPT ![s] = list[s]]
    BY SessionFacts
<1>3. ASSUME NEW d \in DCs, ReadPool(s, d)
      PROVE  BInv'
    <2>1. Sane("sticky", d, pool, hint[s], list[s])
        BY <1>1 DEF Sane
    <2>2. /\ pc' = [pc EXCEPT ![s] = "sticky"] /\ dc' = [dc EXCEPT ![s] = d]
          /\ seen' = [seen EXCEPT ![s] = pool] /\ hint' = [hint EXCEPT ![s] = hint[s]]
          /\ list' = [list EXCEPT ![s] = list[s]]
          /\ UNCHANGED <<pool, cursor, sticky, rr>>
        BY <1>2, <1>3 DEF ReadPool
    <2> QED BY <1>1, <2>1, <2>2, OneSession
<1>4. CASE ReadSticky(s)
    <2>1. pc[s] = "sticky" /\ dc[s] \in DCs /\ seen[s] \in Pools
        BY <1>1, <1>4 DEF ReadSticky, Sane
    <2>2. sticky[dc[s]] \in Domains \cup {None}
        BY <1>1, <2>1
    <2>3. Sane("order", dc[s], seen[s], sticky[dc[s]], list[s])
        BY <2>1 DEF Sane
    <2>4. /\ pc' = [pc EXCEPT ![s] = "order"] /\ dc' = [dc EXCEPT ![s] = dc[s]]
          /\ seen' = [seen EXCEPT ![s] = seen[s]]
          /\ hint' = [hint EXCEPT ![s] = sticky[dc[s]]]
          /\ list' = [list EXCEPT ![s] = list[s]]
          /\ UNCHANGED <<pool, cursor, sticky, rr>>
        BY <1>2, <1>4 DEF ReadSticky
    <2> QED BY <1>1, <2>1, <2>2, <2>3, <2>4, OneSession
<1>5. CASE Order(s)
    <2> DEFINE p == seen[s]
               n == Len(p)
               d == dc[s]
    <2>1. pc[s] = "order" /\ d \in DCs /\ p \in Pools
        BY <1>1, <1>5 DEF Order, Sane
    <2>2. Shuffled(p, p) /\ n \in Nat /\ n <= Longest
        BY <2>1, PoolIs DEF Shuffled
    <2>3. /\ pc' = [pc EXCEPT ![s] = "dial"] /\ dc' = [dc EXCEPT ![s] = d]
          /\ seen' = [seen EXCEPT ![s] = p] /\ hint' = [hint EXCEPT ![s] = hint[s]]
          /\ UNCHANGED <<pool, sticky>>
        BY <1>2, <1>5 DEF Order
    <2>4. CASE n <= 1
        <3>1. list' = [list EXCEPT ![s] = p] /\ UNCHANGED <<cursor, rr>>
            BY <1>5, <2>4 DEF Order
        <3>2. hint[s] \in Range(p) => p[1] = hint[s]
            <4>1. Range(p) = {p[i] : i \in 1 .. n}
                BY <2>2, ShuffledIs
            <4>2. \A i \in 1 .. n : i = 1
                BY <2>2, <2>4
            <4> QED BY <4>1, <4>2
        <3>3. Sane("dial", d, p, hint[s], p) /\ p \in Seq(Domains)
            BY <2>1, <2>2, <3>2 DEF Sane, Shuffled
        <3> QED BY <1>1, <2>1, <2>3, <3>1, <3>3, OneSession
    <2>5. CASE n > 1
        <3> DEFINE i == Cursor(d, n)
                   a == Rotated(p, i)
                   l == WithSticky(a, hint[s])
        <3>1. /\ list' = [list EXCEPT ![s] = l] /\ cursor' = [cursor EXCEPT ![d] = i]
              /\ FirstUse(d)
            BY <1>5, <2>2, <2>5 DEF Order
        <3>2. i \in 0 .. Longest - 1 /\ i \in Nat
            BY <2>1, <2>2, <2>5, CursorIs
        <3> HIDE DEF i
        <3>3. Shuffled(a, p)
            BY <2>1, <2>2, <2>5, <3>2, RotatedIs
        <3>4. Shuffled(l, p) /\ (hint[s] \in Range(p) => l[1] = hint[s])
            BY <3>3, WithStickyIs
        <3>5. Sane("dial", d, p, hint[s], l) /\ l \in Seq(Domains)
            BY <2>1, <3>4 DEF Sane, Shuffled
        <3>6. rr' \in Nat /\ cursor' \in [DCs -> (0 .. Longest - 1) \cup {None}]
            BY <2>1, <3>1, <3>2, CursorKept
        <3> HIDE DEF l
        <3> QED BY <1>1, <2>1, <2>3, <3>1, <3>5, <3>6, OneSession
    <2> QED BY <2>2, <2>4, <2>5
<1> QED BY <1>3, <1>4, <1>5 DEF Choose

\* So does dialling and what comes of it.
LEMMA DialKeeps ==
    ASSUME BInv, NEW s \in Sessions, Succeed(s) \/ GiveUp(s)
    PROVE  BInv'
<1>1. /\ dc[s] \in DCs \cup {None} /\ seen[s] \in Pools \cup {<<>>}
      /\ hint[s] \in Domains \cup {None} /\ list[s] \in Seq(Domains)
      /\ Sane(pc[s], dc[s], seen[s], hint[s], list[s])
      /\ pool \in Pools /\ cursor \in [DCs -> (0 .. Longest - 1) \cup {None}]
      /\ sticky \in [DCs -> Domains \cup {None}] /\ rr \in Nat
    BY SessionFacts
<1>2. /\ dc = [dc EXCEPT ![s] = dc[s]] /\ seen = [seen EXCEPT ![s] = seen[s]]
      /\ hint = [hint EXCEPT ![s] = hint[s]] /\ list = [list EXCEPT ![s] = list[s]]
    BY SessionFacts
<1>3. ASSUME NEW d \in Domains, Connect(s, d)
      PROVE  BInv'
    <2>1. /\ sticky' = [sticky EXCEPT ![dc[s]] = d] /\ Done(s)
          /\ UNCHANGED <<pool, cursor, rr>>
        BY <1>3 DEF Connect
    <2>2. sticky' \in [DCs -> Domains \cup {None}]
        BY <1>1, <2>1
    <2> QED BY <1>1, <2>1, <2>2, DoneKeeps
<1>4. CASE DropSticky(s)
    <2>1. pc[s] = "dial" /\ dc[s] \in DCs
        BY <1>1, <1>4 DEF DropSticky, Sane
    <2>2. sticky[dc[s]] \in Domains \cup {None}
        BY <1>1, <2>1
    <2>3. Sane("measure", dc[s], seen[s], sticky[dc[s]], list[s])
        BY <2>1 DEF Sane
    <2>4. /\ pc' = [pc EXCEPT ![s] = "measure"] /\ dc' = [dc EXCEPT ![s] = dc[s]]
          /\ seen' = [seen EXCEPT ![s] = seen[s]]
          /\ hint' = [hint EXCEPT ![s] = sticky[dc[s]]]
          /\ list' = [list EXCEPT ![s] = list[s]]
          /\ UNCHANGED <<pool, cursor, rr>>
        BY <1>2, <1>4 DEF DropSticky
    <2>5. sticky' \in [DCs -> Domains \cup {None}]
        BY <1>1, <1>4 DEF DropSticky, StickyDropped
    <2> QED BY <1>1, <2>2, <2>3, <2>4, <2>5, OneSession
<1>5. CASE MeasurePool(s)
    <2>1. pc[s] = "measure" /\ dc[s] \in DCs
        BY <1>1, <1>5 DEF MeasurePool, Sane
    <2>2. Sane("advance", dc[s], pool, hint[s], list[s])
        BY <1>1, <2>1 DEF Sane
    <2>3. /\ pc' = [pc EXCEPT ![s] = "advance"] /\ dc' = [dc EXCEPT ![s] = dc[s]]
          /\ seen' = [seen EXCEPT ![s] = pool] /\ hint' = [hint EXCEPT ![s] = hint[s]]
          /\ list' = [list EXCEPT ![s] = list[s]]
          /\ UNCHANGED <<pool, cursor, sticky, rr>>
        BY <1>2, <1>5 DEF MeasurePool
    <2> QED BY <1>1, <2>2, <2>3, OneSession
<1>6. CASE Advance(s)
    <2> DEFINE p == seen[s]
               d == dc[s]
               n == Max({1, Len(p)})
               i == Cursor(d, n)
               k == By(s)
    <2>1. d \in DCs /\ p \in Pools
        BY <1>1, <1>6 DEF Advance, Sane
    <2>2. n \in Nat \ {0} /\ n <= Longest
        BY <2>1, SizeIs
    <2>3. /\ cursor' = [cursor EXCEPT ![d] = Moved(p, i, k, hint[s])] /\ FirstUse(d)
          /\ Done(s) /\ UNCHANGED <<pool, sticky>>
        BY <1>6 DEF Advance
    <2> HIDE DEF n
    <2>4. i \in Nat
        BY <2>1, <2>2, CursorIs
    <2>5. k \in Nat
        <3>1. Len(list[s]) \in Nat /\ \A j \in 1 .. Len(list[s]) : list[s][j] \in Domains
            BY <1>1, LenProperties, ElementOfSeq
        <3>2. Min({Attempts, Len(list[s])}) \in 0 .. Len(list[s])
            BY <3>1, OfTwo, BalancerAssumption
        <3> DEFINE m == Min({Attempts, Len(list[s])})
        <3> HIDE DEF m
        <3>3. m \in 0 .. Len(list[s])
            BY <3>2 DEF m
        <3>4. SubSeq(list[s], 1, m) \in Seq(Domains)
            BY <3>1, <3>3, SubSeqProperties
        <3>5. Len(SubSeq(list[s], 1, m)) \in Nat
            BY <3>4, LenProperties
        <3> QED BY <3>5 DEF By, Window, m
    <2> HIDE DEF i, k
    <2>6. Moved(p, i, k, hint[s]) \in 0 .. Longest - 1
        BY <2>1, <2>4, <2>5, MovedIs
    <2>7. rr' \in Nat /\ cursor' \in [DCs -> (0 .. Longest - 1) \cup {None}]
        BY <2>1, <2>3, <2>6, CursorKept
    <2> QED BY <1>1, <2>3, <2>7, DoneKeeps
<1> QED BY <1>3, <1>4, <1>5, <1>6 DEF Succeed, GiveUp

\* Another pool does not disturb the sessions, which have copies.
LEMMA SetPoolKeeps ==
    ASSUME BInv, NEW p \in Pools, SetPool(p)
    PROVE  BInv'
<1>1. TypeOK'
    BY DEF BInv, TypeOK, SetPool
<1>2. \A s \in Sessions : Sane(pc[s], dc[s], seen[s], hint[s], list[s])'
    BY DEF BInv, SetPool
<1> QED BY <1>1, <1>2 DEF BInv

\* Nobody has chosen a domain yet.
LEMMA BalancerStarts ==
    ASSUME pool \in Pools, Init
    PROVE  BInv
<1>1. TypeOK
    <2>1. <<>> \in Seq(Domains)
        OBVIOUS
    <2> QED BY <2>1 DEF Init, NoSession, TypeOK
<1>2. \A s \in Sessions : Sane(pc[s], dc[s], seen[s], hint[s], list[s])
    BY DEF Init, NoSession, Sane
<1> QED BY <1>1, <1>2 DEF BInv

-----------------------------------------------------------------------------
(***************************************************************************)
(* The pool.  What its properties say of a moment without a reload under   *)
(* way is inductive once the types are known: the refresh asks for a list  *)
(* that is long enough, and a reload decides anew.                         *)
(***************************************************************************)
ConfTypes ==
    /\ env \in Configs /\ conf \in Configs
    /\ reload \in {"never", "idle", "apply", "put"}
    /\ live \in Pools \cup {<<>>}

PoolInv == BInv /\ ConfTypes /\ NeverStranded /\ OptOutHolds

\* A configuration names a list of domains, has something set or not, and has
\* the shared pool on or not.
LEMMA ConfigIs ==
    ASSUME NEW c \in Configs
    PROVE  /\ c.own \in Pools /\ c.auto \in BOOLEAN /\ c.set \in BOOLEAN
           /\ c.own # <<>> => c.set
BY PoolAssumption

\* A list that is long enough to be taken over is not empty.
LEMMA LongEnough ==
    ASSUME NEW p \in Pools, Len(p) >= MinValid
    PROVE  p # <<>>
<1>1. MinValid \in Nat \ {0}
    BY PoolAssumption
<1>2. Len(<<>>) = 0
    OBVIOUS
<1> QED BY <1>1, <1>2

\* What a reload puts into the pool.
LEMMA AfterReloadIs ==
    ASSUME NEW c \in Configs, NEW p \in Pools \cup {<<>>}
    PROVE  /\ AfterReload(c, p) \in Pools
           /\ c.auto => AfterReload(c, p) # <<>>
           /\ c.own # <<>> \/ ~c.auto => AfterReload(c, p) = c.own
<1>1. c.own \in Pools /\ c.auto \in BOOLEAN
    BY ConfigIs
<1>2. Defaults \in Pools /\ Defaults # <<>>
    BY PoolAssumption
<1> QED BY <1>1, <1>2 DEF AfterReload

\* The daemon starts with the domains its environment names.
LEMMA PoolStarts == PoolInit => PoolInv
<1> SUFFICES ASSUME PoolInit PROVE PoolInv
    OBVIOUS
<1>1. /\ env \in Configs /\ env.own \in Pools /\ env.auto \in BOOLEAN
      /\ env.set \in BOOLEAN /\ (env.own # <<>> => env.set)
    BY ConfigIs DEF PoolInit
<1>2. Defaults \in Pools /\ Defaults # <<>>
    BY PoolAssumption
<1>3. pool \in Pools /\ conf = env /\ reload = "never" /\ live = <<>>
    BY <1>1, <1>2 DEF PoolInit
<1>4. BInv
    BY <1>3, BalancerStarts DEF PoolInit
<1>5. ConfTypes
    BY <1>1, <1>3 DEF ConfTypes
<1>6. NeverStranded /\ OptOutHolds
    BY <1>1, <1>2, <1>3 DEF PoolInit, Shares, NeverStranded, OptOutHolds
<1> QED BY <1>4, <1>5, <1>6 DEF PoolInv

\* Sessions leave the pool alone; a refresh and a reload keep its properties.
LEMMA PoolKeeps == PoolInv /\ [PoolNext]_poolVars => PoolInv'
<1> SUFFICES ASSUME PoolInv, [PoolNext]_poolVars
             PROVE  PoolInv'
    OBVIOUS
<1>1. BInv /\ ConfTypes /\ NeverStranded /\ OptOutHolds
    BY DEF PoolInv
<1>2. env \in Configs /\ conf \in Configs /\ live \in Pools \cup {<<>>}
    BY <1>1 DEF ConfTypes
<1>3. ASSUME NEW s \in Sessions, Step(s), UNCHANGED confVars
      PROVE  PoolInv'
    <2>1. BInv'
        BY <1>1, <1>3, ChooseKeeps, DialKeeps DEF Step
    <2>2. UNCHANGED <<env, conf, reload, live>>
        BY <1>3 DEF confVars
    <2>3. UNCHANGED pool
        BY <1>3 DEF Step, Choose, ReadPool, ReadSticky, Order, Succeed, Connect, GiveUp,
                    DropSticky, MeasurePool, Advance
    <2> QED BY <1>1, <2>1, <2>2, <2>3 DEF PoolInv, ConfTypes, NeverStranded, OptOutHolds
<1>4. ASSUME NEW p \in Fetches, Refresh(p)
      PROVE  PoolInv'
    <2>1. p \in Pools /\ SetPool(p) /\ pool' = p /\ Shares(env) /\ Len(p) >= MinValid
          /\ UNCHANGED <<env, conf, reload, live>>
        BY <1>4, PoolAssumption DEF Refresh, SetPool, confVars
    <2>2. BInv' /\ p # <<>>
        BY <1>1, <2>1, SetPoolKeeps, LongEnough
    <2>3. ~ (env.set \/ ~env.auto)
        BY <2>1 DEF Shares
    <2> QED BY <1>1, <2>1, <2>2, <2>3 DEF PoolInv, ConfTypes, NeverStranded, OptOutHolds
<1>5. ASSUME NEW c \in Configs, ReloadReads(c)
      PROVE  PoolInv'
    <2>1. /\ UNCHANGED <<pool, cursor, sticky, rr, pc, dc, seen, hint, list, env>>
          /\ conf' = c /\ live' = pool /\ reload' = "apply"
        BY <1>5 DEF ReloadReads, vars
    <2>2. pool \in Pools
        BY <1>1 DEF BInv, TypeOK
    <2>3. SetPool(pool)
        BY <2>1 DEF SetPool
    <2>4. BInv'
        BY <1>1, <2>2, <2>3, SetPoolKeeps
    <2> QED BY <1>1, <1>5, <2>1, <2>2, <2>4
            DEF PoolInv, ConfTypes, NeverStranded, OptOutHolds
<1>6. CASE ReloadApplies
    <2>1. conf.own \in Pools
        BY <1>2, ConfigIs
    <2>2. SetPool(conf.own) /\ reload' = "put" /\ UNCHANGED <<env, conf, live>>
        BY <1>6 DEF ReloadApplies
    <2>3. BInv'
        BY <1>1, <2>1, <2>2, SetPoolKeeps
    <2> QED BY <1>1, <2>2, <2>3 DEF PoolInv, ConfTypes, NeverStranded, OptOutHolds
<1>7. CASE ReloadPuts
    <2> DEFINE p == AfterReload(conf, live)
    <2>1. /\ p \in Pools /\ (conf.auto => p # <<>>)
          /\ (conf.own # <<>> \/ ~conf.auto => p = conf.own)
        BY <1>2, AfterReloadIs
    <2>2. SetPool(p) /\ pool' = p /\ reload' = "idle" /\ live' = <<>>
          /\ UNCHANGED <<env, conf>>
        BY <1>7 DEF ReloadPuts, SetPool
    <2> HIDE DEF p
    <2>3. BInv'
        BY <1>1, <2>1, <2>2, SetPoolKeeps
    <2>4. ConfTypes'
        BY <1>1, <2>2 DEF ConfTypes
    <2>5. NeverStranded' /\ OptOutHolds'
        BY <2>1, <2>2 DEF NeverStranded, OptOutHolds
    <2> QED BY <2>3, <2>4, <2>5 DEF PoolInv
<1>8. CASE UNCHANGED poolVars
    <2>1. UNCHANGED <<pool, cursor, sticky, rr, pc, dc, seen, hint, list>>
        BY <1>8 DEF poolVars, vars
    <2>2. UNCHANGED <<env, conf, reload, live>>
        BY <1>8 DEF poolVars, confVars
    <2>3. pool \in Pools /\ SetPool(pool)
        BY <1>1, <2>1 DEF BInv, TypeOK, SetPool
    <2>4. BInv'
        BY <1>1, <2>3, SetPoolKeeps
    <2> QED BY <1>1, <2>1, <2>2, <2>4 DEF PoolInv, ConfTypes, NeverStranded, OptOutHolds
<1> QED BY <1>3, <1>4, <1>5, <1>6, <1>7, <1>8 DEF PoolNext

(***************************************************************************)
(* The invariant holds throughout: for any number of sessions and DCs,     *)
(* whatever the lists, the environment and the files.                      *)
(***************************************************************************)
THEOREM PoolInvariant == PoolSpec => []PoolInv
<1>1. PoolInit => PoolInv
    BY PoolStarts
<1>2. PoolInv /\ [PoolNext]_poolVars => PoolInv'
    BY PoolKeeps
<1> QED BY <1>1, <1>2, PTL DEF PoolSpec

\* Every variable has its type; cursors stay indices of the longest list.
THEOREM PoolTypes == PoolSpec => []PoolTypeOK
<1>1. PoolInv => PoolTypeOK
    BY DEF PoolInv, BInv, ConfTypes, PoolTypeOK
<1> QED BY <1>1, PoolInvariant, PTL

(***************************************************************************)
(* Whatever happens to the pool, the cursor and the sticky domain while a  *)
(* session puts its list together (proxy_domains_for_dc()), the list names *)
(* every domain of the pool it read once, the sticky domain first.         *)
(***************************************************************************)
THEOREM WholeLists == PoolSpec => []ListsAreWhole
<1>1. PoolInv => ListsAreWhole
    BY ListsFollow DEF PoolInv
<1> QED BY <1>1, PoolInvariant, PTL

(***************************************************************************)
(* No sequence of reloads and refreshes ends in a reload that leaves a     *)
(* router whose file has the shared pool on without a domain               *)
(* (proxy_pool_after_reload()).                                            *)
(***************************************************************************)
THEOREM StrandedNever == PoolSpec => []NeverStranded
<1>1. PoolInv => NeverStranded
    BY DEF PoolInv
<1> QED BY <1>1, PoolInvariant, PTL

\* A router that started without the shared pool (user_proxy_domains_configured())
\* and still does without uses its own domains only.
THEOREM OptOut == PoolSpec => []OptOutHolds
<1>1. PoolInv => OptOutHolds
    BY DEF PoolInv
<1> QED BY <1>1, PoolInvariant, PTL

-----------------------------------------------------------------------------
(***************************************************************************)
(* The outage.  A session that has its DC to itself knows its order from   *)
(* the cursor and the sticky domain, which nobody else moves meanwhile; of *)
(* one that has not, nothing is claimed until the DC is somebody's alone   *)
(* again.                                                                  *)
(***************************************************************************)
Listed(p, c, h) == IF Len(p) <= 1 THEN p ELSE WithSticky(Rotated(p, c), h)

Opening(l) == SubSeq(l, 1, Min({Attempts, Len(l)}))

\* After a failed session of a DC the cursor is at a domain that session left out.
PastWindow(p, c, f) ==
    Range(p) \subseteq f \/ (Len(p) > 1 /\ p[(c % Len(p)) + 1] \notin f)

Elsewhere(d) ==
    Len(pool) # Attempts + 1 =>
        failed[d] = {} \/ (sticky[d] = None /\ PastWindow(pool, cursor[d], failed[d]))

Tracked(s) ==
    LET d == dc[s] IN
    /\ pc[s] \in {"sticky", "order", "dial", "advance"} => seen[s] = pool
    /\ pc[s] \in {"order", "dial"} => hint[s] = sticky[d]
    /\ pc[s] \in {"dial", "measure", "advance"} => list[s] = Listed(pool, cursor[d], hint[s])
    /\ pc[s] \in {"measure", "advance"} =>
          sticky[d] = None /\ failed[d] = Range(Opening(list[s]))

Failing(d) == \E s \in alone : pc[s] \in {"measure", "advance"} /\ dc[s] = d

OutageInv ==
    /\ BInv
    /\ cursor \in [DCs -> 0 .. Longest - 1]
    /\ failed \in [DCs -> SUBSET Domains]
    /\ alone \subseteq Sessions
    /\ \A s \in alone : pc[s] # "idle" => Others(s, dc[s]) = {}
    /\ \A s \in Sessions \ alone : pc[s] # "idle" => failed[dc[s]] = {}
    /\ \A s \in alone : Tracked(s)
    /\ \A d \in DCs : Failing(d) \/ Elsewhere(d)

\* A session's order, whatever the cursor and the sticky domain.
LEMMA ListedIs ==
    ASSUME NEW p \in Pools, NEW c \in Nat, NEW h
    PROVE  Shuffled(Listed(p, c, h), p)
<1>1. Shuffled(p, p) /\ Len(p) \in Nat
    BY PoolIs DEF Shuffled
<1>2. CASE Len(p) > 1
    <2>1. Shuffled(Rotated(p, c), p)
        BY <1>1, <1>2, RotatedIs
    <2>2. Shuffled(WithSticky(Rotated(p, c), h), p)
        BY <2>1, WithStickyIs
    <2> QED BY <1>1, <1>2, <2>2 DEF Listed
<1> QED BY <1>1, <1>2 DEF Listed

\* A session dials the first of its order.
LEMMA OpeningIs ==
    ASSUME NEW p, NEW l, Shuffled(l, p), Len(l) > 0
    PROVE  LET k == IF Attempts <= Len(l) THEN Attempts ELSE Len(l) IN
           /\ Len(Opening(l)) = k
           /\ Range(Opening(l)) = {l[i] : i \in 1 .. k}
           /\ Range(Opening(l)) \subseteq Domains
<1> DEFINE n == Len(l)
           k == IF Attempts <= n THEN Attempts ELSE n
           o == Opening(l)
<1>1. n \in Nat \ {0} /\ Attempts \in Nat \ {0} /\ \A i \in 1 .. n : l[i] \in Domains
    BY ElementOfSeq, BalancerAssumption DEF Shuffled
<1>2. Min({Attempts, n}) = k
    BY <1>1, OfTwo
<1>3. o = SubSeq(l, 1, k)
    BY <1>2 DEF Opening
<1> HIDE DEF o, n
<1>4. k \in 1 .. n
    BY <1>1
<1> HIDE DEF k
<1>5. \A i \in 1 .. k : l[i] \in Domains
    BY <1>1, <1>4
<1>6. o \in Seq(Domains) /\ Len(o) = k /\ \A i \in 1 .. k : o[i] = l[i]
    BY <1>1, <1>3, <1>5, <1>4, SubSeqProperties DEF Shuffled
<1>7. DOMAIN o = 1 .. k
    BY <1>6, LenProperties
<1>8. Range(o) = {o[i] : i \in 1 .. k}
    BY <1>7 DEF Range
<1>9. Range(o) = {l[i] : i \in 1 .. k}
    BY <1>6, <1>8
<1> QED BY <1>5, <1>6, <1>9 DEF o, n, k

(***************************************************************************)
(* advance_proxy_domains_for_dc() moves the cursor past all that was       *)
(* dialled: the domain it comes to was not, if any of the pool was not.    *)
(* The one pool size left out is the one StartsElsewhere leaves out.       *)
(***************************************************************************)
LEMMA MovesPast ==
    ASSUME NEW p \in Pools, NEW c \in Nat, NEW h \in Domains \cup {None},
           Len(p) # Attempts + 1
    PROVE  LET o == Opening(Listed(p, c, h)) IN
           PastWindow(p, Moved(p, c, Len(o), h), Range(o))
<1> DEFINE n == Len(p)
           A == Attempts
           l == Listed(p, c, h)
           o == Opening(l)
           i == Moved(p, c, Len(o), h)
<1>1. Shuffled(p, p) /\ n \in Nat /\ A \in Nat \ {0} /\ n # A + 1
    BY PoolIs, BalancerAssumption DEF Shuffled
<1>2. Shuffled(l, p) /\ Len(l) = n /\ Range(l) = {l[k] : k \in 1 .. n} /\ Range(l) = Range(p)
    BY ListedIs, ShuffledIs DEF Shuffled
<1>3. Range(p) = {p[k] : k \in 1 .. n}
    BY <1>1, ShuffledIs
<1>4. CASE n = 0
    <2>1. Range(p) = {}
        BY <1>3, <1>4
    <2> QED BY <2>1 DEF PastWindow
<1>5. CASE n > 0 /\ n <= A
    <2>1. Range(o) = {l[k] : k \in 1 .. n}
        BY <1>1, <1>2, <1>5, OpeningIs
    <2> QED BY <1>2, <2>1 DEF PastWindow
<1>6. CASE n > A + 1
    <2> DEFINE a == Rotated(p, c)
               j == (c + A) % n
               t == IF a[A + 1] = h THEN A + 2 ELSE A + 1
    <2>1. /\ Shuffled(a, p) /\ Len(a) = n
          /\ \A k \in 1 .. n : a[k] = p[((c + (k - 1)) % n) + 1]
          /\ \A k, m \in 1 .. n : a[k] = a[m] => k = m
        BY <1>1, <1>6, RotatedIs DEF Shuffled
    <2>2. l = WithSticky(a, h)
        BY <1>1, <1>6 DEF Listed
    <2>3. Len(o) = A /\ Range(o) = {l[k] : k \in 1 .. A}
        BY <1>1, <1>2, <1>6, OpeningIs
    <2>4. A + 1 \in 1 .. n /\ A + 2 \in 1 .. n /\ t \in 1 .. n
        BY <1>1, <1>6
    <2> HIDE DEF a, l, o
    <2>5. i \in 0 .. n - 1 /\ p[i + 1] = a[t]
        <3>1. Max({1, n}) = n
            <4>1. 1 \in Nat /\ n \in Nat /\ (1 >= n => n = 1)
                BY <1>1, <1>6
            <4> HIDE DEF n
            <4>2. Max({1, n}) = IF 1 >= n THEN 1 ELSE n
                BY <4>1, OfTwo
            <4> QED BY <4>1, <4>2
        <3>2. c + A \in Nat /\ j \in 0 .. n - 1 /\ (j + 1) % n \in 0 .. n - 1 /\ n \in Nat \ {0}
            <4>1. n \in Nat \ {0} /\ c + A \in Nat
                BY <1>1, <1>6
            <4> HIDE DEF n
            <4>2. j \in 0 .. n - 1
                BY <4>1, Remainder
            <4> DEFINE k == j + 1
            <4>3. k \in Nat
                BY <4>1, <4>2
            <4> HIDE DEF k
            <4>4. k % n \in 0 .. n - 1
                BY <4>1, <4>3, Remainder
            <4> QED BY <4>1, <4>2, <4>4 DEF k
        <3>3. (j + 1) % n = (c + A + 1) % n
            BY <3>2, RemainderOfSum
        <3>4. a[A + 1] = p[j + 1] /\ a[A + 2] = p[((j + 1) % n) + 1]
            <4>1. c + ((A + 1) - 1) = c + A /\ c + ((A + 2) - 1) = c + A + 1
                BY <1>1
            <4>2. /\ a[A + 1] = p[((c + ((A + 1) - 1)) % n) + 1]
                  /\ a[A + 2] = p[((c + ((A + 2) - 1)) % n) + 1]
                BY <2>1, <2>4
            <4> QED BY <3>3, <4>1, <4>2
        <3>5. i = IF (IF j < n THEN p[j + 1] ELSE None) = h THEN (j + 1) % n ELSE j
            BY <2>3, <3>1 DEF Moved
        <3> HIDE DEF i, j, n
        <3>6. i = IF p[j + 1] = h THEN (j + 1) % n ELSE j
            BY <3>2, <3>5
        <3> QED BY <3>2, <3>4, <3>6
    <2>6. i % n = i
        BY <1>1, <1>6, <2>5, Round
    <2>7. a[t] \notin Range(o)
        <3>1. CASE h \notin Range(p)
            <4>1. l = a
                BY <2>1, <2>2, <3>1, WithStickyIs
            <4>2. \A k \in 1 .. A : k \in 1 .. n /\ k # t
                BY <1>1, <1>6
            <4> QED BY <2>1, <2>3, <2>4, <4>1, <4>2
        <3>2. CASE h \in Range(p)
            <4>1. l[1] = h /\ InFront(l, a, h)
                BY <2>1, <2>2, <3>2, WithStickyIs
            <4>2. PICK m \in 1 .. n :
                    /\ a[m] = h /\ l[1] = h
                    /\ \A k \in 1 .. n - 1 : l[k + 1] = IF k < m THEN a[k] ELSE a[k + 1]
                BY <2>1, <4>1 DEF InFront
            <4>3. a[t] # h
                <5>1. CASE a[A + 1] = h
                    <6>1. m = A + 1 /\ t # m
                        BY <1>1, <2>1, <2>4, <4>2, <5>1
                    <6> QED BY <2>1, <2>4, <4>2, <6>1
                <5>2. CASE a[A + 1] # h
                    BY <5>2
                <5> QED BY <5>1, <5>2
            <4>4. ASSUME NEW k \in 1 .. A, k # 1
                  PROVE  l[k] # a[t]
                <5>1. /\ k - 1 \in 1 .. n - 1 /\ (k - 1) + 1 = k
                      /\ k \in 1 .. n /\ k - 1 \in 1 .. n /\ k # t /\ k - 1 # t
                    BY <1>1, <1>6, <4>4
                <5>2. l[k] = IF k - 1 < m THEN a[k - 1] ELSE a[k]
                    BY <4>2, <5>1
                <5> QED BY <2>1, <2>4, <5>1, <5>2
            <4> QED BY <2>3, <4>2, <4>3, <4>4
        <3> QED BY <3>1, <3>2
    <2>8. n > 1 /\ p[(i % n) + 1] \notin Range(o)
        <3>1. n > 1
            BY <1>1, <1>6
        <3>2. p[(i % n) + 1] = a[t]
            BY <2>5, <2>6
        <3> QED BY <2>7, <3>1, <3>2
    <2> HIDE DEF i
    <2>9. PastWindow(p, i, Range(o))
        BY <2>8 DEF PastWindow
    <2> QED BY <2>9 DEF i, o, l
<1> QED BY <1>1, <1>4, <1>5, <1>6

\* The outage begins with nobody dialling and nothing watched.
LEMMA OutageStarts == OutageInit => OutageInv
<1> SUFFICES ASSUME OutageInit PROVE OutageInv
    OBVIOUS
<1>1. /\ pool \in Pools /\ cursor \in [DCs -> 0 .. Longest - 1]
      /\ sticky \in [DCs -> Domains \cup {None}] /\ rr \in Nat
      /\ NoSession /\ failed = [d \in DCs |-> {}] /\ alone = {}
    BY FS_CardinalityType, BalancerAssumption DEF OutageInit
<1>2. cursor \in [DCs -> (0 .. Longest - 1) \cup {None}]
    BY <1>1
<1>3. TypeOK
    <2>1. <<>> \in Seq(Domains)
        OBVIOUS
    <2> QED BY <1>1, <1>2, <2>1 DEF NoSession, TypeOK
<1>4. BInv
    BY <1>1, <1>3 DEF BInv, NoSession, Sane
<1>5. \A d \in DCs : Elsewhere(d)
    BY <1>1 DEF Elsewhere
<1>6. \A s \in Sessions : pc[s] = "idle"
    BY <1>1 DEF NoSession
<1> QED BY <1>1, <1>4, <1>5, <1>6 DEF OutageInv

\* What a session under way may rely on.
LEMMA UnderWay ==
    ASSUME OutageInv, NEW s \in Sessions, pc[s] # "idle"
    PROVE  LET d == dc[s] IN
           /\ pool \in Pools /\ hint[s] \in Domains \cup {None}
           /\ list[s] \in Seq(Domains)
           /\ pc[s] \in {"sticky", "order", "dial", "advance"} => seen[s] \in Pools
           /\ d \in DCs /\ cursor[d] \in Nat /\ \A n : Cursor(d, n) = cursor[d]
           /\ s \notin alone => failed[d] = {}
           /\ s \in alone => Tracked(s) /\ Others(s, d) = {}
           /\ s \in alone /\ pc[s] \notin {"measure", "advance"} => Elsewhere(d)
<1> DEFINE d == dc[s]
<1>1. /\ pool \in Pools /\ hint[s] \in Domains \cup {None} /\ list[s] \in Seq(Domains)
      /\ Sane(pc[s], d, seen[s], hint[s], list[s])
    BY SessionFacts DEF OutageInv
<1>2. d \in DCs /\ (pc[s] \in {"sticky", "order", "dial", "advance"} => seen[s] \in Pools)
    BY <1>1 DEF Sane
<1>3. cursor[d] \in 0 .. Longest - 1 /\ Longest \in Nat
    BY <1>2, BalancerAssumption DEF OutageInv
<1>4. cursor[d] \in Nat /\ None \notin Nat
    BY <1>3, BalancerAssumption
<1>5. ASSUME s \in alone, pc[s] \notin {"measure", "advance"}, Failing(d)
      PROVE  FALSE
    <2>1. PICK t \in alone : pc[t] \in {"measure", "advance"} /\ dc[t] = d
        BY <1>5 DEF Failing
    <2>2. t \in Others(s, d)
        BY <1>5, <2>1 DEF OutageInv, Others
    <2> QED BY <1>5, <2>2 DEF OutageInv
<1> QED BY <1>1, <1>2, <1>4, <1>5 DEF Cursor, OutageInv

(***************************************************************************)
(* A session's step at its own DC: sessions that have another DC to        *)
(* themselves see nothing of it, and no session has this one to itself     *)
(* beside it.                                                              *)
(***************************************************************************)
LEMMA OwnStep ==
    ASSUME OutageInv, NEW s \in Sessions, NEW d \in DCs, pc[s] # "idle", dc[s] = d, BInv',
           UNCHANGED <<pool, alone>>,
           \A t \in Sessions : t # s =>
              /\ pc'[t] = pc[t] /\ dc'[t] = dc[t] /\ seen'[t] = seen[t]
              /\ hint'[t] = hint[t] /\ list'[t] = list[t],
           pc'[s] = "idle" \/ dc'[s] = d,
           cursor' \in [DCs -> 0 .. Longest - 1], failed' \in [DCs -> SUBSET Domains],
           \A e \in DCs : e # d =>
              cursor'[e] = cursor[e] /\ sticky'[e] = sticky[e] /\ failed'[e] = failed[e],
           s \notin alone => failed'[d] = {},
           s \in alone => Tracked(s)',
           s \in alone => Elsewhere(d)' \/ pc'[s] \in {"measure", "advance"}
    PROVE  OutageInv'
<1>1. /\ d \in DCs /\ alone \subseteq Sessions
      /\ s \notin alone => failed[d] = {}
      /\ s \in alone => Others(s, d) = {}
    BY UnderWay DEF OutageInv
<1>2. ASSUME NEW t \in alone, t # s
      PROVE  /\ t \in Sessions /\ pc[t] # "idle" => dc[t] # d /\ dc[t] \in DCs
             /\ Tracked(t)
    <2>1. t \in Sessions /\ Tracked(t) /\ (pc[t] # "idle" => Others(t, dc[t]) = {})
        BY DEF OutageInv
    <2>2. pc[t] # "idle" => dc[t] # d
        <3>1. dc[t] = d => s \in Others(t, dc[t])
            BY <1>2 DEF Others
        <3> QED BY <2>1, <3>1
    <2>3. pc[t] # "idle" => dc[t] \in DCs
        BY <2>1, UnderWay
    <2> QED BY <2>1, <2>2, <2>3
<1>3. ASSUME NEW t \in alone, pc'[t] # "idle"
      PROVE  Others(t, dc[t])' = {}
    <2> SUFFICES ASSUME NEW u \in Sessions, u # t, pc'[u] # "idle", dc'[u] = dc'[t]
                 PROVE  FALSE
        BY DEF Others
    <2>1. CASE t = s
        <3>1. u \in Others(s, d)
            BY <1>3, <2>1 DEF Others
        <3> QED BY <1>1, <2>1, <3>1
    <2>2. CASE t # s
        <3>1. pc[t] # "idle" /\ dc'[t] = dc[t] /\ dc[t] # d
            BY <1>1, <1>2, <1>3, <2>2
        <3>2. u # s
            BY <2>2, <3>1
        <3>3. u \in Others(t, dc[t])
            BY <3>1, <3>2 DEF Others
        <3> QED BY <3>1, <3>3 DEF OutageInv
    <2> QED BY <2>1, <2>2
<1>4. ASSUME NEW t \in Sessions \ alone, pc'[t] # "idle"
      PROVE  failed'[dc'[t]] = {}
    <2>1. CASE t = s
        BY <1>4, <2>1
    <2>2. CASE t # s
        <3>1. pc[t] # "idle" /\ dc'[t] = dc[t]
            BY <2>2, <1>4
        <3>2. dc[t] \in DCs /\ failed[dc[t]] = {}
            BY <1>4, <3>1, UnderWay
        <3>3. CASE dc[t] = d
            <4>1. t \in Others(s, d)
                BY <2>2, <3>1, <3>3 DEF Others
            <4> QED BY <1>1, <3>1, <3>3, <4>1
        <3> QED BY <3>1, <3>2, <3>3
    <2> QED BY <2>1, <2>2
<1>5. ASSUME NEW t \in alone
      PROVE  Tracked(t)'
    <2>1. CASE t # s /\ pc[t] # "idle"
        <3>1. /\ pc'[t] = pc[t] /\ dc'[t] = dc[t] /\ seen'[t] = seen[t]
              /\ hint'[t] = hint[t] /\ list'[t] = list[t]
            BY <1>1, <2>1
        <3>2. /\ Tracked(t) /\ cursor'[dc[t]] = cursor[dc[t]]
              /\ sticky'[dc[t]] = sticky[dc[t]] /\ failed'[dc[t]] = failed[dc[t]]
            BY <1>1, <1>2, <2>1
        <3> QED BY <3>1, <3>2 DEF Tracked
    <2>2. CASE t # s /\ pc[t] = "idle"
        <3>1. pc'[t] = "idle"
            BY <1>1, <2>2
        <3> QED BY <3>1 DEF Tracked
    <2>3. CASE t = s
        BY <2>3
    <2> QED BY <2>1, <2>2, <2>3
<1>6. ASSUME NEW e \in DCs
      PROVE  Failing(e)' \/ Elsewhere(e)'
    <2>1. CASE e # d
        <3>1. CASE Failing(e)
            <4>1. PICK t \in alone : pc[t] \in {"measure", "advance"} /\ dc[t] = e
                BY <3>1 DEF Failing
            <4>2. t # s /\ t \in Sessions
                BY <1>1, <2>1, <4>1
            <4>3. pc'[t] = pc[t] /\ dc'[t] = dc[t]
                BY <4>2
            <4> QED BY <4>1, <4>3 DEF Failing
        <3>2. CASE Elsewhere(e)
            BY <2>1, <3>2 DEF Elsewhere
        <3> QED BY <3>1, <3>2 DEF OutageInv
    <2>2. CASE e = d /\ s \in alone
        <3>1. CASE pc'[s] \in {"measure", "advance"}
            BY <2>2, <3>1 DEF Failing
        <3> QED BY <2>2, <3>1
    <2>3. CASE e = d /\ s \notin alone
        BY <2>3 DEF Elsewhere
    <2> QED BY <2>1, <2>2, <2>3
<1>7. \A t \in alone : pc'[t] # "idle" => Others(t, dc[t])' = {}
    BY <1>3
<1>8. /\ BInv' /\ alone' = alone /\ alone \subseteq Sessions
      /\ cursor' \in [DCs -> 0 .. Longest - 1] /\ failed' \in [DCs -> SUBSET Domains]
    BY <1>1
<1> QED BY <1>4, <1>5, <1>6, <1>7, <1>8 DEF OutageInv

\* A session that comes has its DC to itself, or takes that from the others.
LEMMA Coming ==
    ASSUME OutageInv, NEW s \in Sessions, NEW d \in DCs, Returns(s, d)
    PROVE  OutageInv'
<1>1. /\ TypeOK /\ cursor \in [DCs -> 0 .. Longest - 1]
      /\ failed \in [DCs -> SUBSET Domains] /\ alone \subseteq Sessions
    BY DEF OutageInv, BInv
<1>2. BInv'
    BY ChooseKeeps DEF OutageInv, Returns, Choose
<1>3. /\ pc[s] = "idle" /\ pc'[s] = "sticky" /\ dc'[s] = d /\ seen'[s] = pool
      /\ UNCHANGED <<pool, cursor, sticky, hint, list>>
      /\ \A t \in Sessions : t # s => pc'[t] = pc[t] /\ dc'[t] = dc[t] /\ seen'[t] = seen[t]
    BY <1>1 DEF Returns, ReadPool, TypeOK
<1>4. /\ alone' \subseteq alone \cup {s}
      /\ \A t \in alone' : t # s /\ pc[t] # "idle" => dc[t] # d
      /\ s \in alone' => Others(s, d) = {}
      /\ \A t \in Sessions \ alone' :
            (t \notin alone /\ t # s) \/ (failed'[d] = {} /\ (t = s \/ dc[t] = d))
      /\ \A t \in alone : t # s => t \in alone' \/ dc[t] = d
      /\ failed' \in [DCs -> SUBSET Domains]
      /\ \A e \in DCs : failed'[e] = failed[e] \/ (e = d /\ failed'[e] = {})
    <2>1. CASE Others(s, d) = {}
        <3>1. alone' = alone \cup {s} /\ failed' = failed
            BY <2>1 DEF Returns
        <3>2. \A t \in Sessions : t # s /\ pc[t] # "idle" => dc[t] # d
            BY <2>1 DEF Others
        <3> QED BY <1>1, <2>1, <3>1, <3>2
    <2>2. CASE Others(s, d) # {}
        <3>1. /\ alone' = alone \ (Others(s, d) \cup {s})
              /\ failed' = [failed EXCEPT ![d] = {}]
            BY <2>2 DEF Returns
        <3>2. failed' \in [DCs -> SUBSET Domains] /\ failed'[d] = {}
              /\ \A e \in DCs : e # d => failed'[e] = failed[e]
            BY <1>1, <3>1
        <3>3. \A t \in Sessions : t \in Others(s, d) <=> t # s /\ pc[t] # "idle" /\ dc[t] = d
            BY DEF Others
        <3> QED BY <1>1, <3>1, <3>2, <3>3
    <2> QED BY <2>1, <2>2
<1>5. ASSUME NEW t \in alone', pc'[t] # "idle"
      PROVE  Others(t, dc[t])' = {}
    <2> SUFFICES ASSUME NEW u \in Sessions, u # t, pc'[u] # "idle", dc'[u] = dc'[t]
                 PROVE  FALSE
        BY DEF Others
    <2>1. CASE t = s
        <3>1. u \in Others(s, d)
            BY <1>3, <2>1 DEF Others
        <3> QED BY <1>4, <2>1, <3>1
    <2>2. CASE t # s
        <3>1. t \in alone /\ pc[t] # "idle" /\ dc'[t] = dc[t] /\ dc[t] # d
            BY <1>1, <1>3, <1>4, <1>5, <2>2
        <3>2. u # s
            BY <1>3, <3>1
        <3>3. u \in Others(t, dc[t])
            BY <1>3, <3>1, <3>2 DEF Others
        <3> QED BY <3>1, <3>3 DEF OutageInv
    <2> QED BY <2>1, <2>2
<1>6. ASSUME NEW t \in Sessions \ alone', pc'[t] # "idle"
      PROVE  failed'[dc'[t]] = {}
    <2>1. CASE t \notin alone /\ t # s
        <3>1. pc[t] # "idle" /\ dc'[t] = dc[t]
            BY <1>3, <1>6, <2>1
        <3>2. dc[t] \in DCs /\ failed[dc[t]] = {}
            BY <2>1, <3>1, UnderWay
        <3> QED BY <1>4, <3>1, <3>2
    <2>2. CASE failed'[d] = {} /\ (t = s \/ dc[t] = d)
        BY <1>3, <2>2
    <2> QED BY <1>4, <2>1, <2>2
<1>7. ASSUME NEW t \in alone'
      PROVE  Tracked(t)'
    <2>1. CASE t = s
        BY <1>3, <2>1 DEF Tracked
    <2>2. CASE t # s /\ pc[t] = "idle"
        <3>1. pc'[t] = "idle"
            BY <1>1, <1>3, <1>4, <2>2
        <3> QED BY <3>1 DEF Tracked
    <2>3. CASE t # s /\ pc[t] # "idle"
        <3>1. t \in alone /\ t \in Sessions /\ dc[t] # d
            BY <1>1, <1>4, <2>3
        <3>2. Tracked(t) /\ dc[t] \in DCs
            BY <2>3, <3>1, UnderWay
        <3>3. /\ pc'[t] = pc[t] /\ dc'[t] = dc[t] /\ seen'[t] = seen[t]
              /\ failed'[dc[t]] = failed[dc[t]]
            BY <1>3, <1>4, <2>3, <3>1, <3>2
        <3> QED BY <1>3, <3>2, <3>3 DEF Tracked
    <2> QED BY <2>1, <2>2, <2>3
<1>8. ASSUME NEW e \in DCs
      PROVE  Failing(e)' \/ Elsewhere(e)'
    <2>1. CASE failed'[e] = {}
        BY <2>1 DEF Elsewhere
    <2>2. CASE failed'[e] = failed[e] /\ Elsewhere(e)
        BY <1>3, <2>2 DEF Elsewhere
    <2>3. CASE failed'[e] # {} /\ Failing(e)
        <3>1. PICK t \in alone : pc[t] \in {"measure", "advance"} /\ dc[t] = e
            BY <2>3 DEF Failing
        <3>2. t \in Sessions /\ t # s
            BY <1>1, <1>3, <3>1
        <3>3. t \in alone'
            BY <1>4, <2>3, <3>1, <3>2
        <3>4. pc'[t] = pc[t] /\ dc'[t] = dc[t]
            BY <1>3, <3>2
        <3> QED BY <3>1, <3>3, <3>4 DEF Failing
    <2> QED BY <1>4, <2>1, <2>2, <2>3 DEF OutageInv
<1>9. alone' \subseteq Sessions /\ cursor' \in [DCs -> 0 .. Longest - 1]
    BY <1>1, <1>3, <1>4
<1>10. \A t \in alone' : pc'[t] # "idle" => Others(t, dc[t])' = {}
    BY <1>5
<1> QED BY <1>2, <1>4, <1>6, <1>7, <1>8, <1>9, <1>10 DEF OutageInv

\* While a session chooses, nothing moves.
LEMMA ChoosesStill ==
    ASSUME OutageInv, NEW s \in Sessions, ReadSticky(s) \/ Order(s),
           UNCHANGED <<failed, alone>>
    PROVE  OutageInv'
<1>0. PICK d \in DCs : dc[s] = d
    BY UnderWay DEF ReadSticky, Order
<1>1. /\ TypeOK /\ cursor \in [DCs -> 0 .. Longest - 1]
      /\ failed \in [DCs -> SUBSET Domains]
    BY DEF OutageInv, BInv
<1>2. BInv'
    BY ChooseKeeps DEF OutageInv, Choose
<1>3. /\ pc[s] \in {"sticky", "order"} /\ UNCHANGED <<pool, sticky>> /\ dc'[s] = d
      /\ \A t \in Sessions : t # s =>
            /\ pc'[t] = pc[t] /\ dc'[t] = dc[t] /\ seen'[t] = seen[t]
            /\ hint'[t] = hint[t] /\ list'[t] = list[t]
    BY <1>0, <1>1 DEF ReadSticky, Order, TypeOK
<1>4. /\ d \in DCs /\ \A n : Cursor(d, n) = cursor[d]
      /\ s \notin alone => failed[d] = {}
      /\ s \in alone => Tracked(s) /\ Elsewhere(d)
    <2>1. pc[s] # "idle" /\ pc[s] \notin {"measure", "advance"}
        BY <1>3
    <2>2. /\ \A n : Cursor(dc[s], n) = cursor[dc[s]]
          /\ s \notin alone => failed[dc[s]] = {}
          /\ s \in alone => Tracked(s) /\ Elsewhere(dc[s])
        BY <2>1, UnderWay
    <2> QED BY <1>0, <2>2
<1>5. cursor' = cursor
    BY <1>0, <1>1, <1>4 DEF ReadSticky, Order
<1>6. ASSUME s \in alone
      PROVE  Tracked(s)'
    <2>1. CASE ReadSticky(s)
        BY <1>0, <1>1, <1>4, <1>6, <2>1 DEF ReadSticky, Tracked, TypeOK
    <2>2. CASE Order(s)
        <3>1. /\ pc'[s] = "dial" /\ dc' = dc /\ seen' = seen /\ hint' = hint
              /\ pc[s] = "order"
            BY <1>1, <2>2 DEF Order, TypeOK
        <3>2. seen[s] = pool /\ hint[s] = sticky[d]
            BY <1>0, <1>4, <1>6, <3>1 DEF Tracked
        <3>3. list'[s] = Listed(pool, cursor[d], hint[s])
            BY <1>0, <1>1, <1>4, <2>2, <3>1, <3>2 DEF Order, Listed, TypeOK
        <3> QED BY <1>0, <1>3, <1>5, <3>1, <3>2, <3>3 DEF Tracked
    <2> QED BY <2>1, <2>2
<1>7. s \in alone => Elsewhere(d)'
    BY <1>3, <1>4, <1>5 DEF Elsewhere
<1> QED BY <1>0, <1>1, <1>2, <1>3, <1>4, <1>5, <1>6, <1>7, OwnStep

\* The moments of a failure: the sticky domain goes, the pool is measured, and
\* the cursor moves past what was dialled.
LEMMA FailingKeeps ==
    ASSUME OutageInv, NEW s \in Sessions, GiveUp(s), UNCHANGED alone,
           failed' = IF DropSticky(s)
                     THEN [failed EXCEPT ![dc[s]] =
                              IF s \in alone THEN Range(Window(s)) ELSE {}]
                     ELSE failed
    PROVE  OutageInv'
<1>0. PICK d \in DCs : dc[s] = d
    BY UnderWay DEF GiveUp, DropSticky, MeasurePool, Advance
<1>1. /\ TypeOK /\ cursor \in [DCs -> 0 .. Longest - 1]
      /\ failed \in [DCs -> SUBSET Domains]
    BY DEF OutageInv, BInv
<1>2. BInv'
    BY DialKeeps DEF OutageInv
<1>3. /\ pc[s] \in {"dial", "measure", "advance"} /\ UNCHANGED pool
      /\ (pc'[s] = "idle" \/ dc'[s] = d)
      /\ \A t \in Sessions : t # s =>
            /\ pc'[t] = pc[t] /\ dc'[t] = dc[t] /\ seen'[t] = seen[t]
            /\ hint'[t] = hint[t] /\ list'[t] = list[t]
    BY <1>0, <1>1 DEF GiveUp, DropSticky, MeasurePool, Advance, Done, TypeOK
<1>4. /\ pool \in Pools /\ hint[s] \in Domains \cup {None}
      /\ list[s] \in Seq(Domains)
      /\ pc[s] = "advance" => seen[s] \in Pools
      /\ d \in DCs /\ cursor[d] \in Nat /\ \A n : Cursor(d, n) = cursor[d]
      /\ s \notin alone => failed[d] = {}
      /\ s \in alone => Tracked(s)
    BY <1>0, <1>3, UnderWay
<1>5. /\ Window(s) = Opening(list[s]) /\ Len(Opening(list[s])) \in Nat
      /\ Range(Opening(list[s])) \subseteq Domains
    <2>1. /\ Len(list[s]) \in Nat
          /\ \A k \in 1 .. Len(list[s]) : list[s][k] \in Domains
        BY <1>4, ElementOfSeq, LenProperties
    <2> DEFINE m == Min({Attempts, Len(list[s])})
    <2>2. m \in 0 .. Len(list[s])
        BY <2>1, OfTwo, BalancerAssumption
    <2>3. Window(s) = SubSeq(list[s], 1, m) /\ Opening(list[s]) = SubSeq(list[s], 1, m)
        BY DEF Window, Opening
    <2> HIDE DEF m
    <2> DEFINE o == SubSeq(list[s], 1, m)
    <2>4. \A k \in 1 .. m : list[s][k] \in Domains
        BY <2>1, <2>2
    <2>5. o \in Seq(Domains)
        BY <1>4, <2>1, <2>2, <2>4, SubSeqProperties
    <2> HIDE DEF o
    <2>6. Len(o) \in Nat /\ DOMAIN o = 1 .. Len(o) /\ \A k \in 1 .. Len(o) : o[k] \in Domains
        BY <2>5, ElementOfSeq, LenProperties
    <2>7. Range(o) \subseteq Domains
        BY <2>6 DEF Range
    <2> QED BY <2>3, <2>6, <2>7 DEF o
<1>6. CASE DropSticky(s)
    <2>1. /\ pc[s] = "dial" /\ pc'[s] = "measure" /\ hint'[s] = sticky[d]
          /\ sticky' = [sticky EXCEPT ![d] = None]
          /\ UNCHANGED <<pool, cursor, rr, dc, seen, list>>
          /\ failed' = [failed EXCEPT ![d] =
                           IF s \in alone THEN Range(Opening(list[s])) ELSE {}]
        BY <1>0, <1>1, <1>5, <1>6 DEF DropSticky, StickyDropped, TypeOK
    <2>2. /\ failed' \in [DCs -> SUBSET Domains] /\ sticky'[d] = None
          /\ s \in alone => failed'[d] = Range(Opening(list[s]))
          /\ s \notin alone => failed'[d] = {}
          /\ \A e \in DCs : e # d => sticky'[e] = sticky[e] /\ failed'[e] = failed[e]
        BY <1>1, <1>4, <1>5, <2>1 DEF TypeOK
    <2>3. ASSUME s \in alone
          PROVE  Tracked(s)'
        <3>1. hint[s] = sticky[d] /\ list[s] = Listed(pool, cursor[d], hint[s])
            BY <1>0, <1>4, <2>1, <2>3 DEF Tracked
        <3> QED BY <1>0, <2>1, <2>2, <2>3, <3>1 DEF Tracked
    <2> QED BY <1>0, <1>1, <1>2, <1>3, <2>1, <2>2, <2>3, OwnStep
<1>7. CASE MeasurePool(s)
    <2>1. /\ pc[s] = "measure" /\ pc'[s] = "advance" /\ seen'[s] = pool
          /\ UNCHANGED <<pool, cursor, sticky, rr, dc, hint, list, failed>>
        BY <1>1, <1>7 DEF MeasurePool, DropSticky, TypeOK
    <2>2. s \in alone => Tracked(s)'
        BY <1>0, <1>4, <2>1 DEF Tracked
    <2> QED BY <1>0, <1>1, <1>2, <1>3, <1>4, <2>1, <2>2, OwnStep
<1>8. CASE Advance(s)
    <2> DEFINE i == Moved(seen[s], cursor[d], Len(Opening(list[s])), hint[s])
    <2>1. /\ pc[s] = "advance" /\ pc'[s] = "idle" /\ UNCHANGED <<pool, sticky, failed>>
          /\ cursor' = [cursor EXCEPT ![d] = i]
        BY <1>0, <1>1, <1>4, <1>5, <1>8 DEF Advance, DropSticky, By, Done, TypeOK
    <2>2. i \in 0 .. Longest - 1
        BY <1>4, <1>5, <2>1, MovedIs
    <2>3. ASSUME s \in alone
          PROVE  Elsewhere(d)'
        <3>1. /\ seen[s] = pool /\ sticky[d] = None
              /\ list[s] = Listed(pool, cursor[d], hint[s])
              /\ failed[d] = Range(Opening(list[s]))
            BY <1>0, <1>4, <2>1, <2>3 DEF Tracked
        <3>2. Len(pool) # Attempts + 1 => PastWindow(pool, i, failed[d])
            BY <1>4, <3>1, MovesPast
        <3> HIDE DEF i
        <3>3. cursor'[d] = i
            BY <1>1, <1>4, <2>1, <2>2
        <3> QED BY <2>1, <3>1, <3>2, <3>3 DEF Elsewhere
    <2> HIDE DEF i
    <2>4. /\ cursor' \in [DCs -> 0 .. Longest - 1]
          /\ \A e \in DCs : e # d => cursor'[e] = cursor[e]
        BY <1>1, <1>4, <2>1, <2>2
    <2>5. Tracked(s)'
        BY <2>1 DEF Tracked
    <2> QED BY <1>0, <1>1, <1>2, <1>3, <1>4, <2>1, <2>3, <2>4, <2>5, OwnStep
<1> QED BY <1>6, <1>7, <1>8 DEF GiveUp

\* Every step of the outage keeps the invariant.
LEMMA OutageKeeps == OutageInv /\ [Outage]_outageVars => OutageInv'
<1> SUFFICES ASSUME OutageInv, [Outage]_outageVars
             PROVE  OutageInv'
    OBVIOUS
<1>1. ASSUME NEW s \in Sessions, Fails(s)
      PROVE  OutageInv'
    BY <1>1, FailingKeeps DEF Fails, GiveUp
<1>2. ASSUME NEW s \in Sessions, Moves(s)
      PROVE  OutageInv'
    <2>1. CASE ReadSticky(s) \/ Order(s)
        BY <1>2, <2>1, ChoosesStill DEF Moves
    <2>2. CASE MeasurePool(s) \/ Advance(s)
        <3>1. ~DropSticky(s) /\ GiveUp(s) /\ UNCHANGED <<failed, alone>>
            BY <1>2, <2>2 DEF Moves, MeasurePool, Advance, DropSticky, GiveUp
        <3> QED BY <3>1, FailingKeeps
    <2> QED BY <1>2, <2>1, <2>2 DEF Moves
<1>3. ASSUME NEW s \in Sessions, NEW d \in DCs, Returns(s, d)
      PROVE  OutageInv'
    BY <1>3, Coming
<1>4. CASE UNCHANGED outageVars
    <2>1. UNCHANGED <<pool, cursor, sticky, rr, pc, dc, seen, hint, list, failed, alone>>
        BY <1>4 DEF outageVars, vars
    <2>2. BInv'
        BY <2>1 DEF OutageInv, BInv, TypeOK
    <2>3. \A s \in Sessions : Tracked(s) <=> Tracked(s)'
        BY <2>1 DEF Tracked
    <2>4. \A d \in DCs : (Failing(d) \/ Elsewhere(d)) <=> (Failing(d) \/ Elsewhere(d))'
        BY <2>1 DEF Failing, Elsewhere
    <2>5. \A s \in Sessions, d \in DCs \cup {None} : Others(s, d)' = Others(s, d)
        BY <2>1 DEF Others
    <2>6. \A s \in Sessions : dc[s] \in DCs \cup {None}
        BY SessionFacts DEF OutageInv
    <2> QED BY <2>1, <2>2, <2>3, <2>4, <2>5, <2>6 DEF OutageInv
<1> QED BY <1>1, <1>2, <1>3, <1>4 DEF Outage

(***************************************************************************)
(* "the next session starts on domains this DC has not just watched fail"  *)
(* (advance_proxy_domains_for_dc()): for any pools, numbers of attempts    *)
(* and DCs, any number of sessions under way together, and whatever        *)
(* cursors and sticky domains the outage begins with.                      *)
(***************************************************************************)
THEOREM NextStartsElsewhere == OutageSpec => []StartsElsewhere
<1>1. OutageInv => StartsElsewhere
    <2> SUFFICES ASSUME OutageInv, Len(pool) # Attempts + 1,
                        NEW s \in alone, pc[s] = "dial",
                        Range(list[s]) \ failed[dc[s]] # {}
                 PROVE  list[s][1] \notin failed[dc[s]]
        BY DEF StartsElsewhere
    <2> DEFINE d == dc[s]
               a == Rotated(pool, cursor[d])
    <2>1. s \in Sessions
        BY DEF OutageInv
    <2>2. /\ pool \in Pools /\ d \in DCs /\ cursor[d] \in Nat /\ Elsewhere(d)
          /\ hint[s] = sticky[d] /\ list[s] = Listed(pool, cursor[d], hint[s])
        BY <2>1, UnderWay DEF Tracked
    <2>3. Range(list[s]) = Range(pool)
        BY <2>2, ListedIs DEF Shuffled
    <2>4. CASE failed[d] # {}
        <3>1. hint[s] = None /\ Len(pool) > 1 /\ Len(pool) \in Nat
              /\ pool[(cursor[d] % Len(pool)) + 1] \notin failed[d]
            BY <2>2, <2>3, <2>4, PoolIs DEF Elsewhere, PastWindow, Shuffled
        <3>2. Shuffled(a, pool) /\ a[1] = pool[((cursor[d] + (1 - 1)) % Len(pool)) + 1]
            <4>1. Len(pool) > 0 /\ 1 \in 1 .. Len(pool)
                BY <3>1
            <4> QED BY <2>2, <4>1, RotatedIs
        <3>3. None \notin Range(pool)
            BY <2>2, BalancerAssumption DEF Domains
        <3>4. list[s] = a
            BY <2>2, <3>1, <3>2, <3>3, WithStickyIs DEF Listed
        <3>5. cursor[d] + (1 - 1) = cursor[d]
            BY <2>2
        <3> QED BY <3>1, <3>2, <3>4, <3>5
    <2>5. CASE failed[d] = {}
        BY <2>5
    <2> QED BY <2>4, <2>5
<1> QED BY <1>1, OutageStarts, OutageKeeps, PTL DEF OutageSpec
=============================================================================
