--------------------------- MODULE WorkerCooldown ---------------------------
(***************************************************************************)
(* Which CF Workers are dialled: cf_worker_cooldown.rs, used by sessions   *)
(* (try_cf_fallback in bridge.rs) and by the pool's dial                   *)
(* (cf_worker_pool.rs).  A dialer filters the configured Workers by their  *)
(* cooldowns once, then tries what is left one by one, feeding each answer *)
(* back: 429 cools the Worker and its account siblings, 503 the Worker     *)
(* alone, a success drops both cooldowns.                                  *)
(*                                                                         *)
(* The two Cooldown429 maps are the memories they implement                *)
(* (Cooldown429.tla), each behind a lock of its own.  Every lookup, mark   *)
(* and clear takes one lock and is one step, so that other dialers come in *)
(* between the two lookups of worker_rate_limited, between the check of a  *)
(* sibling and its mark, and between the two clears.  The order of the     *)
(* list is the balancer's business and is left open; the list itself does  *)
(* not change during a run.                                                *)
(*                                                                         *)
(* LimitedNever and SparedNever are faulty variants of the definitions     *)
(* that follow them.                                                       *)
(***************************************************************************)
EXTENDS Backoff, FiniteSets

CONSTANTS
    Workers,       \* the configured Worker hosts
    Account,       \* Account[w]: its *.workers.dev account; None if custom
    RetryAfters,   \* bound: Retry-After values in ticks, 0 for none
    Dialers        \* bound: sessions and pool dials under way

ASSUME WorkerAssumption ==
    /\ None \notin Workers
    /\ RetryAfters \subseteq Nat /\ 0 \in RetryAfters

VARIABLES
    m429, m503,    \* CF_WORKER_429 and CF_WORKER_503
    unseen,        \* unseen[d]: Workers usable_workers has not looked at yet
    half,          \* half[d]: the Worker whose 429 cooldown d has just found
                   \* inactive and whose 503 cooldown it looks up next
    usable,        \* usable[d]: those it found usable, not dialled yet
    at,            \* at[d]: the Worker d dials or whose 429 it handles
    peers,         \* peers[d]: siblings that 429 has still to go through
    due,           \* due[d]: the sibling d checked and marks next
    asked,         \* asked[d]: the Retry-After of that 429
    clearing       \* clearing[d]: the Worker whose 503 entry d clears next

cooldowns == <<m429, m503>>
vars == <<cooldowns, unseen, half, usable, at, peers, due, asked, clearing>>

\* The two lookups of worker_rate_limited().
Limited429(w) == TimeLeft(m429[w]) > 0
LimitedNever(w) == FALSE
Limited503(w) == TimeLeft(m503[w]) > 0

TypeOK ==
    /\ m429 \in [Workers -> Entries \cup {None}]
    /\ m503 \in [Workers -> Entries \cup {None}]
    /\ unseen \in [Dialers -> SUBSET Workers]
    /\ half \in [Dialers -> Workers \cup {None}]
    /\ usable \in [Dialers -> SUBSET Workers]
    /\ at \in [Dialers -> Workers \cup {None}]
    /\ peers \in [Dialers -> SUBSET Workers]
    /\ due \in [Dialers -> Workers \cup {None}]
    /\ asked \in [Dialers -> RetryAfters]
    /\ clearing \in [Dialers -> Workers \cup {None}]
    /\ \A d \in Dialers : peers[d] # {} => at[d] # None
    /\ \A d \in Dialers : due[d] # None => due[d] \in peers[d] /\ half[d] = None

Init ==
    /\ m429 = [w \in Workers |-> None] /\ m503 = [w \in Workers |-> None]
    /\ unseen = [d \in Dialers |-> {}] /\ usable = [d \in Dialers |-> {}]
    /\ half = [d \in Dialers |-> None] /\ at = [d \in Dialers |-> None]
    /\ peers = [d \in Dialers |-> {}] /\ due = [d \in Dialers |-> None]
    /\ asked = [d \in Dialers |-> 0]
    /\ clearing = [d \in Dialers |-> None]

-----------------------------------------------------------------------------
\* A session reaches the Worker rung, or the pool dials.
Begin(d) ==
    /\ at[d] = None /\ half[d] = None /\ clearing[d] = None
    /\ unseen[d] = {} /\ usable[d] = {}
    /\ unseen' = [unseen EXCEPT ![d] = Workers]
    /\ UNCHANGED <<cooldowns, half, usable, at, peers, due, asked, clearing>>

\* usable_workers() takes up the next Worker: CF_WORKER_429 is looked up, and
\* an active cooldown there settles it.
Look(d, w) ==
    /\ w \in unseen[d] /\ half[d] = None
    /\ unseen' = [unseen EXCEPT ![d] = @ \ {w}]
    /\ half' = [half EXCEPT ![d] = IF Limited429(w) THEN None ELSE w]
    /\ UNCHANGED <<cooldowns, usable, at, peers, due, asked, clearing>>

\* Then CF_WORKER_503: the Worker passes the filter or not.
Look503(d) ==
    /\ half[d] # None /\ peers[d] = {}
    /\ half' = [half EXCEPT ![d] = None]
    /\ usable' = [usable EXCEPT ![d] = IF Limited503(half[d]) THEN @ ELSE @ \cup {half[d]}]
    /\ UNCHANGED <<cooldowns, unseen, at, peers, due, asked, clearing>>

\* The next of the usable Workers is dialled, without a second look.
Dial(d, w) ==
    /\ unseen[d] = {} /\ half[d] = None /\ at[d] = None /\ w \in usable[d]
    /\ usable' = [usable EXCEPT ![d] = @ \ {w}]
    /\ at' = [at EXCEPT ![d] = w]
    /\ UNCHANGED <<cooldowns, unseen, half, peers, due, asked, clearing>>

Dialling(d) == at[d] # None /\ peers[d] = {}

\* The dialer has its connection: clear_worker_429() clears CF_WORKER_429 ...
Succeed(d) ==
    /\ Dialling(d)
    /\ m429' = [m429 EXCEPT ![at[d]] = None]
    /\ clearing' = [clearing EXCEPT ![d] = at[d]]
    /\ at' = [at EXCEPT ![d] = None]
    /\ usable' = [usable EXCEPT ![d] = {}]
    /\ UNCHANGED <<m503, unseen, half, peers, due, asked>>

\* ... and then CF_WORKER_503.
Clear503(d) ==
    /\ clearing[d] # None
    /\ m503' = [m503 EXCEPT ![clearing[d]] = None]
    /\ clearing' = [clearing EXCEPT ![d] = None]
    /\ UNCHANGED <<m429, unseen, half, usable, at, peers, due, asked>>

\* A timeout, another error or a relay init that does not go through: the
\* Worker keeps the cooldowns it has.
Fail(d) ==
    /\ Dialling(d)
    /\ at' = [at EXCEPT ![d] = None]
    /\ UNCHANGED <<cooldowns, unseen, half, usable, peers, due, asked, clearing>>

\* mark_worker_429_with_peers() on a 503: the Worker alone.
Answer503(d, r) ==
    /\ Dialling(d)
    /\ m503' = [m503 EXCEPT ![at[d]] = Marked(@, r)]
    /\ at' = [at EXCEPT ![d] = None]
    /\ UNCHANGED <<m429, unseen, half, usable, peers, due, asked, clearing>>

\* account_key(): hosts that are not *.workers.dev have none to share.
SharesAccount(w, p) == p # w /\ Account[w] # None /\ Account[p] = Account[w]

\* mark_worker_429_with_peers() on a 429: the Worker that answered it, and
\* then its siblings one by one.
Answer429(d, r) ==
    LET siblings == {p \in Workers : SharesAccount(at[d], p)} IN
    /\ Dialling(d)
    /\ m429' = [m429 EXCEPT ![at[d]] = Marked(@, r)]
    /\ peers' = [peers EXCEPT ![d] = siblings]
    /\ asked' = [asked EXCEPT ![d] = IF siblings = {} THEN @ ELSE r]
    /\ at' = IF siblings = {} THEN [at EXCEPT ![d] = None] ELSE at
    /\ UNCHANGED <<m503, unseen, half, usable, due, clearing>>

\* The loop over the siblings is done with one of them, perhaps the last.
PassOn(d, p) ==
    /\ peers' = [peers EXCEPT ![d] = @ \ {p}]
    /\ IF peers[d] = {p}
       THEN /\ at' = [at EXCEPT ![d] = None]
            /\ asked' = [asked EXCEPT ![d] = 0]
       ELSE UNCHANGED <<at, asked>>

\* A sibling already on a 429 cooldown is passed over.
SparedNever(p) == FALSE
Spared(p) == Limited429(p)

\* The check of a sibling, first lookup.
AskPeer(d, p) ==
    /\ p \in peers[d] /\ half[d] = None /\ due[d] = None
    /\ IF Spared(p)
       THEN PassOn(d, p) /\ UNCHANGED half
       ELSE half' = [half EXCEPT ![d] = p] /\ UNCHANGED <<peers, at, asked>>
    /\ UNCHANGED <<cooldowns, unseen, usable, due, clearing>>

\* Second lookup: a sibling on a 503 cooldown is passed over too.
AskPeer503(d) ==
    /\ half[d] # None /\ peers[d] # {}
    /\ half' = [half EXCEPT ![d] = None]
    /\ IF Limited503(half[d])
       THEN PassOn(d, half[d]) /\ UNCHANGED due
       ELSE due' = [due EXCEPT ![d] = half[d]] /\ UNCHANGED <<peers, at, asked>>
    /\ UNCHANGED <<cooldowns, unseen, usable, clearing>>

\* The mark, under the lock taken anew: whatever has happened to the entry
\* since the check, it counts one more strike.
CoolPeer(d) ==
    /\ due[d] # None
    /\ m429' = [m429 EXCEPT ![due[d]] = Marked(@, asked[d])]
    /\ due' = [due EXCEPT ![d] = None]
    /\ PassOn(d, due[d])
    /\ UNCHANGED <<m503, unseen, half, usable, clearing>>

Tick ==
    /\ m429' = [w \in Workers |-> Remembered(m429[w])]
    /\ m503' = [w \in Workers |-> Remembered(m503[w])]
    /\ UNCHANGED <<unseen, half, usable, at, peers, due, asked, clearing>>

DialerStep(d) ==
    \/ Begin(d)
    \/ \E w \in Workers : Look(d, w) \/ Dial(d, w)
    \/ Look503(d)
    \/ Succeed(d) \/ Clear503(d)
    \/ Fail(d)
    \/ \E r \in RetryAfters : Answer503(d, r) \/ Answer429(d, r)
    \/ \E p \in Workers : AskPeer(d, p)
    \/ AskPeer503(d)
    \/ CoolPeer(d)

Next == (\E d \in Dialers : DialerStep(d)) \/ Tick

Spec == Init /\ [][Next]_vars

\* The clock runs; nothing is asked of the dialers.
FairSpec == Spec /\ WF_vars(Tick)

-----------------------------------------------------------------------------
\* Dialers that have seen a Worker's 503 cooldown inactive and may still come
\* to dial the Worker, or are dialling it.
Bound503(w) == {d \in Dialers : w \in usable[d] \/ (at[d] = w /\ peers[d] = {})}

\* The same for the 429 cooldown, which a query looks up first.
Bound429(w) == Bound503(w) \cup {d \in Dialers : half[d] = w /\ peers[d] = {}}

\* 429s of siblings on their way from the check of a Worker to its mark.
Marking429(w) == {d \in Dialers : due[d] = w \/ (half[d] = w /\ peers[d] # {})}

Runs429(w) == TimeLeft(m429[w]) > 0
Runs503(w) == TimeLeft(m503[w]) > 0

(***************************************************************************)
(* While one of a Worker's cooldowns runs, the 429 or the 503 one, nobody  *)
(* new gets to dial it: only dialers that looked it up before that         *)
(* cooldown, or after its end, can still spend on it.  It says no more     *)
(* than the two locks of worker_rate_limited give: a Worker that goes from *)
(* the one cooldown into the other between the two lookups of a query is   *)
(* listed, though it was never usable in between.                          *)
(***************************************************************************)
NewcomersSpareIt ==
    [][\A w \in Workers :
          /\ Runs429(w) /\ Runs429(w)' => Bound429(w)' \subseteq Bound429(w)
          /\ Runs503(w) /\ Runs503(w)' => Bound503(w)' \subseteq Bound503(w)]_vars

(***************************************************************************)
(* "Workers on other accounts (or custom domains) keep their own           *)
(* independent cooldown": a step that makes a Worker's 429 cooldown longer *)
(* belongs to a 429 of the Worker itself or of a sibling on its account.   *)
(***************************************************************************)
AccountsAreApart ==
    [][\A w \in Workers : TimeLeft(m429'[w]) > TimeLeft(m429[w]) =>
          \E d \in Dialers : at[d] = w \/ (at[d] # None /\ SharesAccount(at[d], w))]_vars

\* What may still strike a 429 cooldown: an answer, or the mark of a sibling.
Strikers429(w) == (Bound429(w) \X {"answer"}) \cup (Marking429(w) \X {"sibling"})

(***************************************************************************)
(* A check is stale at the mark (:129, :133): two dialers that check the   *)
(* same sibling can both strike it, and so can a dialer that has it on its *)
(* list.  But while a cooldown runs nobody new comes to strike it, and     *)
(* every step that makes it longer uses one of those up that saw it        *)
(* inactive before.                                                        *)
(***************************************************************************)
StrikesRunOut ==
    [][\A w \in Workers :
          /\ Runs429(w) /\ Runs429(w)' =>
                /\ Strikers429(w)' \subseteq Strikers429(w)
                /\ TimeLeft(m429'[w]) > TimeLeft(m429[w]) =>
                      Strikers429(w)' # Strikers429(w)
          /\ Runs503(w) /\ TimeLeft(m503'[w]) > TimeLeft(m503[w]) =>
                Bound503(w)' # Bound503(w)]_vars

(***************************************************************************)
(* "still picking the Worker back up": whatever the Workers answer and     *)
(* however the dialers interleave, neither map keeps a Worker on cooldown  *)
(* for ever -- not by stale dialers, not by siblings that keep answering   *)
(* 429, and not by checks of a sibling that are out of date at the mark.   *)
(* Of the two maps together it does not hold: three dialers caught between *)
(* the two lookups hand a Worker from the one cooldown to the other, each  *)
(* time after dialling it.                                                 *)
(***************************************************************************)
CooldownsEnd == \A w \in Workers : []<>~Runs429(w) /\ []<>~Runs503(w)
=============================================================================
