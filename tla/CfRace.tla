-------------------------------- MODULE CfRace ------------------------------
(***************************************************************************)
(* How a session dials the CF-proxy domains CfBalancer lists for it: the   *)
(* first alone, then the others in a race, each under a parallel slot that *)
(* all sessions share and past the 429 cooldown of its domain              *)
(* (try_cf_fallback and finish_cf_proxy_connect in bridge.rs, cf_proxy.rs; *)
(* the cooldown map is Cooldown429, its keys are the domains).             *)
(*                                                                         *)
(* A task is one call of finish_cf_proxy_connect().  Its time limit may    *)
(* run out wherever it waits: for a slot, a dial or a resolver.  A dial    *)
(* has the same limit but begins later, so it never runs out first: there  *)
(* is no retry after a timeout.                                            *)
(*                                                                         *)
(* CoolingLate and LeftOpen are faulty variants of the definitions they    *)
(* precede.                                                                *)
(***************************************************************************)
EXTENDS Cooldown429, Sequences, FiniteSets

CONSTANTS
    Sessions,      \* bound: sessions on the rung at a time
    WindowOf,      \* the domains each of them takes from the balancer
    HostsOf,       \* Len of cf_proxy_hosts(): 2 for media
    Slots,         \* cf_proxy_parallel_limit()
    Limited        \* bound: the domains that ever answer 429

ASSUME RaceAssumption ==
    /\ WindowOf \in [Sessions -> Seq(Keys) \ {<<>>}]
    /\ HostsOf \in [Sessions -> 1 .. 2]
    /\ Slots \in Nat \ {0}
    /\ Limited \subseteq Keys

TasksOf(s) == {<<s, i>> : i \in 1 .. Len(WindowOf[s])}
Tasks == UNION {TasksOf(s) : s \in Sessions}

Domain(t) == WindowOf[t[1]][t[2]]

VARIABLES
    pc,            \* pc[s]: where the session is
    at,            \* at[t]: where the task is
    host,          \* host[t]: the host of the domain it dials
    done,          \* done[s]: tasks that have ended and are not yet joined
    open,          \* the tasks whose WebSocket is up
    warned         \* history: tasks begun under a cooldown that still lasts

raceVars == <<pc, at, host, done, open>>
allVars == <<vars, raceVars, warned>>

Dialling == {"dial", "doh"}
Waiting == Dialling \cup {"wait"}
Running == Waiting \cup {"look", "up"}

RaceTypeOK ==
    /\ TypeOK
    /\ pc \in [Sessions -> {"idle", "primary", "race", "drain", "relay"}]
    /\ at \in [Tasks -> Running \cup {"none", "won", "lost", "winner"}]
    /\ host \in [Tasks -> 1 .. 2]
    /\ \A s \in Sessions : done[s] \in Seq(TasksOf(s))
    /\ open \subseteq Tasks
    /\ warned \subseteq Tasks

RaceInit ==
    /\ Init
    /\ pc = [s \in Sessions |-> "idle"]
    /\ at = [t \in Tasks |-> "none"] /\ host = [t \in Tasks |-> 1]
    /\ done = [s \in Sessions |-> <<>>]
    /\ open = {} /\ warned = {}

\* The tasks that hold a slot.
Holding == {t \in Tasks : at[t] \in Dialling}

Goto(t, there) == at' = [at EXCEPT ![t] = there]

\* The task returns to the session.
Ends(t, result) ==
    /\ Goto(t, result)
    /\ done' = [done EXCEPT ![t[1]] = Append(@, t)]
    /\ host' = [host EXCEPT ![t] = 1]

-----------------------------------------------------------------------------
\* try_cf_proxy_domain(): cf_proxy_cooldown_remaining().
CoolingLate(d) == TimeLeft(map[d]) > 1
Cooling(d) == TimeLeft(map[d]) > 0

Look(t) ==
    /\ at[t] = "look"
    /\ Remaining(Domain(t))
    /\ IF Cooling(Domain(t)) THEN Ends(t, "lost")
       ELSE Goto(t, "wait") /\ UNCHANGED <<host, done>>
    /\ UNCHANGED <<pc, open>>

\* A slot, in whatever order the semaphore serves the tasks.
Acquire(t) ==
    /\ at[t] = "wait"
    /\ Cardinality(Holding) < Slots
    /\ Goto(t, "dial")
    /\ UNCHANGED <<vars, pc, host, done, open>>

\* The task gives its slot back as it leaves try_cf_proxy_domain().
DialConnects(t) ==
    /\ at[t] \in Dialling
    /\ Clear(Domain(t))
    /\ Goto(t, "up")
    /\ host' = [host EXCEPT ![t] = 1]
    /\ open' = open \cup {t}
    /\ UNCHANGED <<pc, done>>

\* "A rate-limited zone stays rate-limited on its sibling host."
DialLimited(t, retryAfter) ==
    /\ at[t] \in Dialling
    /\ Domain(t) \in Limited
    /\ MarkFor(Domain(t), retryAfter)
    /\ Ends(t, "lost")
    /\ UNCHANGED <<pc, open>>

\* connect_cf_proxy_ws(): this host is given up.
NextHost(t) ==
    /\ IF host[t] < HostsOf[t[1]]
       THEN /\ host' = [host EXCEPT ![t] = @ + 1]
            /\ Goto(t, "dial")
            /\ UNCHANGED done
       ELSE Ends(t, "lost")
    /\ UNCHANGED <<vars, pc, open>>

\* cf_connect_domain(): the name does not resolve or connect, and is resolved
\* over HTTPS and dialled by address.
DialFails(t) ==
    /\ at[t] = "dial"
    /\ Goto(t, "doh")
    /\ UNCHANGED <<vars, pc, host, done, open>>

\* A TLS error or another status; no address, or a dial of it that fails.
GivesUp(t) ==
    /\ at[t] \in Dialling
    /\ NextHost(t)

\* finish_cf_proxy_connect(): CF_CONNECT_TIMEOUT.
TimesOut(t) ==
    /\ at[t] \in Waiting
    /\ Ends(t, "lost")
    /\ UNCHANGED <<vars, pc, open>>

\* WebSockets without the one of t, that is closed.
LeftOpen(t) == open
Closed(t) == open \ {t}

SendsInit(t) ==
    /\ at[t] = "up"
    /\ \/ Ends(t, "won") /\ UNCHANGED open
       \/ Ends(t, "lost") /\ open' = Closed(t)
    /\ UNCHANGED <<vars, pc>>

\* abort_all(): a task ends at its next suspension and what it holds is
\* dropped; until then it may go on, and even end by itself.
Cancelled(t) ==
    /\ pc[t[1]] = "drain"
    /\ at[t] \in Running
    /\ Goto(t, "none")
    /\ host' = [host EXCEPT ![t] = 1]
    /\ open' = open \ {t}
    /\ UNCHANGED <<vars, pc, done>>

TaskStep(t) ==
    \/ Look(t) \/ Acquire(t)
    \/ DialConnects(t) \/ \E r \in RetryAfters : DialLimited(t, r)
    \/ DialFails(t) \/ GivesUp(t)
    \/ TimesOut(t) \/ SendsInit(t) \/ Cancelled(t)

-----------------------------------------------------------------------------
Begin(s) ==
    /\ pc[s] = "idle"
    /\ pc' = [pc EXCEPT ![s] = "primary"]
    /\ Goto(<<s, 1>>, "look")
    /\ UNCHANGED <<vars, host, done, open>>

\* The task of s that ended first of those it has not joined.
Joined(s) == Head(done[s])
JoinFirst(s) == done[s] # <<>> /\ done' = [done EXCEPT ![s] = Tail(@)]

\* The primary, or the first racer to connect, in the order they ended.
Wins(s) ==
    /\ pc[s] \in {"primary", "race"}
    /\ JoinFirst(s)
    /\ at[Joined(s)] = "won"
    /\ Goto(Joined(s), "winner")
    /\ pc' = [pc EXCEPT ![s] = IF @ = "primary" THEN "relay" ELSE "drain"]
    /\ UNCHANGED <<vars, host, open>>

PrimaryLost(s) ==
    /\ pc[s] = "primary"
    /\ JoinFirst(s)
    /\ at[Joined(s)] = "lost"
    /\ at' = [t \in Tasks |-> IF t \notin TasksOf(s) THEN at[t]
                              ELSE IF t = Joined(s) THEN "none" ELSE "look"]
    /\ pc' = [pc EXCEPT ![s] = IF Len(WindowOf[s]) > 1 THEN "race" ELSE "idle"]
    /\ UNCHANGED <<vars, host, open>>

\* The last of them: the balancer moves past the window.
RacerLost(s) ==
    /\ pc[s] = "race"
    /\ JoinFirst(s)
    /\ at[Joined(s)] = "lost"
    /\ Goto(Joined(s), "none")
    /\ pc' = [pc EXCEPT ![s] =
                IF \A t \in TasksOf(s) \ {Joined(s)} : at[t] = "none" THEN "idle" ELSE @]
    /\ UNCHANGED <<vars, host, open>>

\* A loser that had connected is closed.
Drains(s) ==
    /\ pc[s] = "drain"
    /\ JoinFirst(s)
    /\ Goto(Joined(s), "none")
    /\ open' = IF at[Joined(s)] = "won" THEN Closed(Joined(s)) ELSE open
    /\ UNCHANGED <<vars, pc, host>>

Drained(s) ==
    /\ pc[s] = "drain"
    /\ \A t \in TasksOf(s) : at[t] \in {"none", "winner"}
    /\ pc' = [pc EXCEPT ![s] = "relay"]
    /\ UNCHANGED <<vars, at, host, done, open>>

\* bridge_ws(), which closes the WebSocket it was given (Relay).
Relays(s) ==
    /\ pc[s] = "relay"
    /\ pc' = [pc EXCEPT ![s] = "idle"]
    /\ at' = [t \in Tasks |-> IF t \in TasksOf(s) THEN "none" ELSE at[t]]
    /\ open' = {t \in open : at[t] # "winner" \/ t \notin TasksOf(s)}
    /\ UNCHANGED <<vars, host, done>>

SessionStep(s) ==
    \/ Begin(s) \/ Wins(s) \/ PrimaryLost(s) \/ RacerLost(s)
    \/ Drains(s) \/ Drained(s) \/ Relays(s)

Clock == Tick /\ UNCHANGED raceVars

\* A task is warned while its domain has been cooling since before it began.
Heed ==
    warned' = {t \in Tasks : /\ at'[t] # "none"
                             /\ TimeLeft(map'[Domain(t)]) > 0
                             /\ at[t] # "none" => t \in warned}

RaceNext ==
    /\ \/ \E t \in Tasks : TaskStep(t)
       \/ \E s \in Sessions : SessionStep(s)
       \/ Clock
    /\ Heed

RaceSpec == RaceInit /\ [][RaceNext]_allVars

-----------------------------------------------------------------------------
(***************************************************************************)
(* "A task that connected before being aborted still yields its WebSocket  *)
(* here, so close it with a proper close frame instead of leaking a        *)
(* detached half-open session" (try_cf_fallback): however the race and its *)
(* aborts interleave, a session that relays has the one WebSocket it       *)
(* relays over, and one that has left the rung has none.                   *)
(***************************************************************************)
NothingLeaks ==
    \A s \in Sessions :
        /\ pc[s] = "relay" =>
              \E t \in TasksOf(s) : open \cap TasksOf(s) = {t} /\ at[t] = "winner"
        /\ pc[s] = "idle" => open \cap TasksOf(s) = {}

(***************************************************************************)
(* Looking before the wait for a slot is enough for this much: a task that *)
(* begins while its domain cools, and as long as that cooldown lasts,      *)
(* never takes a slot to dial it, whatever other tasks hear of the domain. *)
(***************************************************************************)
CoolingAreSpared == warned \cap Holding = {}

(***************************************************************************)
(* join_next() never waits for nothing: however tasks end, time out or are *)
(* aborted, a session that has a result to come and none to join has a     *)
(* task that still runs, whose time limit will end it; or it has drained.  *)
(***************************************************************************)
SomeoneAnswers ==
    \A s \in Sessions :
        pc[s] \in {"primary", "race", "drain"} /\ done[s] = <<>> =>
            \/ \E t \in TasksOf(s) : at[t] \in Running
            \/ pc[s] = "drain" /\ \A t \in TasksOf(s) : at[t] \in {"none", "winner"}

(***************************************************************************)
(* A task goes on to its end and repeats nothing: it waits for a slot      *)
(* once, and dials each host at most by name and by address (there is no   *)
(* retry after a time limit), whatever else goes on in its race.           *)
(***************************************************************************)
Ahead(where, h) ==
    CASE where = "look" -> 9 [] where = "wait" -> 8
      [] where = "dial" -> 9 - 2 * h [] where = "doh" -> 8 - 2 * h
      [] where = "up" -> 3 [] where \in {"won", "lost"} -> 2
      [] where = "winner" -> 1 [] where = "none" -> 0

Onward(t) ==
    \/ at'[t] = at[t] /\ host'[t] = host[t]
    \/ Ahead(at'[t], host'[t]) < Ahead(at[t], host[t])

NothingIsRepeated == [][\A t \in Tasks : at[t] # "none" => Onward(t)]_allVars
=============================================================================
