# A verification project for wrtg

wrtg is a Telegram proxy for OpenWrt routers. It accepts connections the
firewall diverts to it, reads the obfuscated MTProto init, finds out the data
centre (DC) the client wants, and relays the session over the first path that
works: a pooled or fresh WebSocket to the front address, the Cloudflare Worker,
a Cloudflare-proxied domain, plain TCP, and finally a blind relay. All of it is
one tokio process (`crates/wrtg/src`) that shares a number of process-wide maps
between concurrent tasks; what can go wrong is mostly there.

This directory holds TLA+ models of those maps and of the tasks that work on
them, TLC configurations, and TLAPS proofs. Paths below are relative to
`src/crates/wrtg/src`.

## 1. Inventory

| Component | State | Operations | What is hard | What makes it correct |
|---|---|---|---|---|
| Connection pool (`conn_pool.rs`; instances in `ws_pool.rs`, `cf_worker_pool.rs`) | slots: ready sockets and last use | `acquire`, `refill_one`/`fill`, `schedule_refill`, sweep, `warmup` | dials and closes are awaited outside the lock; several refills of one slot | capacity, one owner per socket, none leaked, no stale lease; sweeps end; demand is served |
| 429 cooldown (`cooldown429.rs`) | per key: end of the cooldown, strikes | `remaining`, `mark_for`, `clear` | lazy pruning, escalation over time | backoff grows, is capped, and does not depend on when it was asked |
| Worker cooldown (`cf_worker_cooldown.rs`) | two such maps (429, 503) | `usable_workers`, `mark_worker_429_with_peers`, `clear_worker_429` | sessions and pool dials work from snapshots; a query takes two locks, check and mark of a sibling three; siblings are cooled one by one | the cooling are spared, accounts are apart, every cooldown ends |
| CF-proxy balancer (`cf_balancer.rs`) | domain pool, per DC a cursor and a sticky domain | order, remember, advance, replace the pool | three locks taken in turn; pool replaced meanwhile | lists are permutations of the pool; no domain is starved; failed windows are avoided |
| Learned DC map (`dc_learn.rs`) | map, learned file, operator's file | `learn`, `persist`, `load` | check-then-act, appends by blocking threads, SIGHUP, restarts | the operator wins, one line per address, nothing mixed up, nothing lost |
| Session ladder (`main.rs`, `bridge.rs`) | per session: client, crypto context | rungs in order, each hands the client back on failure | skip flags checked before and written after awaits | one rung serves; flags tell the truth about the path |
| Relay (`bridge.rs`) | two directions, drivers, channels, idle clock | forward, drain, reap | half-close, stalled peers, abort order | the tail is delivered, wedged sessions are reaped |
| Skip state (`ttl_map.rs`, `ip_fail.rs`, `fronting.rs`, `ws_blacklist.rs`) | keys with an expiry | mark, mark if absent, clear | different keys for sessions and pool | a block is not extended by repeated failures and ends |
| CF-proxy dial (`cf_proxy.rs`, `cf_proxy_cooldown.rs`) | semaphore, cooldown map | dial hosts of a domain, race of candidates | check before a wait; aborted losers | losers are closed, permits come back |
| Domain pool and configuration (`cf_proxy_domains.rs`, `config.rs`) | the pool, the environment, the file | seed, hourly refresh, SIGHUP | reload and refresh interleave | the operator's domains stand; the pool does not become empty |
| DoH (`cf_proxy_doh.rs`) | cache | race of resolvers | late answers | bounded wait, fresh answers |
| Accept loop (`watchdog.rs`) | permits, error counters | accept, back off, rebind | permit on every path | the cap holds and is regained |
| Init read (`handshake.rs`) | buffer | incremental read, replay | pieces of any size | each byte is replayed once |
| Splitter (`splitter.rs`) | buffered ciphertext | split, flush | boundaries | output is the input, cut at packets |
| Crypto and tables (`mtproto.rs`, `media.rs`), framing and TLS (`ws.rs`, `tls*.rs`, `sockopt`) | keystreams, tables | conversions | data | - |
| Statistics, logging, heap, self-check | relaxed counters | - | - | no decision reads them |
| Scripts (`openwrt`, `install.sh`), Worker script (`cf-worker.js`) | files, firewall sets | install, update; token, connect, pipe | partial failure of updates | - |

How they interact: `main()` loads the configuration, seeds the domain pool,
loads the learned map, starts both pools' sweeps and warm-ups and the hourly
refresh, and serves. A session learns its address (`dc_learn`), asks the skip
state, takes from the direct pool or dials, tops the pool up when it ends, then
takes from the Worker pool or dials the usable Workers, then the domains the
balancer orders. The pools' background dials read and write the same cooldowns
and skip flags. SIGHUP replaces Workers, domains and the learned map under
everybody's feet.

The hazards this gives rise to, each at its line, are the list `hazards` of
`PROJECT.json`; every property below is there for one of them.

## 2. Plan

In the order of how much of the program rests on it:

1. `ConnLifecycle`, `ConnPool`: the pool, the only component that owns sockets
   across sessions, with a refinement of an abstract connection life cycle.
2. `DcLearn`: the learned map, the only state that survives a restart.
3. `Backoff`, `BackoffMemory`, `Cooldown429`: the cooldown type and what it
   promises; `WorkerCooldown`, its most intricate user, built on the promise
   instead of the map.
4. `CfBalancer`: the choice of domains; `CfOutage`, the same while nothing
   answers; `ProxyPool`, the same while refreshes and reloads replace the pool.
5. `Relay` for `bridge_ws`, with `Stream` as what each direction promises.
6. `SkipState`, the expiring flags, and `Ladder`, the session that reads and
   writes them.
7. `CfRace`: semaphore, cooldown and race of the candidates, an extension of
   `Cooldown429` and shown to keep its specification.
8. `Sessions`: the accept loop around the sessions, the read of the init and
   the replay of what was read, and how sessions give their permit back.

What would come next, by worth:

* a composition of `ConnPool` with `Ladder`, so that the connection a session
  takes and the dial that lifted the flags are one object;
* the Worker half of `cf_balancer.rs` and the rotation of the starting Worker;
* how often sessions of one DC may overlap before a domain is passed over, to
  weaken the condition of `ComesRound`;
* the race of resolvers and the cache of `cf_proxy_doh.rs`, the byte level of
  `splitter.rs`, the updater script.

## 3. Modules

Conventions. One action per operation, or per step of it between two awaits or
two acquisitions of a lock; a body that holds a mutex throughout is one step. A
tokio `Instant` is kept as a distance from now and saturates one past the
largest threshold it is compared with, so time is bounded without bounding
behaviours. Variables called history are not in the program: they let a
property speak about the past. An operator that precedes another and is called a
faulty variant in its module's header (`FullOneLate`, `BlockedByAny`) is one no
action uses; it is kept to show that a property notices the fault.

**ConnPool** (with `ConnLifecycle`). `slots`, `pool`, `age` and `idle` are the
slots map with its connections, their age and the slot's `last_used`; `todo`,
`need`, `hand`, `closing` and `key` are the local variables of the background
loop, the warm-up task, scheduled top-ups and sessions. `Sweep` is one turn of
the loop through `active_slots`; `RefillOne` the locked part of `refill_one`;
`DialOk`/`DialFail` the connector's answer; `Push` the locked part of `fill`;
`Close` one awaited close; `Acquire`/`AcquireNoSlot` the locked part of
`acquire`; `EndScheduling` the session's `schedule_refill`. The connector is a
choice of answers; `enabled` changes with a reload. Nothing of `Pool` that
changes state is left out. `ConnLifecycle` says what a pool promises of each
connection (dialled, offered in one slot, leased to one session, closed) and
`ConnPool` is shown to implement it by reading a connection's stage off its
owner.

**DcLearn**. `learned` is the map, `file` the learned file as the sequence of
writes it received, `manual` the operator's. `Check` and `Insert` are the two
locked halves of `learn`, `WriteEntry` and `WriteNewline` the two writes a
`writeln!` to an unbuffered file makes, `WriteFails` an I/O error, `Load` the
reload on SIGHUP and `Restart` a crash with a new start. `ParseLine` is what
`parse_line` makes of one entry or of several run together.

**Backoff, Cooldown429, BackoffMemory**. `Backoff` is the arithmetic of one
entry: strikes are kept as the delay they earn. `Cooldown429` is the map with
its three methods and the clock. `BackoffMemory` is the promise: strikes and
cooldown are remembered exactly until the key has been quiet for a maximum
window, and asking changes nothing.

**WorkerCooldown**. Dialers are sessions (`bridge.rs`, Worker rung and
passthrough) and pool dials (`cf_worker_pool.rs`), which filter, dial and mark
alike. Each acquisition of a lock is a step of its own: `Look` and `Look503` are
the two lookups of the filter for one Worker, `Dial` the loop's next turn, then
one of `Succeed` (with `Clear503`, the second clear), `Fail`, `Answer503` and
`Answer429`; for each sibling there are the two lookups of its check, `AskPeer`
and `AskPeer503`, and `CoolPeer`, its mark. `half`, `due` and `clearing` hold
what a dialer is about between two locks. The two maps are the memories
`Cooldown429` implements. The order of the list and its replacement by a reload
are left out.

**CfBalancer, CfOutage, ProxyPool**. `pool`, `cursor`, `sticky` and `rr` are the
statics; a session goes through `ReadPool`, `ReadSticky`, `Order` (three locks),
dials its window, and either `Connect`s or gives up in `DropSticky`,
`MeasurePool`, `Advance` (again three). `SetPool` is any replacement of the
pool. The race among the candidates is reduced to its outcome here; `CfRace` has
it. `CfOutage` lets every window fail, from any state a calm time may have left;
its histories are `failed`, what a DC's last session watched fail, and `alone`,
the sessions no other session of their DC has overlapped. `ProxyPool` says which
replacements there are: `PoolInit` is the seeding in `main()`, `Refresh` the
hourly task, `ReloadReads`, `ReloadApplies` and `ReloadPuts` the three places
where `reload_from_file` touches the pool. A configuration is the operator's
valid domains, whether `CF_PROXY_DOMAIN` has anything in it at all (which is
what `user_proxy_domains_configured` asks), and whether the shared pool is on;
`env` is the environment, which a reload does not change, `conf` what was read
last. The Worker half of the file is not modelled.

**SkipState, Ladder**. The four maps of `ip_fail.rs`, `fronting.rs` and
`ws_blacklist.rs` are functions to the time a flag still has. `SkipState` has
one action per handler that sets or clears some of them: `RungFails` (the end
of `try_ws_bridge`), `FrontingFails`, `Redirected`, `TcpFails`, `ComesUp`
(the three flags `try_ws_bridge` and `note_connect_success` lift; the function
`clear_ws_skip_state`, which would lift the blacklist too, has no callers) and
`Tick`. `Ladder` is
`handle_handshake`: `Begin`, the two flags of `should_skip_ws` (`GateBlacklist`,
`GateIp`), the pool, the two dial loops of `try_ws_bridge` (`DialFails`,
`LastDialFails`, with `After` and `Folded` for `all_blocked` and `timed_out`),
the gate before fronting, `Verdict` and `Blacklist`, then the Cloudflare rung
as its outcome, `try_tcp_fallback` over `TcpTargets`, and `BlindRelay`. Which
target a session dials, and which alternatives TCP has, are the tables of
`mtproto.rs` given as constants. `PoolDials` is a background dial of the direct
pool. `blocked` and `warned` are history; a pooled connection counts as evidence
for the target of the session that takes it, as it does in the code.

**CfRace**. One more user of `Cooldown429`, whose map it extends with sessions
and tasks. A task is one call of `finish_cf_proxy_connect`: `Look` (cooldown),
`Acquire` (parallel slot), `DialConnects`, `DialLimited` (429), `DialFails`
(then DNS over HTTPS), `GivesUp` (next host), `TimesOut`, `SendsInit`. A session
tries its first domain alone, then races the others (`PrimaryLost`), joins what
has ended in the order it ended (`Wins`, `RacerLost`), aborts the rest
(`Cancelled`, which may come too late) and drains (`Drains`, `Drained`).

**Sessions**. `serve_with_cap` is `Reserve`, `Accept`, `AcceptFails`, `NapEnds`,
`Rebind`, `RebindFails`, `BackoffEnds`; the listener may starve (`Starves`,
`Recovers`: descriptors) or die (`Dies`). A connection goes through `ReadsInit`
and `ReadsBody` (pieces of any size, `Sees` tells what they are taken for),
`Bridges` or `PassesOn` (with `Replayed`), `Tunnels`, and `Relays` what the
client sends. `FallsSilent` is a peer that vanished; `Reaped` the idle guard,
which `bridge_ws`, `bridge_tcp` and `relay_via_worker` have and the front
passthrough has not. Every end returns the permit (`Ends`).

**Relay, Stream**. One session in `bridge_ws`. Each of the five tasks has its
own variables and actions: `up` (`ReadClient`, `ClientEnds`, `PutPart`,
`PutPartFails`), `ws_send_driver` (`TakeBatch`, `WritePiece`, `WriteControl`,
`WriteFails`, `SenderEnds`), `ping_driver` (`Ping`), `ws_recv_driver`
(`ReadMessage`, `ReadPing`, `PutPong`, `PutMessage`, `ReceiverEnds`) and `down`
(`TakeMessage`, `WriteClient`, `WriteClientFails`, `DownEnds`). The body of
`bridge_ws` waits in `phase`: `DirectionEnds` and `IdleFires` are the outcomes
of its `select!`, `Drained` and `DrainExpires` those of the timeout; both end in
`Abort`. Ending a task drops its end of a channel, which is what makes the
other end fail (`PutPartFails`, `ReceiverEnds`) or run dry (`SenderEnds`,
`DownEnds`). Data are pieces by number; the splitter lets go of any number of
whole pieces, which covers its absence and its disabled state. A control frame
is counted. `guarded` is the operator's choice to have an idle guard. `Stream`
is one direction as its user sees it.

The modules whose names begin with MC give constants their values; those that
end in `_proof` hold the proofs.

## 4. Runs

| Run | Question | Bounds, and why they are enough |
|---|---|---|
| `pool_safe` | capacity, ownership, leaks, lease age and the life cycle with sweep, warm-up, top-up and two sessions on one slot | size 2, three connections: two tasks can race for the last place while a third connection is elsewhere; age 0 or expired are the only ages the code tells apart; several slots are covered by the proofs |
| `pool_live` | sweeps end, expired connections are reaped, demand is served | one slot of one connection, fair tasks; every refill has a bounded number of dials, so more slots repeat the argument |
| `pool_idle` | violated: idle slots retire | one slot; seven steps suffice |
| `learn_safe` | the operator wins, one line per address and load, no mixing of entries | two addresses of which the operator edits one, two sessions, two writers; two writes are enough for two entries on one line, by interleaving or by a restart in between |
| `worker_safe` | nobody new dials or strikes a cooling Worker, the strikes under way run out, every cooldown ends | two siblings, two dialers, cap twice the base: a dialer can mark, clear or let a cooldown lapse between the two lookups of the other, between its check of a sibling and the mark, and while it works from a stale list; 840 000 states |
| `ladder` | a blocked path is not dialled again before it is due, a flag is not held up, the blacklist is earned | two sessions, a plain slot of DC1 and a media slot of DC2 behind the stock front, so one may be blacklisted and the other not, and media has an alternative address; two domains per rung, so a loop can see a redirect and a timeout; a flag of 2 ticks for targets, so one can be half over when a session begins; `WRTG_DC_FAIL_COOLDOWN_SEC=0`, since no decision of the ladder reads `DC_FAIL` and its flag would double the states (the theorems cover every time to live); 1.1 million states |
| `domain_pool` | lists are permutations, a router with the shared pool on has a domain, an opt-out holds | pools of 0 to 3 domains that overlap and differ in order, so that a sticky domain may be gone from the next pool and a window of two leaves one out; a fetch that is too short; the shared pool on or off, a domain of the operator's own, and a setting without a valid domain in it; two sessions of one DC; 6.6 million states |
| `own_domains` | violated: see findings | one session; four steps suffice |
| `balancer_outage` | an outage reaches every domain, the next session starts elsewhere | two sessions of one DC that overlap or not, window two, from any cursor and any sticky domain, also one an earlier pool left behind; three domains are one longer than the window, the size `StartsElsewhere` leaves out, four are two windows, where overlapping sessions can go round a domain for good, five are neither; one DC, since cursor and sticky domain are per DC (the theorem covers any number); 15 000 states |
| `relay` | each direction is a stream, the downward tail survives the drain, silence ends the session, packets are not starved | three pieces from each side through channels of one, batches of two, one control frame: every queue fills, a batch is cut off half way and the splitter holds more than one piece; a silence of two ticks, a drain of one |
| `cf_race` | losers are closed, the cooling are spared, backoff escalates, the map is the memory | a primary with a race of two behind it, against a media session (two hosts) whose window is two of the same domains; two slots for up to four tasks, so some wait; backoff 1 or 2 ticks, a Retry-After of none or beyond the cap; 550 000 states |
| `sessions` | each byte is given once, a waiting client is served | two permits, three clients of which one sends five pieces into an init buffer of four (a handshake at once or after a piece that is none of it, an HTTP body longer than the buffer, TLS, anything else), rebind after two errors, two faults of the listener; 155 000 states |

Bounds that are not the program's: numbers of sessions, one-off tasks, writers
and dialers at a time, `MaxWrites` (length of the file), `Editable` (addresses
the operator's file names), `RetryAfters`, `Pools`, `Fetches`, `Configs`,
`Limited` of `CfRace` (domains that ever answer 429), `WindowOf`, `StreamsOf`,
`SentBy`, `MaxFaults`. Symmetry is used only in runs without liveness, over sets
whose members the modules never distinguish.

Deadlock is checked in every run: in each of these models the clock, a reload,
an arrival or a new session can always come; a session of `Relay` that returned
stutters.

## 5. Fairness

* `TaskFairness` (ConnPool): tokio polls every spawned task, so each step of a
  task that stays enabled is taken (WF); the interval always fires again; a
  dial is answered or times out, because each connector wraps its dials in
  `timeout`. Sessions, reloads and the clock get no fairness.
* `NetworkWorks` (SF on a successful dial) and `SweepMeetsDemand` (SF on the
  sweep) are hypotheses of `DemandIsWarmed` alone, not of the run: the first
  says the network works, the second that the interval of 30 s or 45 s falls
  again and again into the 600 s a slot in demand stays active.
* WorkerCooldown: WF on the clock and on nothing else; `CooldownsEnd` must hold
  although the dialers are adversaries.
* CfOutage: a session that started goes on (WF), and clients of each DC come
  back again and again (SF). That the domains fail is the module's subject, that
  sessions of the DC stop overlapping the hypothesis of `ComesRound` alone.
* Relay: WF on the body of `bridge_ws` and on the clock; peers and the tasks
  that wait for them get none, so `SilentSessionEnds` holds whoever is stuck.
  `CoOperative` is a hypothesis of `PacketsArrive` alone: the server goes on
  accepting, and `select!`, which starts at a random branch, comes to the data
  channel whenever it stays ready. Pings are free to come all the time.
* Sessions: WF on the loop, a task that tokio polls; WF on `Recovers`, since
  descriptors come back; WF on each connection's `Progress`: the reads of the
  init and the rungs have time limits, a client that is alive ends its session
  some day, and one that is not is reaped, given the idle guard is on
  (`WRTG_SESSION_IDLE_SEC`, 600 by default). Arrivals, reads and faults get
  none; a rebind that the kernel refuses counts among the faults, which are
  finite.

## 6. Proofs

Every safety property and every refinement a passing run checks is also proved,
for all values of the constants. Assumptions are those named ASSUME in the
modules: sizes and delays are positive naturals where the code clamps or filters
them, times to live and backoffs are naturals (the first backoff of a rebind not
above the last), `None` and the like are members of nothing else, `Conns` and
`DCs` are finite, lists of domains are of bounded length and name no domain
twice (`normalize_domain_pool`, `cf_proxy_domains.rs:191-204`, which the
operator's own lists go through as well, `config.rs:98-118`), every session of
`CfRace` has at least one domain in its window and every client of `Sessions`
some kind of stream.

* **ConnPool_proof**. `IInv` is `TypeOK`, `Capacity`, `OneOwner`, `NoLeak` and
  `AtWork`. `Capacity` is inductive because `Push` counts under the lock that it
  pushes under; `OneOwner` and `NoLeak` need each other (a fresh dial is unowned
  because it was not live); `AtWork` says that a task with a dial or a socket
  has a slot and that a session outside `acquire`...end holds nothing, without
  which `Push` and `Acquire` could overwrite an owner. One lemma per action.
  `LeasesAreFresh` and `PoolRefinesLifecycle` come from `StepMoves`, which says
  where what is found after a step was before it. `PoolTypes`, `SlotCapacity`,
  `SingleOwnership` and `NothingLeaks` are the conjuncts. `WorkRunsOut` is the
  safety half of `SweepFinishes`: slots to refill, dials to make, a connection
  in hand, closes to await are a lexicographic measure that no step of the task
  itself makes larger and no step of another changes.
* **DcLearn_proof**. `LInv` strengthens `OperatorWins` and `OneLinePerLoad` with
  the fact that an address with a line since the last load is in the map, so a
  second insertion finds it. `HInv` strengthens `NoForeignDc`: not only the map
  but every lesson, every entry a writer holds, every entry in the learned file
  and the operator's file were reported as they stand (`Honest`). The step that
  matters is a load, and there `FileMapIs`: whatever ran together in the file,
  the address and the DC it yields stand in one entry, because a line begins
  right behind the last newline before its end (`LineBegins`), so its first
  write is an entry and the others only spoil it. `LessonsAreKept` is
  durability: the learned file only grows, a line that has ended is read the
  same by every later load (`EndedLinesStay`), and an address on record is in
  the map the file stands for (`OnRecordIsLoaded`, the converse direction of
  `FileMapIs`). It says so of lines that have their newline and of no others: an
  append that is cut off may be spoilt by the next one.
* **WorkerCooldown_proof**. `WInv` adds to `TypeOK` where a dialer can be
  between two locks: it goes through siblings of a Worker that did answer 429
  (`PeersAreSiblings`), a query under way is one of the filter or one of that
  loop (`QueriesHavePlace`), and what it dials is no longer on its list
  (`Behind`, else one dialer could answer twice for one Worker).
  `CoolingAreSpared` looks at each step while a cooldown runs: the lookup of
  that cooldown is the only way to become one of those who may dial the Worker,
  and it fails. `CooldownsRunOut` adds the siblings' 429s between check and
  mark, and shows that whoever lengthens a running cooldown is one fewer: the
  safety half of `CooldownsEnd`. `AccountsAreApart` is proved and not run: the
  instance the run can afford has a single account.
* **Ladder_proof**. First `SkipState` by itself: `TypeOK` and `HeldNoLonger` are
  inductive together, since what a flag has been up for plus what is left of it
  never exceeds its time to live, because `mark_if_absent` leaves a flag that is
  up alone (`FlagsEnd`). `NextIsSkip`: a step of a session, of the pool or of
  the clock is a step of `SkipState` or leaves the flags alone; what is proved
  of `SkipState` then carries over through the INSTANCE, and `LadderTypes` needs
  only the session's own variables. That step is a lemma and no result: every
  action of `Ladder` is written with one of `SkipState`. `PathsAreSpared` needs
  a stronger invariant: the flag of a target is up for at least as long as the
  target is known to time out (`Flagged`), which holds because the verdict of a
  session forgets no timeout it saw, in whichever loop and through the fold
  (`Recalled`); so a warned session never passes the gate (`Held`).
  `BlacklistingIsEarned` is the same argument for redirects (`Judged`): a
  session that still holds "all blocked" has seen nothing but redirects, and at
  its verdict it has seen something, because no rung ends without a dial.
  `LadderEnds` orders the rungs (`Height`), and the dials left on a rung
  (`ToDial`), so that every step of a session descends, whatever becomes of the
  flags it reads; the list of TCP targets is finite because it is filled on the
  rung above only.
* **CfRace_proof**. First `Cooldown429`: `CInv` adds to `TypeOK` that an address
  granted a backoff has an entry whose next delay is its double or the cap. With
  it a mark escalates, and pruning an entry changes nothing that a quiet entry
  answers, which is the refinement. Then the races: `RInv` is `OwnTypes`,
  `OpenOnesAreHad` (an open WebSocket is that of a task which is up, won or the
  winner), `Ended` (what is to be joined has ended, and is listed once),
  `Staged` (what the tasks of a session can be at, wherever it is) and
  `WarnedLook` (a warned task is about to look and will find its domain
  cooling). `MovesTo` abstracts the nine task actions to one transition, so each
  conjunct is argued once. `RacesKeepTheMap` shows that `CfRace` keeps
  `Cooldown429`'s specification, from which `RacesEscalate` and
  `RacesRefineMemory` follow. `RacesAnswer` rests on `AInv`: a task that has won
  or lost is listed until it is joined (`Delivered`), and a session that joins
  has begun at least one task it has not joined (`Manned`). `TasksRunOut` gives
  each stage of a task a rank (`Ahead`) that falls at each of its steps.
* **Balancer_proof**. Lemmas about the two list operators carry the rest: the
  rotation and the list with the sticky domain in front are the pool shuffled
  (`RotatedIs`, `WithStickyIs`, over remainders that come round once). `BInv`
  says that of every session's list and holds under any replacement of the pool,
  since a session works on its copy; `PoolInv` adds `NeverStranded` and
  `OptOutHolds`, which are inductive as they stand once types are known: a
  refresh asks for a list that is long enough and stays out of a router whose
  environment keeps the shared pool out, a reload decides anew. For `CfOutage`,
  `OutageInv` keeps track of what a session that has its DC to itself knows: its
  list is the one its cursor and sticky domain give (`Tracked`), and after its
  DC failed the cursor is past the window and the sticky domain gone
  (`Elsewhere`, by `MovesPast`). That survives any number of sessions beside it:
  those of other DCs touch neither (`OwnStep`), and one of its own DC ends both
  its being alone and what it may be held to (`Coming`). The proof found the
  pool size that `StartsElsewhere` leaves out (see below).
* **Relay_proof**. Each direction is one row of pieces, cut by the queues into
  runs that follow on each other: what arrived, the batch, the channel, the
  message in hand, the splitter's rest (`UpInRow`, `DownInRow`), as long as the
  task that empties them runs. `Stages` says what each phase of the body waits
  for and that `Abort` leaves nothing running. `TailArrives` and the refinement
  `RelayIsTwoStreams` read off it: a step moves a cut, or ends the direction.
  `OnlyTailsAreLost` is then proved of `Stream` and carried over by the
  refinement, once for each direction.
* **Sessions_proof**. `SInv` counts permits: free ones, the loop's and one per
  served connection are `Cap` together (`Permits`, with the cardinality of the
  finite set of served clients), which needs that a connection is queued once
  (`Queue`). `Runs` says where a connection's bytes are: what was given and what
  is held back are together a run of what was read, beginning where its path
  begins (at the first byte, at the handshake or behind it). `CapHolds` and
  `ByteOnce` are two of its consequences. `WedgedByFrontsOnly`, the safety half
  of `EveryClientIsServed`, is a count: without a free permit there are `Cap`
  served connections, and if all of them were silent front passthroughs the cap
  would be wedged.

Some theorems state properties no run of the table checks: `RefillsEnd`
(`WorkRunsOut`), `LessonsLast` (`LessonsAreKept`), `AccountsAreApart`
(`QuotasAreApart`), `OnlyDownwards` (`LadderEnds`), `SomeoneAnswers`
(`RacesAnswer`), `NothingIsRepeated` (`TasksRunOut`), `OnlyFrontsWedge`
(`WedgedByFrontsOnly`) and `OnlyATailIsMissing` (`OnlyTailsAreLost`). Before it
was proved each was checked by TLC on the instance of its module (`LessonsLast`
on two addresses with one DC, `AccountsAreApart` on three Workers of two
accounts and one dialer), and it can be again by naming it in that module's
configuration.

Model-checked only: everything about liveness (`SweepFinishes`, `ExpiredReaped`,
`DemandIsWarmed`, `CooldownsEnd`, `ComesRound`, `SilentSessionEnds`,
`PacketsArrive`, `EveryClientIsServed`), which TLAPS does not reason about under
fairness, of three of which the safety half is proved as said above; and the two
properties of section 7 that do not hold.

## 7. Findings

1. `pool_idle`. A slot never goes idle: `refill_one` stamps `last_used` also
   for the sweep (`conn_pool.rs:227`), against `conn_pool.rs:30-32`. An idle
   router keeps reconnecting.
2. `own_domains`. The hourly refresh asks the environment of the start
   (`cf_proxy_domains.rs:237`). A router that was started on the shared pool and
   is then given a `CF_PROXY_DOMAIN` by SIGHUP loses it at the next refresh,
   against `README.md:205` of the repository and `cf_proxy_domains.rs:143-144`.

What else the models showed. These have no run of their own; where the code and
its comments disagree both places are named.

* A SIGHUP between the insertion of a lesson and its append forgets it, and a
  second observation replaces the first (`dc_learn.rs:71`, against
  `dc_learn.rs:107-108`).
* Two appends at the same time may run together in the file, and one or both
  entries are lost at a restart (`dc_learn.rs:146`, against `dc_learn.rs:12`).
* A session dials the sibling its own 429 has just cooled (`bridge.rs:672`,
  against `bridge.rs:669-671` and `cf_worker_cooldown.rs:97-98`).
* The front passthrough has no idle guard (`bridge.rs:1222-1259`), though
  `README.md:174` of the repository says sessions without bytes are closed.
  Enough of them hold every permit; `EveryClientIsServed` names this exception.
* The retry by address "on a transport failure (DNS/connect/timeout)"
  (`cf_proxy.rs:57-58`) never follows a timeout: the caller's limit is the same
  and starts earlier.
* A candidate of the race may spend its time limit waiting for a parallel slot
  and count as failed without having been dialled.
* In a pool one domain longer than a session dials, the session after a failed
  one may start on a domain that has just failed, against
  `cf_balancer.rs:142-145`: a sticky domain the cursor's window did not come to
  by itself (left behind by an earlier pool, or set by a session that was
  overtaken) takes a place of the window, and the cursor, moved past the window,
  meets it and steps on, round to the first that failed. `StartsElsewhere`
  leaves this size out.
* Sessions of one DC that keep overlapping while nothing answers can pass over a
  domain for good in any pool of at least two windows, though
  `cf_balancer.rs:145-148` calls the overshoot "harmless modulo pool size": two
  that order before either advances move the cursor by two windows. In a pool of
  four with a window of two they dial the same two domains for ever. Therefore
  `ComesRound` asks for every domain from when sessions of the DC stop
  overlapping; without that condition it fails in `balancer_outage`.
* A Worker that goes from a 503 cooldown into a 429 one between the two lookups
  of `worker_rate_limited` is found usable (`cf_worker_cooldown.rs:62`). Three
  dialers caught there can hand a Worker from one cooldown to the other without
  end, dialling it each time; `CooldownsEnd` is of each map by itself. Two
  dialers can both pass the check of a sibling and both strike it
  (`cf_worker_cooldown.rs:129`, `:133`).
* A `CF_PROXY_DOMAIN` that is set but holds no valid domain turns the shared
  pool off (`cf_proxy_domains.rs:127-135` looks at the raw value) and puts
  nothing in its place: the daemon has no domain until its first reload, which
  does put the shared pool back. `NeverStranded` says so.
* In a DC without a front a pooled connection to one address of a slot lifts the
  timeout flag of the address the session wants, since the pool is kept by DC
  and media and the flag by address and DC.
* A `CF_PROXY_DOMAIN` that the file no longer names stays in the pool after a
  reload, because the live pool is kept; and during a reload the pool may be
  empty for a moment, and a refresh in that moment is overwritten.
* When the server's side of a relay ends before the sender came to it, what the
  client sent last is aborted in the channel, although the drain waited for the
  upward direction (`bridge.rs:307-312`); nobody is left to read it in most such
  cases.
* A rebind succeeds only when the old socket no longer listens, since it is
  still bound while the new one is tried; and accepted connections do not reset
  `rebind_backoff`.
* Of an init whose handshake does not begin with the first byte, a passthrough
  leaves out what came before it.

## 8. Not modelled

The components marked `not_modelled` in `PROJECT.json` and, inside the modelled
ones: logging, statistics, the `--stats` snapshots, parsing of environment and
configuration, the contents of connections. Cryptography, TLS and frame parsing
convert data and keep no shared state; TLC has nothing to explore there. The
resolvers of `cf_proxy_doh.rs` are reduced to an answer or none, the cutting of
`splitter.rs` to the release of whole pieces. In `CfRace` a socket that is
dropped without a close frame counts as closed, and in `Sessions` the `Host`
header the media passthrough on port 80 rewrites is data. The Worker half of the
balancer is the same order as the proxy half without the moves that make that
one hard. The relays other than `bridge_ws` appear in `Sessions` without their
tasks; they have fewer tasks, and at most one channel between them. The router
scripts and the Worker script run outside the process.

The rungs are not composed into one module. `Ladder` takes the Cloudflare rung
by its outcome, which is sound for its properties because that rung reads and
writes none of the flags; `CfRace` takes windows as given, and its properties
hold for every window; `Sessions` lets every rung succeed or fail.
