# PandaNet SDK: a TLA+ model of its network layer

`pnos-sdk` is a Rust workspace of three crates. `pnos-net` finds peers,
traverses NATs, dials and keeps authenticated sessions; `pnos-comm` lets a
component register with a core service, exchange requests and receive events;
`pnos-bench` is a load generator. This directory holds TLA+ modules that model
the code, the TLC configurations that check them and the TLAPS proofs about
them. The session layer of `pnos-net` (`crates/pnos-net/src/session`), where most
of the concurrency is, the agent and its port mappings are modelled in most
detail; the other parts of `pnos-net`, `pnos-comm` and the engine of `pnos-bench` have a
module each. All safety invariants that the runs check are proved for every value of
the constants; the plan at the end says what is left.

Paths below are relative to `src/crates/pnos-net/src/` unless they say otherwise.

## Inventory

| Part | State it keeps | Operations | Hard because | Correct when |
|---|---|---|---|---|
| `session/registry.rs` | `by_peer`, `by_addr`, `by_id` under one `RwLock` | insert, remove, remove_if, lookups, drain | look-up and change are separate critical sections of several tasks | one session per peer, no dangling index entry |
| `session/mod.rs`, `acceptor.rs` | cooldown table, `shutting_down`, the watch channel, per session a receive loop | connect, activate, disconnect, shutdown, accept loop, inbound task, receive loop | awaits between every check and the act that relies on it; five actors may close one session | every session is counted once, served while registered, ended when removed |
| `session/stats.rs` | atomic counters | record_established, record_closed | two additions per event, saturating decrement, asserts that read three atomics | `established - closed == active` at rest |
| `session/frame.rs` | writer lock, read buffer | send_frame, high-priority send, send_encoded, recv_frame, close | partial writes, timeouts and cancellation in the middle of a frame | the other end gets whole frames in order |
| `session/heartbeat.rs` | the probe tracker | tick, replenish, handle_keepalive | tasks of overlapping ticks, a receive loop that writes, clocks | a dead peer is noticed, a live one is not dropped |
| `session/auth.rs`, `policy.rs` | none | hooks of the application | | |
| `types.rs` | none | classify, group, preferred and fallback addresses, best endpoint | IPv6 prefixes, ties | tiers partition the candidates |
| `nat/mod.rs` | gateway, list of mappings, a renewal task | init, map_port, verify, renew, release_all | renewal task against release, leases, a router that hosts share | every mapping recorded, renewed in time, removed at the end |
| `nat/state.rs`, `provider.rs`, `metrics.rs` | a state and its history, a list of providers, counters (none of them used by `nat/mod.rs`) | transition, state_statistics, record_mapping, summary, register | check-then-act across locks, several locks per figure | reports that add up, a history that ends in the state |
| `nat/nat_pmp.rs`, `pcp.rs` | a socket per request | map, unmap, probe | lost requests and answers | success and refusal are told apart |
| `nat/stun.rs`, `ipv6.rs` | a socket per request; connectivity and address | binding requests, detect, select | failing servers, a socket of its own for each request | a verdict that the answers support |
| `nat/udp_hole_punch.rs` | active punches | punch, wait for response | lost and stray packets, two punches of one peer | a confirmed address is one that was punched to from both sides |
| `net_agent.rs` | started flag, discovery handles, cache | start, connect_to, save, shutdown | two starts, tasks that outlive shutdown | |
| `discovery/peer_cache.rs` | peers and their addresses, a file | load, save, upsert, prune, best_addr | temporary file shared by two saves, crash between write and rename | a crash leaves the old or the new file |
| `discovery/lpd.rs`, `mqtt.rs` | recent announcements, the interface, retry counters | spawn, receive, switch, reconnect | duplicates, a table that is pruned, retry budget, a shared topic | one report per window, every broker tried |
| `strategy.rs`, `connector.rs`, `transport/` | counters of the router | connect_any, Auto race, fallback | losers of a race, fallback after a partial failure | a failure means every address was tried |
| `dns.rs` | a pool of resolvers | resolve, resolve_endpoints | endpoints of every shape | the system's DNS is left alone |
| `pnos-comm`: `lib.rs`, `registry.rs`, `lifecycle.rs`, `server.rs` | registration, callbacks, shutdown flag | init, run, register, heartbeat, shutdown | heartbeat loop outlives shutdown, notifications without a waiter | an unregistered component stays unregistered |
| `pnos-comm`: `events.rs`, `ws.rs` | handlers, seen keys, subscriptions | on, dispatch, subscribe, reconnect | subscription against reconnect | each event handled once |
| `pnos-comm`: `discovery.rs`, `client.rs` | cache with TTL | discover, refresh, invalidate, send_with_retry | refresh against invalidate, retries of POST | |
| `pnos-comm`: `checkpoint.rs` | a SQLite table | save, load, delete | calls abandoned while they run, crashes | what was acknowledged is kept |
| `pnos-comm`: `middleware.rs`, `config.rs` | tokens, the component id | authorise, load and save the id | | the id survives restarts |
| `pnos-bench` | counters, stop flag, sockets | run, worker loop, progress | counters read while they change, sockets shared by workers | the report accounts for every request, the run ends |

How they interact: `NetAgent` owns discovery, NAT and connector; the
application gives `SessionManager` a `Dialer` (the agent), an authenticator and
a peer policy. `connect()` and the accept loop feed `activate()`, which calls
the registry, the counters and `disconnect()`, and spawns the receive loop; the
receive loop calls `handle_keepalive()`, which writes through the same
`FrameTransport` as `send()` and `tick()`; an external scheduler calls `tick()`
and `replenish()`.

## Modules

### `SessionManager` (with `SessionTable`)

One manager with its registry, counters, cooldown table, shutdown and all the
tasks that share them. An *attempt* is a call of `connect()` or an inbound
connection; it creates at most one session, so the attempt's name is also the
session's. `pc` is where `connect()`, `spawn_inbound` and `activate()` stand,
`loop` where the receive loop stands, `life` how far a removal has come
(`open`, `drained` by shutdown, `closing`, `counting` between the two counters,
`gone`).

A step ends where another task may come in and change the outcome: at an
await, when a registry lock is released, between two atomic operations on the
counters. So `activate()` is `Arbitrate` (lookup and decision), `Evict` and
`EvictDone` (the awaited `disconnect` of the loser), `Register` (insert),
`CountEstablished`, `CountActive`, `Announce` (event and receive loop).
`disconnect()` is `StartDisconnect` (remove_if and mark_closed), `CountClosed`
(after the transport's close), `CountInactive`. remove_if releases a read lock
and takes a write lock; since ids are unique the second step can only find the
entry there or gone, so the two are one step. The checks of `connect()` before
its first await are one step too: each is a separate look at the registry, and
what may happen between two of them may as well happen before the first.
`select!` is split into being polled (`LoopPoll`, when `wait_shutdown`
subscribes to the watch channel) and taking a branch, because a watch channel
without subscribers does not store what is sent. The debug assertions of
`stats.rs` are modelled as in a release build (no panic) and stated as a property.

Left out: events, the counters of duplicates, rejections and traffic, the
content of metadata. Dial, handshake and identity are nondeterministic inputs.
`Tier` is the class of an address (loopback, LAN, public).

`SessionTable` is the abstract specification: per peer one slot, filled only
when empty and never twice with the same session. `RefinesTable` says that
`SessionManager` implements it with `slot <- by_peer` and
`spent <- {s : life[s] # "open"}`.

### `DualDial`

Two managers that dial each other. Each connection has an end at either node
and each end goes through `activate()` on its own time; a node notices that the
other closed when its receive loop fails. `disconnect()` is one step here,
since the peer only sees the close of the transport. `MaxFaults` bounds failed
handshakes and closes by the application.

### `FrameStream`

One direction of a session as bytes: the calls that send through the writer
lock, partial writes, write timeouts, the probe's own timeout, the teardown
that each caller does or does not do, and the loop at the other end that reads
chunks and cuts frames. Bytes are digits of a small base and the length field
has two of them, so that headers arrive in pieces and a length read at the
wrong place is a number like any other. `MaxFrame`, `MaxReadBuf` and `Chunk`
stand for 16 MiB, 17 MiB and 8192. The receiving loop may also leave the stream at
any time (`ReaderLeaves`: shutdown or close at its own end, `acceptor.rs:153-158`, or a
connection that was lost with what was under way); a send that returned `Ok` has
reached the transport and no more.

### `Keepalive`

Both ends of one session at the level of frames: the task that `tick()` spawns
(`Start`, `Acquire`, `Write`, then `Mark`, since mark_probe runs after the
write), the application's sends, and the receive loop that takes the tracker's
entry out, and answers a probe before it reads on. Each direction holds
`Window` frames, so writers wait for readers. Clock conditions (silent for
`heartbeat_interval`, idle for `idle_timeout`) are nondeterministic.

### `NetAgent`

The agent that owns everything else, with its peer cache and the file it is
saved in. `pc` is where each call of `start()`, `start_transport_only()` and
`shutdown()` stands, `conn` each `connect_to()`, `task` what became of the three
tasks that a `start()` spawns (event forwarder, LPD, periodic save). `started`
is read in `Start` and set in `Started` (`LightUp`), with awaits in between.
A save is `BeginSave` (the clone under the lock), `OpenTmp` (open and
truncate), `WriteTmp` or `WriteFails`, and `Rename`; `at`, `snap` and `file`
say where it stands, what it saves and which file it has open. A save has no
await, but other threads run their own, so its steps interleave. An open file
keeps its identity when it is renamed: a save whose temporary file was renamed
away by another writes into the cache file itself (`file[w] = "path"`).
`Crash` ends the process; the next one creates its agent with `Load(path)`.
`TransportFails` is the early return of `start()` when the transport does not come up
(`net_agent.rs:234`).

The cache is the set of connections recorded in it (`upsert` with success); the
statistics kept for each are left out. `peer_cache_enabled` and `lpd_enabled`
are taken as true, which spawns the most tasks. NAT mapping and the transports
are awaits; events are left out. A crash is the death of the process: what was
written stays written, since the code never syncs and a power loss is the file
system's affair. `mixed` is a history variable: `never` while no two saves overlapped,
`now` from the overlap on, `mending` while a save that began alone is under way after
that, `mended` once it has replaced the file. `FileWhole` and `DiskOnlyGrows` are stated
for `never` and `mended`, because the code does not keep them in between.

### `NatManager`

The port mappings of several hosts on one router. A *worker* is a call of
`map_port()` or the `init()` of a host (named by the host), each with the list
of ports it maps; `init()` runs once per process. `pc`, `next` and `off` say
where a worker stands, at which port of its list and at which offset of
`map_port_with_retry`. `mappings` is the list of the manager as a set, `renew`,
`slept` and `snap` the renewal task, `releasing` and `freeing` the call of
`release_all()`. Every call of the router is awaited, so each is a step:
`AddPort` (granted) and `Record` (pushed on the list), `Enumerate` and
`RemoveOld`, `Wake` (the snapshot) and `RenewOne`, `Release` (the snapshot),
`ReleaseOne` and `Released` (the list is cleared, whatever was added since).
`Ext` is `wrapping_add` on a port of a smaller width.

The router is external: per port a mapping with its owner, its age and whether
its description has the mark that the cleanup looks for. It refuses a port that
another host has, removes a port for anybody, and drops a mapping whose lease
is over; `OtherTakes` and `OtherFrees` are the hosts that run something else.
`kept` marks, for the properties, what was mapped by `init()` or while the
renewal task was running, `left` what a dead process had mapped, and `raced`
says that a release met a renewal round or a recording.

Time is in ticks. A tick does not come in the middle of `init()` after the
gateway was found, nor between a grant and its record, and the task is at most
`Slack` ticks late with a round: the calls of the router have timeouts of
seconds and the lease is an hour. `Interval` is `lease.max(60) / 2` with `Floor`
for the 60.

Left out: the external address, the flags `verified` and `reachable`, the
200 entries after which an enumeration stops, `enabled` (taken as true) and a
lease of 0.

### `AppRuntime`, `EventStream`, `Discovery`, `Checkpoint`

The four parts of `pnos-comm`; paths are relative to `crates/pnos-comm/src/`.

`AppRuntime` is one component over several lives (`lib.rs`, `registry.rs`,
`lifecycle.rs`, `config.rs`). `app` says how far `init()` has come: `Start` reads
the id from the file, `register_with_retry` is `RegisterFails` and
`RegisterAgain`, `Registered` stores the token and truncates the id file, `Saved`
writes it and spawns the heartbeat loop and the task that pushes the shutdown
callback. `beat` is where that loop stands. `closing` is the call of `shutdown()`
by the user and by `run()`; `Take` takes the callback out of the list, which only
one of them can. `call` is the request of each task, `Handle` the core's answer
to it. The core is external: it may stop, lose its registry and issue other
tokens, and a request or its answer may be lost (`MaxFaults`). `Crash` ends the
process; one that comes in `save` leaves the id file empty (`torn`). The history
variable `leaves` counts how often the callback was run in this life.

`EventStream` is the WebSocket task and the dispatcher (`ws.rs`, `events.rs`).
`WsConnected` sends what `subscribe()` had recorded, `Receive` moves a message to
the queue, `Dispatch` looks the event up in the window of `EventDeduplicator`,
marks it and spawns the handlers of the matching listeners. The window knows an event
by its key, which is `type:source:timestamp` (`events.rs:136`): `KeyOf` maps events to
keys, and two events may share one. A connection that
breaks loses what was under way; the core replays after a reconnect
(`events.rs:31`). The backoff is a state in which nothing but its timer is heard.

`Discovery` is the cache of a component's address with the client that calls it
(`discovery.rs`, `client.rs`, `RuntimeClient::discover`): `Look` uses a fresh
entry, uses an expired one and spawns a refresh, or asks the core; each refresh
gets its answer (`RefreshAnswered`) before it stores it (`RefreshStored`), so
that an old answer can overwrite a newer one. The component moves between. An error
status in answer to a lookup is not retried (`registry.rs:284-286`). The explicit
`refresh()` of the user is not modelled.

`Checkpoint` is the store (`checkpoint.rs`): `Ask` puts the SQL on the blocking
pool, `Execute` runs it under the lock, in any order, and `Abandon` drops the
future of the caller but not the task. `may` is what the file may hold by what the
user was told. If the file cannot be opened the store is in memory (`Open`).

### `HolePunch`, `PortProtocols`, `Stun`, `Ipv6`

`HolePunch` has nodes behind NATs that punch towards each other
(`nat/udp_hole_punch.rs`). `punch` and `retry` are where each call of
`punch_hole()` stands; `Burst` is `try_punch` up to its wait, `PunchAnswered` and
`NoAnswer` its outcome. A node has one socket, so packets for one call may be
taken by another; `Arrive` is the NAT, which lets in only those to whom its node
has sent. `discover_mapped_address` and `detect_nat_type` are not modelled: the
latter binds the address of the socket that is open and fails, so that the
type is unknown and all packets are sent before the answer is awaited.

`PortProtocols` has the requests of NAT-PMP and PCP clients to one gateway, with a
socket each, so an answer that comes after the timeout is lost. `said` is the
answer as fields that decide something; `ResultCode` is where each client looks
for the result, which for PCP is the lifetime (`nat/pcp.rs:302`). A refusal may carry
any lifetime, 0 among them.

`Stun` resolves the configured endpoints with `resolve_endpoints()` of `dns.rs`
(what an endpoint looks like is a record of its host, brackets, port and padding)
and then makes the two binding requests of `detect_nat_type_multi()`, each from a port of
its own; only tests call it so far. `Ipv6` is `detect_connectivity()` with its two writes, and
`select_best_address()`.

### `NatState`, `NatMetrics`

`NatState` is the state machine with a lock for its state and one for its history:
a `transition()` is `LookState`, `Push` and `Write`, `state_statistics()` is
`ReadHistory` and `ReadState`, and they interleave. `NatMetrics` is
`record_mapping` and `record_reachability` with one step per lock, `summary()` that
reads lock by lock (each step of it sees another time), the window of `LatencyStats`, and the
sorted list of `ProviderRegistry`. The two lists have a bound each: `MaxSamples` is the
1000 latencies of `metrics.rs:177`, `MaxOperations` the 100 operations of `metrics.rs:212`.

### `NodeDiscovery`, `PeerCache`, `Reach`

`NodeDiscovery` has the LPD task (bind, join, announcements twice if need be, the
table `recent_announces` and its pruning, the interface check) and one MQTT task
per broker (resolve the name, then subscribe to the shutdown and connect in `poll`, retained
message, beat, failures, pause, shutdown). `failed` is a history of the failures with each
broker. What `handle_notification` filters out of the messages it gets is left out. `missed` marks that the route changed between its two look-ups or that the socket
refused the interface.

`PeerCache` has the entries (`NetAgent` has the file): `upsert` with its saturating
counters, `prune`, `top_addrs` and `best_addr`. Latencies are never measured by the
code, so every comparison of them is a tie and they are left out.

`Reach` has `connect()` of the router with its race of iroh and TCP, the counters, the
fallback to the other transport, and `connect_any` of the strategy: every
address `DialRetries + 1` times, then a punch and one more dial for each. Iroh is an
attempt that ends well or not. `fitted` is the set of transports the router was built with:
a call of one that is absent fails at once and is not counted (`transport/router.rs:145-234`).

### `Bench`

The engine of `pnos-bench`: workers that take a request at a time until the stop flag
is seen, the progress task that raises it, two counters per outcome, the report
after all workers were joined. In the UDP scenario the workers share a pool of
sockets and take the next datagram for the answer, whatever it answers. `setup()` may
fail, which ends the run (`engine.rs:83`); when it succeeds, up to `MaxLate` late answers to its
earlier requests still lie in the first socket.

### How the parts are composed for TLC

`MCComm` composes the four modules of `pnos-comm` and `MCNet` the smaller modules of
`pnos-net` and `Bench`. The parts of each share no state in the code (or only
through an await that the other modules have), so interleaving them would show
nothing: a variable `part` names the one that moves in a behaviour and the
others stay at their start. `CommSafe`, `NatSafe` and `ReachSafe` are
conjunctions of the invariants named in the modules.

## Runs

Passing runs and their bounds:

| Run | Instance | Shows |
|---|---|---|
| `session_race` | 2 calls, 1 inbound, 1 peer, 1 address, max 1 | type, index agreement, no half-dead session, each removal counted once, active never short |
| `session_routes` | 1 call, 1 inbound, 2 peers, LAN and public address, inbound preferred | refinement of `SessionTable`, fallback dial; two sessions on one address: the index entry of the one registered last stays when the other goes |
| `session_live` | 1 call, 1 inbound, fairness | attempts return, removed sessions end, the stored signal empties the table |
| `frame_stream` | a reply, a send and a probe, fairness | whole frames in order and, unless the reader leaves, all of them, no legal stream refused, bounded buffer, calls return, a failed send or probe ends the session |
| `keepalive` | 2 probes, 1 frame, window 1, fairness | both ends give up together, a stuck send ends the session, no ping-pong |
| `nat` | 1 host with init() and 1 map_port() on 3 ports, lease of 3 ticks, 1 crash, 1 failed call, other hosts, fairness | types and port numbers, nothing on the router is lost sight of, a dead process's mappings are cleaned up, renewal in time, a lost mapping comes back, calls return |
| `net_agent` | 1 start, 1 start_transport_only, 1 shutdown, 1 connection, 1 crash, 1 failed write, fairness | types, `shutdown()` saves, `shutdown()` stops the tasks of a start that had returned |
| `net_agent_overlap` | 2 starts, 1 connection, 1 crash, 1 failed write, fairness | until two saves overlap, and again once one alone has mended the file, it is whole and loses no peer; a connection reaches the disk although saves overlap |
| `comm` | a component with 1 restart of the core and 1 fault; 2 patterns, 4 events of which two share a key, a window of 2, 1 broken connection; 1 caller, 2 refreshes, 2 moves, 1 lost request; 3 calls on 1 key, 1 failed open; fairness | see below |
| `net` | `DualDial` with 3 connections and 1 failure; 3 punches of 3 nodes, 1 loss; 3 movers, 1 report; 2 recorders, 1 summary, 2 samples but 1 operation kept; 3 clients of 1 gateway; 3 IPv6 detections; 4 lists of endpoints; 1 `connect()` of 2 addresses in mode auto; LPD with 2 peers, 2 brokers; 4 upserts of 2 peers; 2 workers with 1 socket and 1 late answer; fairness | see below |

What `comm` shows:
- `CommSafe`: readiness is never reported after a shutdown has run its callback
  nor without a token, the callback runs once at most in each life, whether its callers
  come at once or one after the other, the component keeps
  its id over restarts unless a write was torn (`RuntimeSafe`); a listener sees
  an event once unless it fell out of the window, which holds no two events of one key (`StreamSafe`); the file holds
  what the last acknowledged call left or what an abandoned one may have
  (`CheckpointKept`);
- `Settles`: a component that nobody closes ends up registered however often the core
  forgot it; `EventsArrive`: an event published for a subscription, or another
  with the same key, reaches its handler across broken connections; `CacheCatchesUp`: a caller that keeps calling
  gets the last address into the cache for good.

What `net` shows:
- `LiveIsRegistered`, `Converges` (`DualDial`): no forgotten session, tables that in the
  end agree for good;
- `NatSafe`: a confirmed punch has a hole in both NATs (`HolesAreMutual`), fails
  without loss only if another call took the packets (`HoleIsUsed`), and is counted
  once; the history of NAT states ends in the state it tells (`HistoryTells`) and
  reports add up; summaries cover what was recorded before them; the latencies and the
  recent operations end with the same records although their bounds differ
  (`RecordsAgree`); providers stay sorted; a NAT-PMP success tells what the gateway has, and
  no refusal is taken for a success but a PCP one whose lifetime is 0
  (`PmpTellsTheGate`, `RefusalsAreSeen`); IPv6 is chosen only where the
  last detection found it (`PickIsReachable`); a cone verdict is right when the two
  servers are two (`ConeIsNoGuess`); strict mode never asks the system's DNS for
  endpoints without padding (`StrictStaysOffSystem`);
- `ReachSafe`: a failed `connect()` that had TCP has dialled every address as often as it should
  (`FailsOnlyAfterAll`), and the counters tell of the results; LPD reports a peer once
  per window however the table is pruned (`OncePerWindow`) and its socket follows
  the interface; a broker is given up only by a task that has itself failed with it
  `MaxTries` times, so that the failures of one broker do not end the others
  (`BrokersAreTried`); `fail_count` is the number of failures in a row, and the
  recommendation leaves no better peer out (`FailuresInARow`, `BestAreKept`); the
  report of a load run accounts for every request (`ReportAddsUp`);
- `WaysReturn`: every `connect()` of the router returns; `BenchEnds`: a run ends.

Why the bounds are enough: a race over one peer needs two attempts and whatever
closes the first; the third attempt of `session_race` lets one activation find
the session of a second while a third inserts. Symmetry is used only where all
attempts that are permuted are calls and no temporal property is checked. In
`FrameStream` a torn frame, the one behind it and a third caller are three
senders; their frames have 3, 4 and 3 bytes, so a chunk of 3 bytes holds one frame, a part
of one, or the end of one and the beginning of the next. A window of one frame is the
smallest on which a writer waits. In `NetAgent` the periodic saves of two starts are
the two that overlap for as long as they like (in `net_agent` it is the periodic save
and that of `shutdown()`, once), and one connection makes the caches they saved differ. In `AppRuntime` `Threshold` is 2 for the code's 6, so that a first failure is
counted and a second one acts; in `EventStream` a third key pushes the first
out of a window of two, which a replay then repeats, and a fourth event shares a key; two refreshes in
`Discovery` are an old answer and a new one; three punches are two of one node,
which share its socket, and one that meets them; three movers are two that
check the same state and one that moves it on; the deduplication table of LPD holds one entry, so that a
second peer prunes it; two brokers are one that is given up and one that must not be. Deadlock is not checked: every module stops when its finite attempts are used up.

What the passing runs do not say: `ActiveNeverShort` is weaker than the equality that
`stats.rs` claims (see `ActiveIsExact` below); `IndexesAgree` is checked with one peer and one
address, and two sessions on one address are in `session_routes`; `NoLeak` speaks of releases that
met neither a renewal round nor a recording.

Runs that TLC finds violated, each a statement of the repository that the code
does not keep (details in `PROJECT.json`, "findings"):

| Run | What happens |
|---|---|
| `session_shutdown_lost` | the watch channel has no subscriber at shutdown: a session registered later is never closed |
| `dual_one_kept` | both connections insert first at one end each: both are closed |

Further disagreements seen on these models while they were written, without a
run of their own:
- the assertion of `record_established` (`stats.rs:64`) reads three atomics that
  another registration may be in the middle of changing, so a debug build can
  panic although nothing has drifted;
- `max_sessions` is compared before the dial and the handshake (`mod.rs:294`,
  `acceptor.rs:65`) and not at insert: attempts under way exceed it;
- two sessions on one address share an index entry (`registry.rs:59`): when the
  second goes, the address of the first looks free and is dialled again (that the entry of
  the second survives the end of the first is `NewestKeepsIndex`);
- the fallback addresses are filtered for cooldown before the first dial
  (`mod.rs:312`) and dialled after it (`mod.rs:329`), while they may be cooling;
- a broadcast that tears a frame leaves the session up (`mod.rs:534`, 558), which
  is why `FailedSendEndsSession` speaks of send() and probes only;
- a write that fails releases the writer lock (`frame.rs:248`) before the session is
  shut, so a queued sender writes its frame behind the one that was cut short
  (in `FrameStream`: `torn = "overrun"` is reachable), although `frame.rs:216-217` calls
  tearing down the only safe action;
- the receive loop awaits its answer to a probe (`acceptor.rs:164`), so with both
  windows full each writer waits for the other's loop and each loop for its own
  writer, until a timeout closes the session, although `frame.rs:165-167` says that
  sending and receiving run concurrently;
- every keepalive frame takes the recorded probe out (`heartbeat.rs:233`), and
  the probe is recorded after it was written (`heartbeat.rs:116`), so the RTT may
  be measured to a frame that does not answer it; recorded after the session
  ended, the entry stays for ever;
- with one kind for probe and reply no probe is answered (`heartbeat.rs:245`),
  although `session.rs:258` speaks of an answer of the same kind;
- the cleanup of `init()` goes by description (`nat/mod.rs:824`), so on a router
  with several hosts it removes what the others are using, although
  `nat/mod.rs:816` speaks of what a crash left; their renewal brings it back after
  up to half a lease (`RenewalRestores`);
- a `release_all()` that meets a renewal round or a `map_port()` clears the list
  (`nat/mod.rs:937`) while the router has a mapping again or for the first time:
  nothing renews or removes it any more; and it removes a port whose lease ran
  out even when another host has it by now;
- the statements behind the findings without a run: each is written as a property in its
  module (`ActiveIsExact`, `SubscriptionsSent`, `CodesAreRefusals`, `SymmetricIsSymmetric`,
  `ShutdownEndsDiscovery`, `AddressIsCurrent`, `RateIsARate`, `HistoryIsAPath`, `RunEnds`,
  `MappingsLast`, `IdSurvives`, `OnlyRepeatsDropped`, `AddressesStay`), and
  TLC finds it violated when it is put into the configuration of its instance;
- `map_port()` without `init()`: nothing renews the mapping, which stays listed after its
  lease (`MappingsLast` of `NatManager`);
- with a lease of 30 s or less the renewal interval is no shorter than the lease
  (`nat/mod.rs:859`), which `KeptStays` excludes by its assumption;
- two saves that overlap share one temporary file (`peer_cache.rs:108`): one
  truncates what the other is about to rename, or writes behind its end, so that
  the cache file is damaged until the next save, although `peer_cache.rs:105` calls
  the save atomic; periodic saves of two starts and that of `shutdown()` can overlap. A later
  save that has the disk to itself repairs the file, which `net_agent_overlap` shows;
- two calls of `start()` that overlap both run (`net_agent.rs:226`, 353), and then
  each task exists twice, although `net_agent.rs:227` says that the second is
  ignored;
- a `shutdown()` during `start()` reaches only the tasks that have subscribed
  (`net_agent.rs:513`): those spawned afterwards run on, and `started` stays true,
  so that the agent can be neither started again nor, but by a second
  `shutdown()`, stopped.

In the parts of `comm` and `net`:
- MQTT gives a broker up after three failures in all, not in a row
  (`discovery/mqtt.rs:186-218`), although the warning at `mqtt.rs:212` says 连续失败3次; a task that
  resolves the name of its broker, or pauses before it does so, does not hear a shutdown;
  all nodes publish to one retained topic, so a node that publishes takes the address of another
  off the broker (`AddressesStay`);
- LPD looks its interface up twice at the start (`discovery/lpd.rs:158`, 190) and remembers a
  switch that the socket refused (`lpd.rs:236-260`): the socket then stays where it was;
- `last_success` of a cached address is set by failures too (`discovery/peer_cache.rs:138`),
  against its comment (`peer_cache.rs:27`);
- the class ULA is cut off at `fc00::/10` (`types.rs:178`, `transport/iroh.rs:266`);
- the router counts no fallback (`transport/router.rs:39` is never raised); a race whose first
  transport fails drops the other one in the middle and starts it anew (`router.rs:206`);
- a hole punch takes a packet from anyone for the answer, also one left from an earlier
  punch, and with `max_retries = 0` fails without having sent anything;
- PCP reads the lifetime as the result code (`nat/pcp.rs:302`), so mappings that were granted
  are reported as refused;
- `register_with_retry` (`crates/pnos-comm/src/registry.rs:113`) documents pauses from 1 s; the
  first is 2 s. After a shutdown the heartbeat loop registers the component again; `/health/ready`
  stays at 503 then, and at 200 while the core is gone. A shutdown before the callback was
  pushed finds nothing to run, and the second of two callers returns before the first is done;
- the id file is rewritten in place at each start although the id has not changed: a process that
  dies meanwhile leaves it empty or cut short and comes back under another id (`IdSurvives`);
- an event is dropped as a repetition of another one with the same type, source and timestamp
  (`OnlyRepeatsDropped`; `crates/pnos-comm/src/events.rs:136`);
- a shutdown of `WsClient` during the backoff is not heard (`ws.rs:104`), and the delay is never
  reset after a connection that worked (`ws.rs:134`); an event that is dispatched before its
  listener was pushed counts as seen and is not handled by the replay;
- a cached address is kept although nobody answered there, and requests answered with 4xx are
  retried too, although `client.rs:168` speaks of network errors and 5xx;
- the store falls back to memory when its file cannot be opened, and a load hides SQL errors;
- the time at which a load run stops is a multiple of its progress interval although
  `engine.rs:91-92` describes two ways out; the transaction id of an answer is not checked,
  so a late answer is counted for the next request, and a timeout of the socket as a failure.

Every property of a passing run has a mutant of the code (`PROJECT.json`,
"mutants") with which TLC finds it violated; the mutants are defined next to
the definitions they replace.

## Fairness

Weak fairness on the steps a task takes when it is ready: the runtime polls
every ready task, dials and handshakes have timeouts, writes have
`write_timeout`. Strong fairness where a task competes: the tokio mutex hands
the lock on in the order of its waiters, and `select!` chooses among ready
branches at random, so a branch that is ready again and again is taken. In `NetAgent` the interval of the periodic save ticks, a save runs to its end
and a started call goes on; connections, callers and crashes are under no
fairness. In `NatManager` the router answers or its client times out, the
renewal task runs and time passes; nobody has to call `release_all()`. In
`AppRuntime` the core answers or the client's timeout does, and a core that stopped is
started again; in `EventStream` a core that is up takes the connection; in `Discovery` entries
grow old and a component that is gone comes back; in `Reach` dials and punches end, and iroh is assumed to:
its `open_bi` has no timeout here (`transport/iroh.rs:347`) and is taken to fail on a dead connection; in
`Bench` timers fire and requests time out. Faults, restarts, moves and broken connections are under
no fairness and finite. Nothing is assumed of users, peers, the listener or time.

## Proofs

Every safety invariant and every action property of the runs that pass is a theorem,
for every value of the constants that satisfies the assumptions named in the
modules. Those say three kinds of thing: bounds and figures are numbers (`...Nat`,
`...Limits`, `LatenciesNat`, `PrioritiesNat`, `PortsNat`), the sets of calls, workers, peers,
connections and punches are finite and disjoint where the code has distinct tasks
(`WaysFinite`, `WorkersFinite`, `PeersFinite`, `AttemptsFinite`, `NamesDiffer`), and a
marker such as `None` or `Nobody` is no member of what it marks. One is a claim of the
source: `BufferHoldsAFrame` is the invariant that `session/frame.rs:35-40` states of
`MAX_READ_BUF`.

The composed modules `MCComm` and `MCNet` have a theorem each for the conjunction
their run checks (`CommIsSafe`, `NatIsSafe`, `ReachIsSafe`): the parts are disjoint, so a step
of the whole is for each part a step of its own or a stutter (`StepOfEachPart`, `CommNext`,
`NatNext`), and the invariants of the parts are proved one by one.

`FrameStreamProofs`, for any senders, payloads, base, chunk and frame limit:
- `StreamTypeCorrect` (`TypeOK`). What is hard in it is the bound of the read buffer: it never
  holds more than one read beyond the longest frame, whatever bytes arrive, since a frame of legal
  length is cut out before the next read and a longer one ends the loop.
- `FramesStayIntact` (`FramesIntact`). `SendInv`: who writes holds the lock, and what it writes
  is a frame that fits. `StreamInv`: what was received, then what is buffered, then what is on the
  wire are together the frames sent so far, the last one perhaps in part; it holds
  until a torn frame is followed by more bytes (`torn = "overrun"`), which is where
  `FramesIntact` ends as well. That a length is read at the right place follows from the digits of
  the header giving back the length (`Base * Base > MaxFrame`).

`SessionManagerProofs`:
- `TypeCorrect`. `TypeInv` adds to the types that an attempt past its handshake
  has a peer and an address (`Placed`), without which `Insert` would write an
  index at `None`.
- `RegistryConsistent` (`IndexesAgree`). Its strengthening `Linked` also says
  where a registered session's attempt stands: `Insert` may only overwrite
  entries of sessions that are gone, and `Remove` clears only what still points
  at it.
- `EntriesFollowTheNewest` (`NewestKeepsIndex`): an entry whose session stays in the table is
  neither cleared nor moved by the removal of another one, because `Remove` compares ids.
- `NoHalfDeadSession`: with the registry invariant, a session in the table is
  open, and after `Announce` its loop reads; every path that ends the loop takes
  the session out first.
- `ImplementsTable`: initial states map to initial states, `Register` to `Open`,
  `StartDisconnect` and `Drain` to `Close`, everything else to a stutter.

`SessionStatsProofs`: `CountedOnce` and `ActiveNeverFallsShort`. The counters
are balanced against the sets of attempts between insert and count and of
sessions between removal and count; the lemma `CounterSteps` says how each
action moves one attempt from one set to the next, and the arithmetic is over
cardinalities. The saturating decrement makes `active` an upper bound only.

`PeerPartsProofs`, for any connections, addresses, peers, brokers, workers and bounds:
- `DualDial`: `DecisionsAgree` (the rule prefers the same of two connections at both
  nodes), `NeverForgotten`. The inductive invariant is that the
  live end is the registered one and that an end in `evict` or `insert` is not.
- `FailuresAreEarned` (`FailsOnlyAfterAll`, `StatsTellResults` of `Reach`). `TriedInv` says for each call how
  many dials and punches the address it is at has behind it, which is less than all
  while it is under way; a race that drops the dials midway starts them again. `FitInv`: who dials
  has the transport. `StatsInv` balances the counters of successes with the set of calls served.
- `ReportedOnce` (`OncePerWindow`, `IfaceFollows`, `BrokersAreTried` of `NodeDiscovery`). `WindowInv`: a peer that
  was reported within the window is in the table, so pruning, which drops only entries
  older than the window, cannot make room for a second report. `BrokerInv`: the counter of each task
  is the number of its own failures, and it ends at `MaxTries` exactly.
- `RecommendationsHold` (`FailuresInARow`, `BestAreKept` of `PeerCache`). `CacheInv` relates the entry of each
  address to the failures since its last success, through upserts and prunings. `BestAreKept` rests on every list having a stable ranking
  (`RankingExists`) and a ranking leaving nothing out (`RankingShape`).
- `ReportAlwaysAddsUp` (`ReportAddsUp` of `Bench`). `LoadInv` counts the workers by where they stand:
  requests begun are those counted plus those between two counters, and nobody is between
  them once all have been joined. The late answers of `setup()` widen the bound of the
  datagrams in the first socket by `MaxLate` (`SetupStep`).

`NetAgentProofs`: `TypeCorrect`, `FileAlwaysWhole`, `DiskNeverLoses`,
`ShutdownAlwaysSaves`, assuming finite connections and disjoint sets of calls.
The inductive invariant `SaveInv` speaks of saves until they overlap, and again after one
alone has mended the file: one is
under way at most, it is the only writer of the temporary file, which is empty
before it writes and whole before it renames, and what it saves contains what
is on disk and is contained in the cache. While a save is `mending`, it says the same of
that save but not that the file it is about to replace is whole. The step that matters most is
`Rename`: only `SaveIsNewer` shows that the file it puts in place has every peer
of the one it replaces. `Crash` keeps the invariant because `Load(path)` is the
new cache. Steps elsewhere in the agent are disposed of together (`Aside`).

`NatManagerProofs`: `TypeCorrect`, `NeverLeaks`, `KeptStays`, `OldIsRemoved`, for
any hosts, calls, jobs, ports and leases.
- `TypeCorrect` needs `TaskInv` (the renewal task exists exactly when `init()` is
  done), or `StartRenewal` could cut a round short; `KeyIsKey` says that a wrapped
  port is a port.
- `NeverLeaks` (`NoLeak`): `LeakInv` adds that a round renews only what is still
  recorded, and that a release covers everything the process has, so long as
  neither meets the other.
- `KeptStays` (`KeptNeverLapses`) assumes `Interval + 2 * Slack < Lease`. `KeptInv`
  bounds the age of what is recorded: none until the task starts, then the time
  slept plus `Slack`, and in a round either the mapping is still ahead or it is
  younger than the round.
- `OldIsRemoved` (`OldIsGone`): until the cleanup is over, what a dead process left
  is on its list.

`CommProofs`, for any ids, threshold, restarts, faults and calls:
- `RuntimeTypeCorrect`; `Lives` says what exists when (nothing but `init()` runs before
  it returned, no request is under way for a component that is down).
- `NeverReadyAfterShutdown` (`ReadyIsTrue`): a registration that was answered has issued a token, and
  only `Registered`, which comes before the callback exists, sets `ready`.
- `UnregistersOnce` (`OneLeaves`): `leaves`, which only a new life resets, is 0 until the callback
  is taken and 1 from then on.
- `ComesBackAsItself` (`IdIsKept`): what the next start will read is the first id, but while
  the file is being rewritten.
- `CheckpointsAreKept` (`CheckpointKept`): what is on the pool for nobody was abandoned, what
  a call found there was abandoned before it, and the file holds what it may or what a call
  wrote whose user is about to be told (`KeptInv`).
- `EventsHandledOnce` (`StreamSafe` of `EventStream`). `EventInv`: an event that a listener has handled is still in the
  deduplicator's window, or was pushed out of it; a replay that hands it over again finds its key.
- `CommIsSafe`: all of these and the types of `Discovery` and `Checkpoint` over `MCComm`.

`NatPartsProofs`, for any nodes, calls, endpoints, lists and bounds:
- `HolesAlwaysMutual` (`HolesAreMutual`): packets under way opened their sender's NAT, and
  those in a socket found the receiver's NAT open. `PunchInv` adds for `HoleIsUsed` that a call a
  packet of its peer was to reach cannot be at its last pause, unless some call took one; `CountInv`
  balances the counters with the set of calls that are over.
- `HistoryAlwaysTells`, `ReportsAlwaysAddUp` (`NatState`): who holds the lock of the history, and
  what it has pushed or seen; `CappedEnds` says that capping keeps the last entry.
- `NatMetrics`: `MetricInv` gives the lengths of both windows from the counters and from who is between
  two locks; `AlignInv` that where both hold an operation they hold the same, also when one is full
  and the other is not, which `RecordsAgree` rests on. `SummaryInv` follows each `summary()` from lock to lock. `LatencyInv` is for `WindowAddsUp`:
  the running sum is the sum of the window, through each sample that enters and the
  oldest that leaves. The percentiles stand in order because `Place` rises with the percentile and a
  sorted list rises with the place (`PercentileShape`). `ProviderInv`: inserting before the first of a
  larger number keeps the list sorted.
- `PortProtocols`: `PortInv` says that the gateway spoke once about the call whose answer is in the socket, and
  that what it granted stands until it serves another call for the same port; a call that succeeded
  was served, or was refused over PCP with lifetime 0 (`TakenRight`).
- `Stun`, `Ipv6`: `StunInv` and `Ipv6Inv` say what the first request or the first write has learned while
  the second one is under way, and what the verdict rests on.
- `NatIsSafe`: all of `NatSafe`, over `MCNet`.

Lists and sums. The provers have no induction over data and do not unfold `SelectSeq`, `SortSeq` or the
folds, so the modules proved about say what these produce and not how they run: `Replay` in
`EventStream`, `Only` and `Rankings` in `PeerCache`, `Sorted` in `NatMetrics` (a list put in order by an injection of its
positions), `SumOf` (how many pairs of a position and a number up to the value there). TLC
evaluates the same definitions. What is needed of them comes from cardinalities instead of induction: a finite strict
total order has a rank function onto an interval (`Enumerated`), from which every list can be sorted (`Sortable`), the
sort reaches every position (`RankingOnto`), and a sum grows and shrinks by the element that
enters or leaves (`PairsAppended`, `PairsShifted`).

Model-checked only: the properties that need fairness (liveness and `ENABLED` are out of the
prover's reach), hence all of `Keepalive`, whose properties are of that kind; and the two
runs that end in a violation, with the other properties that do not hold.

## Not modelled, and why

- Wire formats, socket I/O and resolvers beyond the fields that decide something;
  logging, error conversions, the command line and the reports of `pnos-bench`: no
  state of their own.
- `crates/pnos-comm/src/middleware.rs` compares a token, `health.rs` counts: nothing that
  outlives a request.
- The identity file of `transport/iroh.rs` (written in place, so a crash can cut it short).
- The authenticator, the dialer and the peer policy are the application's; `Replenish` only
  chooses peers and spawns `connect()` calls.
- Session events, the counters of duplicates, rejections and traffic, cancellation of
  `connect()`, the clock of `tick()`.
- The flags and reports of `NatManager`; `discover_mapped_address` and `detect_nat_type` of the hole
  puncher; `check_udp_reachability` of `nat/stun.rs`, which asks one server and keeps nothing.
- The listing calls of `RuntimeClient`, the explicit `refresh()` of `Discovery`, the routes of `server.rs`.
- Latencies and the pacing of requests in `pnos-bench`.

## Plan

1. Done: all modules above, in twelve runs.
2. Done: a theorem for every safety invariant and action property of the runs. To come: the
   invariants of `Keepalive` on which its liveness rests (who holds the writer lock, an entry
   of the tracker is of a probe that was written), and an abstract window of events that
   `EventStream` implements.
3. Session layer, to complete: a timed model of `tick()` (a live peer is not dropped, a
   silent one is), the order of events, cancellation of `connect()`.
4. The classification of addresses in `types.rs`, proved to partition the candidates.
