# TLA+ models of the Shadowsocks client for Android

The program runs native proxy daemons behind an Android service and offers them
as a VPN, a transparent proxy or a SOCKS5 port. Two things in it are hard to get
right and hard to test. One is the life of the service around the daemons:
coroutines on the main thread that are cancelled half-way, threads that block on
sockets and processes, a selector thread, an actor fed by system callbacks, a
binder between two processes, and state that must survive the death of a process
and a reboot. The other is the relaying itself: event loops in C in which a
callback stops one watcher, starts another, frees what a later callback uses, and
passes on an end of stream that may overtake data. These modules model both, check
them with TLC and prove the safety properties of the service, of its helpers and of
the modelled parts of the daemons with TLAPS.

Kotlin paths are below `core/src/main/java/com/github/kxu03013112/`, C paths below
`core/src/main/jni/`, unless they say otherwise.

## 1. The system and its parts

| part | source | state it keeps | operations |
|---|---|---|---|
| service lifecycle | `bg/BaseService.kt`, `VpnService.kt`, `TransproxyService.kt`, `ProxyService.kt`, `LocalDnsService.kt`, `ProxyInstance.kt`, `Executable.kt` | `Data`: state, connecting job, processes, proxies, receiver, notification; the VPN's `conn`, `worker`, `active` | `onStartCommand`, `stopRunner`, `forceLoad`, `onRevoke`, close receiver, `startProcesses`, `killProcesses` |
| process pool | `bg/GuardedProcessPool.kt` | one looper, process, waiter thread and `exitChannel` per daemon | `start`, restart, `onFatal`, `close` |
| binder, clients | `bg/BaseService.kt` (`Binder`), `aidl/ShadowsocksConnection.kt`, `MainActivity` | callbacks, bandwidth listeners, the looper; the client's service, registration, bandwidth timeout | register, listen, broadcast, connect, disconnect, `binderDied` |
| local DNS server | `net/LocalDnsServer.kt`, `net/ChannelMonitor.kt` | selector, registration queue and pipe, one coroutine per packet | `start`, `handlePacket`, `resolve`, `forward`, `shutdown`; `register`, `wait`, `run`, `close` |
| default network | `net/DefaultNetworkListener.kt` | the actor's listeners, network, pending requests; the registration | `Start`, `Get`, `Stop`, `Put`, `Update`, `Lost` |
| traffic accounting | `bg/TrafficMonitor.kt`, `utils/DirectBoot.kt`, `database/ProfileManager.kt` | session totals, totals in the database and in device storage, dirty flags | `acceptInternal`, `requestUpdate`, `persistStats`, `update`, `flushTrafficStats`, the unlock receiver |
| `ss-local`, TCP | `shadowsocks-libev/src/local.c` | `server_t`, `remote_t`: stage, buffers, watchers | accept, both recv and send callbacks, delayed connect, timeout |
| `ss-local`, UDP | `udprelay.c`, `cache.c` | an LRU cache of associations, a socket and a timer each | recv from client and server, timeout, eviction |
| ciphers, salts | `aead.c`, `ppbloom.c` | a context per direction, two Bloom filters that take turns | encrypt, decrypt (stream and datagram), add, check |
| `redsocks` | `redsocks/redsocks.c`, `socks5.c` | a list of clients, a pump with two pipes each, the listener and its timer | accept, negotiate, splice read and write, pressure |
| `tun2socks` | `badvpn/tun2socks/tun2socks.c`, `socksclient/BSocksClient.c`, `system/BConnection_unix.c` | a client between an lwIP pcb and a SOCKS connection, pending jobs | the callbacks of lwIP, of SOCKS, the frees |
| socket listeners | `net/LocalSocketListener.kt`, `ConcurrentLocalSocketListener.kt` | a thread on a local socket, its connections | `accept`, `shutdown` |
| rules, names, settings | `acl/`, `net/Subnet.kt`, `net/Socks5Endpoint.kt`, `database/`, `preference/`, `utils/Commandline.kt` | files and tables | parsing, matching, encoding |
| requests from outside | `BootReceiver.kt`, `VpnRequestActivity.kt`, `Core.kt`, `mobile/.../bg/TileService.kt` | none of their own | start, stop and reload requests |

How they interact. A start command makes the service launch a connecting job,
which registers with the default network, resolves the server, starts a pool of
daemons, the DNS server and the socket listeners and, for the VPN, hands a file
descriptor to `tun2socks`. A stop cancels and joins that job, closes everything
in parallel in one `coroutineScope`, announces `Stopped` and may start again. A
daemon that is lost for good calls `onFatal`, which stops the service. Packets of
the device reach `tun2socks` (VPN) or `redsocks` (transparent proxy), which talk
SOCKS5 to `ss-local`, which seals them for the server, or connects directly when
the rules say so. `ss-local` asks the service to protect its sockets and reports
its totals through a stat socket; they go into the session and, when it stops,
into the profile. Activities follow all of it through the binder.

What makes each part correct:

* pool: no daemon outlives its looper, none runs twice, a closed pool ends;
* service: `Stopped` means nothing is left, `Connected` means nothing is missing,
  every stop completes;
* binder: what the service has registered is what the client wants, and the client
  shows the state the service is in;
* DNS: the monitor's queue and pipe stay in step, packets are answered, shutdown
  releases everything;
* network: the actor ends up with the default network;
* traffic: nothing is counted twice, what was persisted early is not lost;
* relays: bytes in order and once, ends behind data, nothing stalls, nothing that
  was freed is used, limits hold;
* salts: a replay is refused, an honest answer is not.

`PROJECT.json` lists the hazards at their lines with the properties that watch
them; section 5 lists what the code does not promise.

## 2. Modules

```
ServiceContract <-implements- BaseService -EXTENDS-> ProcessPool <-implements- GuardedProcessPool

LocalDnsServer -INSTANCE-> ChannelMonitor        ServiceBinder
DefaultNetworkListener                           TrafficMonitor

Ppbloom <-EXTENDS- Aead <-EXTENDS- AeadStream, LocalRelay, UdpRelay
Redsocks                                         Tun2socks
```

Theorems and proofs are in modules that extend the models: `BaseServiceProofs`,
`ServiceBinderProofs`, `UdpRelayProofs`, `RedsocksProofs` and `Tun2socksProofs` for
the model they are named after, `SessionProofs` for `GuardedProcessPool` and
`TrafficMonitor`, `NetProofs` for `DefaultNetworkListener` and `LocalDnsServer`, and
`LocalRelayProofs` for `AeadStream` and `LocalRelay`. A model that shares its proof module
with another has its own names for `Init`, `Next`, `Spec` and `vars` (`TrafficInit`,
`ListenerInit`, `StreamsInit`).

**GuardedProcessPool**: the detailed pool. `pc[g]` is where looper `g` is
suspended, `proc[g]` the operating system's process, `waiter[g]` the thread in
`waitFor`. The actions are the steps of the code between suspensions; `Exit` is
the process. The three bands of the API level select the kill sequence.

**ProcessPool**: what the service relies on. A daemon is idle, running, in its
restart callback, being killed, ended or unreaped (its looper waits for a code
that nobody sends). The service extends it and `GuardedProcessPool` implements
it, so that the service is checked with four daemons instead of four loopers,
processes and threads.

**BaseService**: the service in one of three modes. `job` and `stop` are where
the connecting and the stop coroutine are suspended; `up` is what `startProcesses`
has brought up besides daemons; `closing` the socket threads on their way out;
`orphans` the daemons of a process of the service that died, and `spared` those among
them that `killAll()` could not find or not kill, which may be any of them. A step
runs from one suspension point to the next, because all of this code runs on the main
thread.

**ServiceContract**: what a client may believe. The states follow one another as
the state machine says, and resources are held only between `Connecting` and
`Stopped`.

**ServiceBinder**: the two processes of the binder. Calls that wait for a result
are one step; `oneway` holds the others in order, but a call that waits may
overtake them. `posted` is the service's main thread, `wire[c]` and `handler[c]`
carry callbacks to a client's. `Announce` and `Assign` are the two halves of
`changeState`. The framework's own events reach a client ahead of what its handler
holds or behind it. The service is created, destroyed and killed; an activity opens,
comes to the foreground, leaves it, closes or dies.

**LocalDnsServer**, **ChannelMonitor**: the DNS server's coroutines (`main[q]` for
`resolve`, `remote[q]` for `forward`) over the monitor's queue, pipe, keys and
thread. They run on several threads, so `register()` is split at the queue and at
the pipe. `refused` is history: the queries whose reply the socket has refused.

**DefaultNetworkListener**: the actor, the callback that blocks until the actor
has taken its message, and the system that owes callbacks.

**TrafficMonitor**: one total per profile (tx and rx behave alike) in the daemon,
the session, the database and device storage. `acceptInternal` is two steps on the
stat thread (the total, then `dirty`), `requestUpdate` two on the main thread
(the copy, then `dirty = false`). `carried`, `saved`, `due` and `overlapped` are
history variables.

**Ppbloom**, **Aead**: operators. A filter is an exact set, since its rate of false
positives is 1e-15. Sealing is symbolic: a unit opens only under the key and nonce
it was sealed with. `aead_encrypt`, `aead_decrypt` and the datagram forms return
the buffer, the context, the filter and the error, as the functions do.

**AeadStream**: the streams of one process that share one filter. `wire[s]` is the
whole sealed stream and `got[s]` how much of it has arrived: TCP cuts it anywhere;
an answer may be a copy of an earlier one, of what `ss-local` sent itself, or
sealed with another password. A chunk has any length up to `CHUNK_SIZE_MASK`.

**LocalRelay**: one TCP connection of `ss-local` from `accept_cb` to the free. `c`
is `server_t` and `remote_t`: stage, watchers that are started, the three buffers
with `idx` and `len`. A callback is an action; what it calls is an operator that
gives the set of states in which the call may end, since `recv` and `send` take
any part of what they are offered. `env` chooses the request, the routing, fast
open, SNI and what `protect_socket` answers.

**UdpRelay**: the associations of `ss-local` in the order of the cache, with a
network that loses, delays, reorders and duplicates datagrams.

**Redsocks**: clients as slots, each with the SOCKS5 negotiation and then two
splice pumps (`TransproxyService` writes a configuration without a `splice` key and
`is_splice_good` selects it), pipes that fill up, writes that block, half-closes;
the listener with its limit, the pressure and the timer.

**Tun2socks**: one client. Every event is handed to a callback, and the jobs that
it pushed run before the next one, the last first. A callback of lwIP runs its jobs
before it returns, so that client, pcb and SOCKS connection may be gone by then;
`st.call` is the frame of the callback, `dead` the pointer into it, and `wild`
records a write through a pointer that is no longer valid.

## 3. What TLC checks

| run | instance | distinct states | properties |
|---|---|---|---|
| `pool` | a daemon that survives SIGTERM, one with a restart callback, late timeouts, API 26 | 431 | `EndedIsReaped`, `EveryWaitIsAnswered`, `CloseCompletes`, `ImplementsProcessPool` |
| `service` | VPN, 4 daemons, 1 start in flight, 2 fatals, 1 crash | 199 thousand | `StoppedIsClean`, `ConnectedIsWatched`, `NoOrphanBesidePool`, `ImplementsContract`, `StopCompletes`, `LostDaemonStops`, `ReloadStartsAgain` |
| `binder` | 1 activity, 2 instances of the service, 1 change of state, 2 turns | 1.1 million | `ChecksHold`, `RegistrationsAgree`, `ShowsTheState`, `Reconnects` |
| `traffic` | 2 units, 3 sessions, 2 reboots, 1 restart of `ss-local`, 1 `ACTION_SHUTDOWN` | 384 thousand | `TotalsInv`, `ShownIsCurrent`, `UnlockRestores` |
| `network_listener` | 2 networks, 2 listeners, 1 request, 3 callbacks owed | 37 thousand | `ActorInv`, `GetIsAnswered` |
| `dns_server` | 2 packets of any kind, TCP, Android 7 | 1.2 million | `ServerInv`, `OneBytePerRegistration`, `ServfailIsLastResort` |
| `dns_live` | 2 packets of three kinds, UDP, Android 6 | 230 thousand | `ShutdownCompletes`, `QueriesServed` |
| `streams` | 2 answers, filters of 2 salts, 3 own and 2 foreign salts, 3 bytes in chunks of 1 or 2 | 254 thousand | `FilterInv`, `StreamInv`, `NoReplayAccepted` |
| `local_relay` | buffers of 4 units, 3 bytes up, 2 chunks down, an SNI of 3 | 145 thousand | `RelayInv`, `EndAfterData`, `Served` |
| `udp_relay` | 3 clients in a cache for 2, 4 packets, 2 answers, a timeout of 2 ticks | 477 thousand | `CacheInv`, `AnswersDelivered`, `OnlyIdleTimesOut` |
| `redsocks` | 2 clients at a limit of 2, one of them with data | 72 thousand | `PumpInv`, `Accepting`, `Relayed` |
| `tun2socks` | window, send and receive buffers of 2, 3 bytes up, 5 down | 62 thousand | `ClientInv`, `BytesConserved`, `Drains` |

A property named `...Inv`, and `EndAfterData`, `Served`, `Accepting`, `Relayed`,
`BytesConserved`, `Drains`, `ChecksHold`, `RegistrationsAgree`, `AnswersDelivered`,
`UnlockRestores` and `QueriesServed`, is the conjunction of named parts, each with
its own comment in the module: the parts that together say one thing about the
component, with its type invariant where there is one. `TypeOK` of the pool and of
the service is proved (section 4).

What the runs show, in a sentence each:

* `pool`: a looper returns only with its daemon dead and the exit code taken, every
  receive has somebody to answer it, and a closed pool ends, up to one cut callback.
* `service`: whatever stops, reloads, revocations, losses, failures and crashes
  happen in whatever order, `Stopped` is clean, stops complete, a lost daemon ends
  the session and a reload gets its second start; a pool works beside no daemon of an
  earlier process but those that `killAll()` tried to kill and could not.
* `binder`: neither `check` of the code ever fails; at rest the registrations and
  the state shown are right, up to oneway calls that were overtaken and the window
  inside `changeState`; a client that stays gets back to a running service.
* `traffic`: nothing is counted twice; the clients see the last report unless the
  two threads raced; a device copy that was destroyed comes back.
* `network_listener`: when the callbacks are in, actor and listeners know the
  default network, and nobody waits for a network that is known.
* `dns_server`, `dns_live`: each registration has its byte; SERVFAIL is the last resort,
  unless the local resolver throws what `resolve` does not expect (section 5); only a
  reply that the socket refused makes the server deaf; all packets that parse are
  answered; shutdown ends and releases all.
* `streams`: a replay is refused also when both copies were open before either was
  accepted; a failed answer leaves no trace in the filter; chunks are delivered as
  soon as they are whole.
* `local_relay`: the bytes the server opens are the address, once, and the client's
  bytes; ends follow data; both directions resume after every wait.
* `udp_relay`: sockets, watchers and cache entries are the same set; answers get to
  the client that asked, once; only idle associations time out.
* `redsocks`: pumps lose nothing and do not stall; the assertion on the limit
  holds; closed ends free the client.
* `tun2socks`: no callback touches what its jobs have freed, ERR_ABRT is returned
  exactly when it must be, the window always fits the buffer, half-closed clients
  deliver what is buffered and go.

**Bounds.** Two daemons are enough for the pool because loopers share only `closed` and
`fatals`; the service always has its four. One start in flight covers a request that
meets any state, and the service may be started again and again; two fatals let one be
stale; one crash leaves orphans, of which `killAll()` may spare any. Two instances let a
death notice of the first arrive after the second is connected. Two networks allow a
late `Lost`. Two packets are the fewest that share the monitor's queue. A filter of two
salts turns over within a run. Relay buffers hold less than the data, so that they are
full, empty and part-way; a cache of two with three clients evicts. One idle client
beside a busy one is what pressure needs. Each bound is a constant of the `.cfg` and a
guard of the module. The `transproxy` and `proxy` modes are covered by the theorems, the
`vpn` mode, which has every step of the others, by the run. `dns_server` and `streams`
use the symmetry of packets and salts and `udp_relay` of clients; runs with liveness use
none. `CHECK_DEADLOCK FALSE` stands where the system may stop: a closed pool, a freed
connection, bounds that are used up.

**Fairness.**

* Pool: the main looper and waiter threads run what is ready, and a process exits
  on a signal it does not survive; a daemon nobody signalled may run forever.
* Service: the main looper runs ready coroutines, the system delivers start
  commands, socket threads that were shut down end, loopers get on with killing.
  Nothing obliges `proxy.init` to return, since it may wait for a network.
* Binder: the system creates the service that is bound, both main threads and the
  binder threads run what was posted, deaths are reported.
* Traffic: the user unlocks the device and the receiver runs, or the application is
  started.
* Network: the system makes the calls it owes, the actor runs.
* DNS: coroutines and the thread run and timers go off; neither clients nor the
  network owe anything.
* `ss-local`: the event loop calls callbacks whose descriptor is ready, and a
  connection that is on its way is made or refused. `FairSpec` states this with
  `WF_client(ClientRead)` and `WF_remote(RemoteRead)`: a read always changes what was
  read, so that the subscripts are equivalent to `vars` and cheaper to evaluate.
* `redsocks`: libevent calls callbacks whose event is active; a peer with a full
  buffer goes on taking what is sent, or its connection fails.
* `tun2socks`: the reactor runs jobs and descriptors, and data that was sent is
  acknowledged or lwIP gives the connection up.

## 4. What is proved

For every value of the constants, from the assumptions that the modules name
(`GuardedPoolAssumption`, `ServiceAssumption`, `DnsAssumption` and so on: bounds are
natural numbers, sets of clients or packets are finite where the code counts them,
`None` is no network, a cache has room for two, the windows and buffers of
`tun2socks` hold at least one byte). The bounds of section 3 are constants
too, so that no theorem depends on their size.

* `SessionProofs`, the pool: `TypeCorrect`, `NoOrphanDaemon` (`EndedIsReaped`),
  `WaitsAnswered` (`EveryWaitIsAnswered`), `NoDoubleStart` (`RestartAfterExit`) and
  `Implements` (the refinement of `ProcessPool`). The properties are not inductive:
  that a looper which returns has a dead daemon depends on what each suspension
  point says about process and thread. The invariant `LooperInv(g)` says it for each
  value of `pc[g]`; for instance that a delivered code means a dead process and a
  thread that is done.
* `BaseServiceProofs`: `CleanWhenStopped`, `ConnectingStopsFirst`,
  `ConnectedIsComplete`, `OrphansKilledFirst` and `Refines` (the refinement of
  `ServiceContract`). The inductive invariant `IInv` (theorem `ServiceCorrect`) adds to
  `TypeOK`: `JobInv`, what each suspension point of the connecting job has and lacks;
  `StopInv`, the stop coroutine and the state agree; `PoolInv`, a pool exists only with
  a job, a connection or a stop, and beside it only orphans that `killAll()` has met
  (from `JobRun` on, which calls it, `orphans` is within `spared`); `DataInv`, when the
  references in `Data` are set; `WatchInv`, that what has been brought up is up or its
  loss is reported. Without `WatchInv` the step to `Connected` could announce a session
  whose daemon died while `sendFd` was retried.
* `ServiceBinderProofs`: `CodeChecks` (`ChecksHold`), `RegistrationsCorrect`
  (`RegistrationsAgree`) and `ShowsCorrect` (`ShowsTheState`). All three speak of the
  moment when nothing is under way, so the invariants say what will come of what is
  under way. `Inv0`: an instance is made only when there is none, and what a client
  believes of its connection is true of the instance it is bound to. `RegInv`: a
  client *will* listen (`WillListen`) if no oneway call that takes it out is queued and
  the last thing posted for it is a start. `ShownInv`: a client *will* show
  (`WillShow`) the last state on the wire, or else the last one at its handler, or else
  what it shows. `RegInv` needs `Inv0`, `ShownInv` needs both.
* `SessionProofs`, traffic: `TotalsCorrect` (`TotalsInv`) and `ShowsWhatWasReported`
  (`ShownIsCurrent`). `CountInv` bounds the device copy also while it is clean, since
  a later `persistStats` adds to it, and keeps what the session carried apart from
  what is due; `ShownInv` adds the moment between the copy and `dirty = false`.
* `NetProofs`, the network listener: `ActorCorrect` (`ActorInv`). `NewsInv`: while a
  callback is registered the news of the default network is known, is being sent or
  is still to come, and nothing queued behind it undoes it, leftovers of an earlier
  registration included.
* `NetProofs`, the DNS server: `ServfailCorrect` (`ServfailIsLastResort`), `PollCorrect`
  (`PollFindsRegistration`, a part of `QueriesServed`), `BytesCorrect`
  (`OneBytePerRegistration` for Android 7 and later: on Android 6 it is false, see
  section 5) and `ServerCorrect` (`ServerInv`). `AnswerInv`: where a query is tells
  which sources it has asked, and that its forward is over when its reply is sent.
  `QueueInv`: bytes in the pipe and bytes about to be written (`Sent`, a set whose size
  is counted) together are at most the queued registrations, and exactly as many on
  Android 7 until `shutdown()`. `ChannelInv`: who owns each channel, who holds its key,
  and that only a reply which the socket has refused, queued or served, takes the
  server's interest away.
* `UdpRelayProofs`: `CacheCorrect` (`CacheInv`), `TimeoutsAreIdle`
  (`OnlyIdleTimesOut`) and `AnswersDeliveredOnce` (`AnswersDelivered`). `AssocInv`: a
  descriptor is in one entry and no newer than the last packet, and its timer shows how
  long the client was idle. `DatagramInv`: what is on its way names the client its
  socket was made for. `SaltInv`: of the two filters the one in use holds the latest
  salts and the other the `Entries` before them, so that the last `Entries` salts are
  always remembered when the filters change places.
* `RedsocksProofs`: `AcceptingCorrect` (`Accepting`) and `PumpsCorrect` (`PumpInv`).
  `AcceptInv`: the listener is on only with room and never beside the timer; the proof
  counts the clients, and dropping idle ones makes the count smaller. `PumpOK(c, k, n)`
  relates a client to its sockets: what was written, buffered and piped is what was
  read; the pipe is empty until the pump starts, else buffered bytes would be
  overtaken; a side is marked as read to its end only if nothing is left to read, which
  is why the end of a stream cannot overtake its data; a free slot has fresh sockets.

* `LocalRelayProofs`, the ciphers: `FilterCorrect` (`FilterInv`), `StreamsCorrect`
  (`StreamInv`) and `NoReplay` (`NoReplayAccepted`). The invariant `StreamsIInv`
  (theorem `StreamsAlways`) describes a sealed stream pointwise: with the ends of its
  chunks in `E`, chunk `k` lies between `Off(E, k - 1)` and `Off(E, k)`, its length
  block sealed under nonce `2 (k - 1)` and its payload under the next one (`Sealed`). A
  connection that is open stands at the end of some chunk `j` (`Reads`): its nonce is `2
  j`, it has handed over the payload up to there, and its buffer is what arrived behind
  it. The loop of `aead_decrypt` is a recursive function with as many turns as there are
  whole chunks. That it ends at the right chunk is an induction: `SetInduction`, proved
  from the library's `WFMin`, takes the set of the lengths for which the claim holds
  instead of a predicate. `FilterHolds` is what `UdpRelayProofs` says of the two
  filters, here for any way of adding salts. `NoReplay` follows because the salt that a
  connection saw at its start is looked up again when the first chunk has opened.
* `LocalRelayProofs`, the relay: `RelayCorrect` (`RelayInv`) and `RelayEnds`
  (`EndAfterData`), for every `SOCKET_BUF_SIZE` of at least four units. The invariant
  `RelayIInv` (theorem `RelayAlways`) puts a connection in one of three states: in the
  handshake (`Early`: `buf` holds exactly the units read and not yet answered), relaying
  (`Relaying`), or given up for a reason. `UpSide`: what the kernel has taken, then
  `abuf`, then `rbuf`, is the sealed stream (`Sealed`) of the address and of all that was
  read from the client; `server_recv` is on only with `rbuf` empty, and never beside
  `remote_send`, so that no recv overwrites what waits. `DownSide`: what the client has
  taken, then `buf`, is both replies and the payload of the chunks that arrived
  (`Reads` of the answer, which is itself a recursive function proved to be `Sealed`);
  `server_send` and `remote_recv` exclude each other. The callbacks compose operators
  (`Serve`, `server_stream`, `Connect`, `SendUp`, `SendDown`), each with a lemma on the
  record it is given; `Carries` adds that no step but the two ends of a stream
  closes for one, from which `EndAfterData` follows. That an early end of the client
  is never read into a full buffer (`NoFalseEnd`) rests on `RoomToRead`.
* `Tun2socksProofs`: `ClientCorrect` (`ClientInv`) and `BytesCorrect`
  (`BytesConserved`). `SystemOK(s, e)` (theorem `ClientAlways`) is about a client record
  and its surroundings, and not about the variables, because a callback is a
  composition of operators on that record, each of which is a lemma (`client_dealloc`,
  `client_socks_recv_send_out` and so on keep or restore it). `DeadOK`: while a callback
  of lwIP runs, its `dead` variable is set exactly if the client was aborted inside
  it. `PcbOK` and `SkOK`: which callbacks and jobs may be pending with which sides
  open. `WndOK`, `PendingOK` and `ReadOK`: the three counters that flow control rests on.
  `UpOK`, `DownOK` and `EndOK`: which bytes are where, and what an end means.
  `client_socks_recv_send_out` is the delicate one: it is called with part of the
  buffer written and leaves it written, waiting, or the client gone.

Each proof has one step per action and one per conjunct it can disturb; `Refines`
goes through the lemma `Transitions`, which gives the change of state of every
action; the proofs about queues and buffers rest on lemmas on `Append`, `Tail` and
`SubSeq` of their own. `RestartAfterExit` and `StopConnectingFirst` are stated by
theorems alone.

Model-checked only:

* every liveness property (fairness and ENABLED are out of the prover's reach):
  `CloseCompletes`, `StopCompletes`, `LostDaemonStops`, `ReloadStartsAgain`,
  `Reconnects`, `UnlockRestores`, `GetIsAnswered`, `ShutdownCompletes`, the second part
  of `QueriesServed`, `Served`, `Relayed`, `Drains`.

## 5. What the code does not promise

The models follow the code, and the properties name these as exceptions where they
touch them.

Service and pool
* `GuardedProcessPool.kt:106`: a pool closed while `onRestartCallback` is suspended
  (`running` is true since :85, the new waiter thread does not exist yet), or whose
  grace timeout expires between the delivery of the code and the looper's
  resumption, waits forever in its last `receive()`; the service stays in
  `Stopping`. `Unreaped` in `BaseService`.
* On API 24 and 25 only SIGTERM is ever sent: a daemon that survives it keeps the
  pool open.
* `Executable.kt:40`, `:43`, `:49`: `killAll()` gives up where `/proc` cannot be listed,
  skips a process whose `cmdline` cannot be read and only logs a SIGKILL that fails;
  connecting goes on beside the daemon that is left. `spared` in `BaseService`.
* `BaseService.kt:283`, `:367`: a reload or a start during `Stopping` is dropped.
* `BaseService.kt:158`, `:209`: the keepalive loop lives in `GlobalScope`, is never
  cancelled, and its answer stops whatever session runs when it arrives.
* `VpnService.kt:125`: `DefaultNetworkListener.stop(this)` inside `launch` passes the
  coroutine scope, not the service, so the listener stays registered.
* `VpnService.kt:79-88`, `shadowsocks-libev/src/android.c:92`, `local.c:672`,
  `udprelay.c:1188`: a socket that could not be protected is answered with 1, and
  only -1 is taken for a failure.

Binder
* `BaseService.kt:93`: `changeState` broadcasts before it assigns; a client that
  registers in between misses the broadcast and reads the old state.
* `registerCallback` or `startListeningForBandwidth` may overtake the oneway calls of
  the connection before and is then undone; a death that is reported late makes the
  client forget that it listens. `JNewActivity.kt:76` never disconnects.

DNS and network
* `LocalDnsServer.kt:109`: a reply that must wait for the socket replaces the
  server's own listener (`ChannelMonitor.kt:92`); the server never reads again.
* `LocalDnsServer.kt:147-157`: an exception of the local resolver other than a timeout
  or `UnknownHostException` is answered with SERVFAIL; the forward is cancelled if it
  still runs and ignored if it has succeeded. `ServfailIsLastResort` names the case.
* A start that is cancelled while its registration is queued leaves the bound channel
  open. A packet that cannot be parsed is forwarded without a timeout.
* On Android 6 a coroutine cancelled in `writeCompat` leaves a registration without a
  byte, and later ones are served one late.
* With no default network, a callback under way while the last listener stops leaves
  a stale network for the next one.

Traffic
* A session that saw `ACTION_SHUTDOWN` and goes on is added twice; a restarted
  `ss-local` loses what the session had counted; a device copy older than the last
  session overwrites the database; a fallback's device copy is destroyed before the
  unlock; `TrafficMonitor.kt:71`: an update can be lost until the next report.

`ss-local`
* A client that half-closes loses the rest of the answer. A fast open in progress has
  no timer. A `recv` that would block cancels the delayed connection. A UDP associate
  is answered again for each further byte. `aead_decrypt_all` leaks its context when
  a salt is repeated.

`redsocks`
* `redsocks.c:1079-1086`: `redsocks_accept_backoff` under pressure calls
  `conn_pressure`, which drops idle clients and returns (:1032) with neither the timer
  set nor the listener on; `conn_pressure_lowered` only listens when the timer is
  pending. Nothing is accepted any more. `PauseHasAnEnd` states this as the only case.
  (Like the exceptions of `EveryWaitIsAnswered`, `ShownIsCurrent` and
  `RegistrationsAgree`, it confines the defect to its cause and does not exclude it.)
* A relay that ends during the negotiation leaves the client until the pressure drops
  it (:820); EAGAIN on an empty pipe leaves the source unread (:508); with a clock
  that stands still a client just added may be dropped (:1142).

## 6. Assumptions and abstractions

* A coroutine cancelled after its result was dispatched sees the cancellation
  (kotlinx-coroutines 1.3.3). An exception in the clean-up ends the process.
* Orphans are told apart by their executable: two of the same kind, left by two
  crashes, are one, of which `killAll()` may spare either.
* Binder: what is posted to one handler is FIFO, and the framework's own events may
  come before or after it; oneway calls on one object keep their order. The
  fields of `TrafficMonitor` are sequentially consistent.
* `ss-local`: the two bytes that answer the client's methods (`local.c:904`, whose
  result is not checked) are delivered. They are the first bytes on the socket, so
  that they always fit; if the client has reset the connection, nothing it is sent
  arrives and the next `recv` fails, which is a step of the model. What is sent to a
  client that is closed at once is left out.
* UDP: an ephemeral port is not reused while an old answer is on its way.
* `redsocks`: two readings of the clock in one callback differ.
* `tun2socks`: assertions are compiled out (`Android.mk:291`); a segment carries one of
  data, FIN and acknowledgement; `tcp_write` may fail with ERR_MEM at any time;
  `tcp_close` and `tcp_output` may fail as their contract says although this lwIP
  never does.
* Names, addresses, rule matching, host name parsing, key derivation and formats are
  inputs or model values.

## 7. Not modelled

* Traffic: a death of the application's process without a reboot, for instance between
  `persistStats` and the unlock.
* `stopSelf()` with nobody bound racing a start; `onRevoke` on a binder thread; the
  keepalive loop; `LocalSocketListener.accept` and `ProtectWorker` beyond what they
  answer.
* Parsing and encoding in Kotlin: rules, subnets, SOCKS5 framing, settings, command
  lines, links. They keep no state and are covered by unit tests where there are any.
  `HttpsTest` and `AclSyncer`, which belong to the user interface.
* In `ss-local` the stream ciphers and the parsers; in `redsocks` the buffer pump,
  http-connect, socks4, redudp, dnsu2t and the configuration; in `tun2socks` UDP, the
  device and the packet formats.
* Third-party libraries: mbedtls, libsodium, libevent, libev, pcre, libancillary,
  lwIP and the rest of badvpn. They are nearly all of the half million lines of C in
  the repository; the program's own logic, and what of these daemons it depends on,
  is the part mapped here. A model of, say, TLS or a regular expression engine would
  say nothing about this program: `ss-local` uses a handful of their functions.
* User interfaces, generated database code, build and data scripts.

## 8. Plan

Done: the pool, the service and their abstractions with proofs; traffic with both
threads; the network listener; the DNS server; the binder with its clients; the
ciphers, TCP and UDP relays of `ss-local`; the pumps and the listener of `redsocks`;
the TCP client of `tun2socks`.

Proved: every safety property that a run checks, of every component. What is left to
TLC is liveness, which the prover does not reach.
