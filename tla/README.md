# TLA+ verification of exethirteen-android

exethirteen is an Android VPN client, a fork of shadowsocks-android: a Compose
user interface in one process, and in the process `:bg` a `VpnService` that runs
two native helpers (ss-local and tun2socks) behind the system's VPN interface.
The project's own code is Kotlin, under
`src/app/src/main/java/me/offeex/exethirteen/` (6057 lines); paths below are
relative to it. The C code under `jni/` is badvpn (tun2socks, lwIP), libancillary,
redsocks and libevent; tun2socks is built from the repository with changes for
Android (the descriptor comes over a local socket, UDP goes to the SOCKS server
instead of a udpgw server). `Android.mk` builds it with `-DNDEBUG`: its assertions
are not there at run time. Paths that begin with `badvpn/` are relative to `jni/`.
The repository has no tests of its own code.

## 1. Inventory

| Component | State | Operations | Talks to |
|---|---|---|---|
| `bg/VpnService`, `BaseService.Interface`, `Data` | `data.state`, `proxy`, `processes`, `localDns`, `notification`, `connectingJob`, `worker`, `conn` | `onStartCommand`, `stopRunner`, `forceLoad`, `closeReceiver`, `onRevoke`, the connecting job, `sendFd` | everything below |
| `bg/GuardedProcessPool` | one looper coroutine per helper, its process, `running`, an exit channel | `start`, `close`, restart, `onFatal` | helper processes; calls back `stopRunner` and `sendFd` |
| `bg/ProxyInstance` | `trafficMonitor`, `configFile` | `init` (validation), `start`, `scheduleUpdate`, `shutdown` | the pool, `TrafficMonitor`, `AclSyncer` |
| `BaseService.Binder` | callbacks, bandwidth listeners, a looper | register, unregister, start and stop listening, broadcasts | `ShadowsocksConnection`, `ServiceNotification` |
| `aidl/ShadowsocksConnection` | connection flags, service and callback references | `connect`, `disconnect`, `onServiceConnected`, `onServiceDisconnected`, `binderDied` | the Binder, `ConnectionManager` |
| `manager/ConnectionManager` | the state shown | `toggle`, callbacks | `ShadowsocksConnection`, `Core` |
| `net/DefaultNetworkListener` | listeners, current network, pending requests | `start`, `get`, `stop`, network callbacks | `VpnService`, the system |
| `bg/TrafficMonitor` | current and last totals, `dirty`, `persisted` | packets, `requestUpdate`, `persistStats` | ss-local, the Binder |
| `net/LocalSocketListener`, `ConcurrentLocalSocketListener`, `bg/LocalDnsWorker` | a thread, a socket, `running` | accept loop, `shutdown` | ss-local |
| tun2socks, TCP: `badvpn/tun2socks/tun2socks.c` on lwIP | a `tcp_client` per connection: buffers in both directions, flags of the two sides, the pcb's callbacks | callbacks of lwIP, handlers of the SOCKS stream, `terminate` | lwIP, `BSocksClient` |
| tun2socks, UDP: `badvpn/tun2socks/SocksUdpGwClient.c` | a table of sockets by local address, ordered by use; a send buffer each | submit, reply, eviction, jobs | ss-local, the DNS gateway |
| `badvpn/flow/PacketBuffer.c`, `structure/ChunkBuffer2.h` | a ring of blocks, cached pointers | the handlers of its input and output | the UDP relay |
| `badvpn/socksclient/BSocksClient.c` | the state of the handshake, one buffer, I/O objects | connect, send and receive handlers, free | ss-local |
| `wait_for_fd` (tun2socks.c) and `sendFd` (VpnService) | a local socket, the descriptor | bind, select, accept, receive; connect, write, retry | each other |
| `acl/Acl`, `AclSyncer` | rule lists, a WorkManager job | parse, `flatten`, `toString`, download and retry | `VpnService` |
| `net/Subnet`, `utils/Commandline`, `plugin/PluginOptions`, `database/KeyValuePair` | none | parsing, encoding | |
| user interface, plugin activities | what is shown | | `ConnectionManager` |

What is hard about it:

* **Concurrency.** The main thread of `:bg` runs coroutines that are cut at
  their suspension points; the stdout threads of the pool, the listener threads,
  the ConnectivityThread and binder threads (`onRevoke`, AIDL calls) run beside it.
* **Failure.** Helpers die, are restarted, or exit too fast; every step of
  `startProcesses` may throw after any prefix of the others has succeeded.
* **Ordering.** A stop during a connect; a reload, which is a stop followed by a
  start delivered by the system later, with any other command in between;
  `onFatal` posted by a session that is already gone.
* **Reentrancy.** tun2socks has one thread, but lwIP's callbacks run inside
  `tcp_input`, run jobs themselves (`SYNC_COMMIT`) and may free what they were
  called for; jobs form a stack, so that the one set last runs first.
* **Timeouts.** 1000 ms between `destroy()` and `destroyForcibly()`; the bounded
  back-off of `sendFd`; a download without any timeout.

What makes each component correct: the service ends a session completely and
never revives one that is being stopped; Connected means that the whole session
stands; stops, connects and reloads come to an end; the pool restarts or reports
every dead helper, starts none after it is closed, and kills what it started; the
user interface shows the service's state; a service follows the default network;
tun2socks gets the tunnel's descriptor and nothing else, forwards every byte that
it accepted, in order, to where it belongs, never calls into freed memory and
leaves no connection behind.

## 2. Modules

| Module | Models | Run | Proofs |
|---|---|---|---|
| `GuardedProcessPool` | `bg/GuardedProcessPool.kt` | `pool`, `pool_orphan` | `GuardedProcessPoolProofs` |
| `VpnService` | `bg/VpnService.kt`, `BaseService.Interface` and `Data`, the calls into `ProxyInstance` | `service`, `service_revoke`, `reload_stopped`, `start_foreground` | `VpnServiceProofs` |
| `Tun2SocksClient` | TCP forwarding in `tun2socks.c`, the contract of lwIP's `tcp.c` and `tcp_in.c` | `client` | `Tun2SocksClientProofs` |
| `SocksUdpGwClient`, `MCSocksUdpGwClient` | `SocksUdpGwClient.c`, what feeds it in `tun2socks.c`, `BDatagram_unix.c`, `BPending.c` | `udp`, `udp_mixed` | `SocksUdpGwClientProofs` |
| `PacketFifo` | what `PacketBuffer` promises: a FIFO of packets | `packet_buffer` | `PacketBufferProofs` |
| `PacketBuffer` | `PacketBuffer.c`, `ChunkBuffer2.h` | `packet_buffer` | `PacketBufferProofs` |
| `ServiceConnection` | `ShadowsocksConnection`, `ConnectionManager`, `changeState` and the callbacks of the Binder | `connection` | `ServiceConnectionProofs` |
| `FdHandover` | `wait_for_fd`, `ancil_recv_fd`, `sendFd` | `parts` | `PartsProofs` |
| `DefaultNetworkListener` | `net/DefaultNetworkListener.kt` and its use by `VpnService` | `parts` | `PartsProofs` |
| `TrafficMonitor` | `bg/TrafficMonitor.kt`, bandwidth listeners and looper of the Binder | `parts` | `PartsProofs` |
| `LocalSocketListener` | `net/LocalSocketListener.kt`, `ConcurrentLocalSocketListener.kt` | `parts` | `PartsProofs` |
| `BSocksClient` | `badvpn/socksclient/BSocksClient.c` | `parts` | `BSocksClientProofs`, `PartsProofs` |
| `Acl` | `acl/Acl.kt` as the connecting job uses it | `parts` | `PartsProofs` |
| `MCParts` | nothing of its own: runs one of the six above | `parts` | `PartsProofs` |

How they fit together: `VpnService` takes the pool's close, the listeners'
shutdowns and `sendFd` as steps that end or fail; that they do is what
`CloseTerminatesUnlessLost`, `ShutdownEnds` and `Settles` say of the modules that
model them. The exception in the first is taken over: the pool that a stop closes
may lose an exit code (`ExitCodeLost`), and then its join never returns.
`ServiceConnection` takes the service's state changes along the edges
of `VpnService` (`Step`), Stopped to Stopping for a start that is not served included. `SocksUdpGwClient` uses its send buffers as the FIFO that
`PacketBuffer` is shown to implement, and `Tun2SocksClient` takes the SOCKS
handshake as something that comes up or fails, which is `HandshakeEnds`.

### GuardedProcessPool

`pc[g]` is where the looper of helper `g` is, `proc[g]` its operating-system
process, `running[g]` the local variable of that name, `signal[g]` what the
clean-up sent, `cancelled` the pool's Job, `fatal` the guards that launched
`onFatal`. The exit channel is a rendezvous between the stdout thread and the
looper: delivering the code (`Send`) and resuming the looper (`Restart`,
`GiveUp`, `DrainDone`) are two steps, because the second is posted to the main
looper. kotlinx.coroutines promises *prompt cancellation*: if the coroutine is
cancelled in between, it resumes with an exception and the value is lost
(`ResumeCancelled`, and `DrainTimeout` from "drained"). `close` resumes suspended
loopers at once because the pool runs on `Main.immediate`.

Whether a process lived for 1000 ms, and whether the timer or the exit comes
first, is a free choice.

### VpnService

`held` is the set of resources the service owns: the registered receiver, the
notification, and what `startProcesses` acquires in the order `Order`. A failure
of the connecting job is a failure after one of the `Prefixes`. `job[j]` is a
connecting job at one of its suspension points, `stops[s]` a stop coroutine
(joining the job, then joining the shutdowns), `pending` the profiles of start
intents `startRunner` sent that are not delivered, `fatals` the `onFatal`s posted
to the main looper. `StopRunner` begins the stop coroutine within the caller's
step, as `Main.immediate` does, and `StopJoined` continues it within the event in
which the job ends (no other event of `MainLooper` comes between).

`onRevoke` is called on a binder thread ("might not happen on the main thread of
the service", Android's documentation of the method): its test of the state
(`RevokeTests`), its assignment with the launch (`RevokeStops`) and the
coroutine's beginning on the main looper (`RevokedStopBegins`) are three steps.
All others run on the main thread.

A stop that joins the shutdowns remembers in `pool` what it waits for: a pool
without loopers ("none"), one whose loopers are ending ("loopers"), or one of whose
loopers waits for an exit code that was dropped ("lost"). `ExitCodeLost` is what
`Send` followed by `Close` or `DrainTimeout` is in `GuardedProcessPool`; after it
`ShutdownsDone` is disabled, so the hang is in the model and not assumed away.

`StopDone` waits for posted `onFatal`s: the pool is cancelled when the stop
begins to close it, so an `onFatal` was posted earlier than the resumption of
the stop coroutine, and the main looper is a FIFO queue.

`crashed` records that `data.proxy!!` threw in a coroutine nobody catches.

### Tun2SocksClient

`conn[c]` is a `tcp_client` together with its pcb; `input` is the call stack of
`tcp_input`: the segment, its phase (sent, recv, fin, end) and whether a callback
is in its SYNC section, where only the client's own jobs run. An action is a
handler, or the part of it up to or after the SYNC section. The helpers
(`FreeClient`, `FreeSocks`, `Murder`, ...) are functions from a client to a client,
one for each function of the code, composed as the code calls them; `Settle` ends
a step, and `numClients` shows a client that was freed twice. What lwIP answers is chosen
freely within its contract, which is read from `tcp.c` and `tcp_in.c`: for instance
that `tcp_close` inside `tcp_input` delays the deallocation, and that `tcp_input`
touches the pcb after a callback unless ERR_ABRT is returned.

### SocksUdpGwClient

`con[l]` is the connection of local address `l`, `list` the order of use, `jobs` the
stack of pending jobs. Reading a packet from the device, submitting it, the first
job of a new connection, the writer's jobs and the socket's are separate actions;
only the top of the stack runs, so every order the code can take is there and no
other. `dev` is the device's read buffer, which the first job reads late.
`find_connection` is modelled as written: its test of `is_dns` is
`!con && con->is_dns != is_dns`, which never compares, so a connection may change
its kind while its socket goes on pointing where the first datagram sent it. A reply of
the DNS gateway on a connection that has become one of the other kind is dropped: it is
read as a SOCKS header whose `frag`, where the reply has its QR bit, is not 0. `used`,
the flows submitted to a connection since it was made, and `wire`, `given` and `drop`,
what the last step did, are history.

### PacketBuffer and PacketFifo

`buf` is the ring with `start`, `used`, `wrap` and the cached input and output
pointers; `SubmitPacket` and `ConsumePacket` are the functions of `ChunkBuffer2.h`
with their conditional refreshes. `recv` and `send` are the pointers the two
neighbours hold across each other's calls. `IsFifo` is the refinement: the
packets read out of the ring's headers, the receive outstanding and the packet
sent are the variables of `PacketFifo`, and every step of the ring is a step of the
FIFO, which promises room for at least `num_packets`.

### ServiceConnection

UI process, service process and system have their own variables, and four channels
connect them: posts to the main thread, oneway calls in each direction, and death
notices. `onServiceConnected` is three steps (the method, `registerCallback`,
`getState`), because the service and the binder threads run between the two
synchronous calls; `changeState` is two (`Broadcast`, `Assign`). `tainted` records
that one of three races has happened which `FreshView` excepts, each of which TLC
finds when it is not excepted: `registerCallback` falls between broadcast and
assignment; a `stateChanged` for an earlier registration arrives after the next
bind; the oneway `unregisterCallback` of an earlier connection is handled after the
new registration.

### FdHandover

tun2socks' `wait_for_fd` against `sendFd` with its retries, where either may be
arbitrarily slow, and a `sendFd` may still be retrying when its tun2socks is gone
and the next one listens. `select()`, `accept()` and `recvmsg` may fail, and
tun2socks may be killed at any point of `wait_for_fd` or behind it (`Exit`); the
connections it had not served are reset with its sockets. `took[p]` is set when
`ancil_recv_fd` returns the descriptor, not when the connection is accepted; `peer[s]` is
the process a call of `sendFd` reached and `missed` are the processes that left
`wait_for_fd`, or died, without a descriptor. `fd` is never set when nobody connects
within 10 s or the descriptor is not received: `Garbage` are the outcomes an
uninitialised int may have.

### DefaultNetworkListener

The actor's mailbox, its listeners, its network and the pending requests, with the
connectivity manager on the other side. `killProcesses` stops the coroutine's key
and not the service's, as the code does, so listeners of finished services stay.

### TrafficMonitor

The thread's two unsynchronised writes become visible one at a time in either
order; `requestUpdate` is two steps, the copy and `dirty = false`. Starting and
stopping to listen are posted to the main thread. `lost` records that a report fell
into that window, which `NothingMissed` excepts.

### LocalSocketListener

The accept loop step by step against the steps of `shutdown()`, with the
connections' coroutines; `Concurrent` selects the subclass.

### BSocksClient

Each handler of the handshake with the lengths it sends and expects; bytes arrive
in any portions. What exists (connector, connection, control or upper I/O, buffer)
is state of its own, so that freeing in the wrong state shows.

### Acl

`Reading` is what `ParseLine` has made of a file after each of its lines, and
`FromReader` what is kept at the end; `Flatten` with `Child` is the recursion of
`flatten`, with the child's parse, its own flattening and the merge in the code's
order; `AclToString` gives the lines that are saved. The properties compare the
result with `Reached`, the files reachable from the user's, computed level by level,
and `Listed`, what stands under a heading in them (`Under`), defined by positions in
the file.

## 3. Runs

| Run | Question | Result |
|---|---|---|
| `pool` | Is every dead helper restarted or reported, is nothing started after a close, does a close kill the first process and end (unless an exit code was lost)? | holds |
| `pool_orphan` | "otherwise process already exited, nothing to be done" (GuardedProcessPool.kt:95) | violated: after a restart `running` is false and the process alive |
| `service` | Does a stop undo every prefix of a connect; is Connected whole; is the connecting job over before the clean-up; is a reload's profile still there; can a stop be overtaken; do stops and connects end, does a reload connect again (unless a download or a pool that lost an exit code is waited for), and does such a pool hold the service in Stopping for ever? | holds |
| `service_revoke` | Does a revocation take the tunnel down in spite of the race? | holds |
| `reload_stopped` | "plis don't let dis shit happen" (BaseService.kt:228) | violated by a revocation that races with another stop |
| `start_foreground` | "gracefully shutdown" (VpnService.kt:154): a start that is not served still finds, or puts, the service in the foreground | violated at lines 147 and 150, by the start a reload requested |
| `client` | Does lwIP only call living clients and touch living pcbs; is ERR_ABRT returned exactly when `tcp_abort` was called; is the window the room in the buffer; does something move every client; is what was received flushed before a close, and a client with one side gone freed? | holds |
| `packet_buffer` | Is the ring, with its early wrap and cached pointers, a FIFO with the capacity asked for? | holds |
| `udp` | Do table, list and counter agree; does each packet carry its own data although a job reads it late; are packets dropped only when there is no room; do packets and replies go where they belong, unless their own port is used for two things at once; is a queued packet always being sent? | holds |
| `udp_mixed` | "any packet arriving at out netif address to port 53 is considered a DNS packet" (tun2socks.c:1462): DNS goes to the DNS gateway and everything else to the SOCKS server | violated by a port used for both: the datagram finds the connection of the other kind (SocksUdpGwClient.c:166) and leaves through a socket that points elsewhere |
| `connection` | Do the checks of `ShadowsocksConnection` hold, and does the user interface show the service's state once everything has arrived? | holds, outside three races |
| `parts` | The six small components: `HandoverRight`, `NetworkRight`, `TrafficRight`, `ListenerRight`, `SocksRight`, `AclRight` (each the conjunction of the component's invariants), and that none waits for ever (`EverythingEnds`) | holds |

**Claims of the code that the models refute.** Each has a definition, and a
configuration for the module named that makes TLC produce the counterexample.

| Claim | Where it is made | Counterexample |
|---|---|---|
| `CloseTerminates` (`pool_hang.cfg`, `GuardedProcessPool`) | "clean-up cannot be cancelled" (GuardedProcessPool.kt:90): a closed pool ends | prompt cancellation of `receive()`, or the 1000 ms, drops a code that was delivered, and the last `receive()` waits for another (line 94) |
| `WithinMtu` (`udp_mtu.cfg`, `MCSocksUdpGwClient`) | `ASSERT(len <= o->d_mtu)` (BufferWriter.c:98), compiled out | the buffer is made for `udp_mtu` bytes (SocksUdpGwClient.c:299) and a header is written in front of a payload of up to that length |
| `DeviceIsTunnel` (`handover_garbage.cfg`, `FdHandover`) | "wait for the file descriptor sent from JVM" (tun2socks.c:535) | nobody connects, and `wait_for_fd` returns the uninitialised `fd` of line 400 |
| `DetachIsReported` (`connection_detach.cfg`, `ServiceConnection`) | "this method will be called even when you call `detachService`" (ShadowsocksConnection.kt:52) | `disconnect` calls nothing back |
| `AcceptedAreClosed` for the concurrent listener (`listener_streams.cfg`, `LocalSocketListener`) | "they will be closed automatically" (LocalSocketListener.kt:50) | a coroutine launched on, or cancelled before it begins by, a cancelled scope never closes its socket |
| `NoDataLoss` (`traffic_persist.cfg`, `TrafficMonitor`) | "Data loss occurred" (TrafficMonitor.kt:94) | `persisted` is the object `current` itself: the check cannot fail, and the totals are added at ACTION_SHUTDOWN and again at shutdown |
| `OwnUsername` (`socks_username.cfg`, `BSocksClient`) | "add source address to username if requested" (tun2socks.c:1668) | a second connection overwrites the shared record before the first has sent it; the app does not use the option |

Two more behaviours are in the models and contradict nothing the repository says: a
DNS reply is attributed to the server its port asked last
(SocksUdpGwClient.c:150), and a failed `sendmsg` leaves its connection silent
until it is evicted (BDatagram_unix.c:336). `onDestroy` of an old activity after
`onCreate` of a new one disconnects the new one's connection (MainActivity.kt:114).

The orphan of `pool_orphan` lives until the next connect, whose job begins with
`Executable.killAll()`. The hang of `pool_hang.cfg` keeps the service in state
Stopping, in which every further command is ignored, until the process is killed:
that is `HangIsForever`, which the run `service` checks and `HangsForever` proves.

**Bounds.** `pool`: two helpers, one with a restart callback and one without, as in
the program; their number of restarts is not bounded. `service`: three profiles
(plain, with custom rules, invalid), two job and two stop identities, so that
overlapping jobs or stops would be seen if they existed (the proofs show that at
most one of each is active without a revocation); `MaxTries` is the code's 5.
`service_revoke`: one revocation, so at most two stop coroutines at a time (the
revocation's and the main thread's), one profile and `MaxTries` 0, which keeps
both outcomes of an attempt. A start command of somebody else may arrive at any
time. `PostFatal` keeps at most one undelivered report per helper. The permission
is always there in `service` (a denied start is not served, so a reload would not
have to connect) and comes and goes in `service_revoke`.

`client`: one connection (connections share only `num_clients`), a window and
receive buffer of three bytes and a send buffer of two, so that a `tcp_write` takes
none, a part or all, and an acknowledgement a part or all. `packet_buffer`: blocks of
two bytes, packets of zero to three and room for two, so that packets take one, two
or three blocks and the ring wraps before, at and after its end. `udp`: three local
addresses for two connections with buffers of two; one port sends to two resolvers and
to two other servers, the other two ports compete with it for the connections. A
connection is used for at most two different flows (`FewUses`), which makes every kind
of shared port: both kinds, two resolvers, two servers. The names of resolvers, servers
and competing ports are symmetric. `connection`: two
lives of the service, two binds, two state changes, two activities at a time. `parts`:
`sendFd` with the code's number of attempts and two lives of tun2socks; two services,
two networks, one request and four changes; two bandwidth listeners and three
reports; three connections to a listener; one SOCKS client with both methods and
addresses of both lengths; three rule files (the user's and two that import each other
or themselves) in every combination of mode, heading and import, and depth two, so
that the depth cuts some chains of imports and not others. Initially `part` picks the
component, so the state space is the sum of the six.

Deadlock is not checked where the system may stop: a closed pool, and a service
whose `data.proxy!!` threw; tun2socks when it quits; and the runs with a bound on
what the environment does (`connection`, `parts`).

**Fairness.** `GuardedProcessPool`: what is posted to the main looper runs,
threads run, timers fire, a process sent SIGKILL dies; the restart callback ends
because `sendFd` is bounded. Nobody is obliged to start or close, and a process
may ignore SIGTERM. `VpnService`: jobs and stops that were posted run, shutdowns
end unless the pool lost an exit code (`CloseTerminatesUnlessLost`; nothing is assumed
of `ExitCodeLost`, which the liveness properties except by `JoinHangs`), posted
`onFatal`s run, a
binder thread is not suspended for ever, the system delivers requested starts.
`StopDone` has strong fairness because its resumption keeps its place in the
queue although later `onFatal`s disable it for a while in the model. Nothing is
assumed of the download in `flatten`, and the liveness properties except it.
`Tun2SocksClient`: the event loop does not stop inside a segment; when one side of a
connection is closed, what is outstanding on the other makes progress or fails
(lwIP's and the kernel's retransmissions end that way), with strong fairness
because other segments come in between. `FdHandover`: both processes are scheduled;
nothing need fail or be killed, and an accepted connection is written to or reset.
`DefaultNetworkListener`: the actor runs in whoever sends to it. `TrafficMonitor`: the
looper's delays end, the main thread runs its tasks, writes become visible.
`LocalSocketListener`: threads and coroutines are scheduled, and a peer that is
connected speaks or closes (the peers are the helpers, which `killProcesses` ends).
`BSocksClient`: the reactor handles what is ready and the server answers.

## 4. Proofs

Proved with TLAPS for every value of the constants:

* `GuardedProcessPoolProofs`: `Typing`; `PoolInvariant`, the inductive invariant
  `Inv`, which says for each guard what its position implies of its process, its
  `running` flag and the cancellation. `DeathIsReported` and `FirstProcessKilled`
  are not inductive: that a guard with `running` set ends only with a collected
  process needs that a looper in "drained" holds a reaped process, and that one
  in "waiting" or "callback" does not exist in a cancelled pool. From it `Reported`,
  `Killed`, `NothingStartsAfterClose`, and `LostIsForever`: a dropped exit code
  is never made good.
* `VpnServiceProofs`: `Typing`, with revocations; and for `MaxRevokes = 0`
  `ServiceInvariant`. `Inv` is the conjunction of `StopInv` (at most one stop
  coroutine, exactly in state Stopping, with a valid proxy while it joins or
  reloads), `JobInv` (a busy job is `data.connectingJob`; it runs in state
  Connecting with known resources, or is cancelled and joined by a stop),
  `StateInv` (what each state holds) and `FatalInv` (a posted `onFatal` belongs to
  the open pool or to the stop in progress). `CleanUpInv` is the central lemma:
  every path through `stopRunner` ends in it. From the invariant follow
  `StoppedClean`, `ConnectedWhole`, `ConnectingStopsFirst`, `NeverCrashes`,
  `NeverResurrected`, `UnrevokedReload` and `HangsForever`: the stop whose pool lost a
  code is the only one, its state is Stopping, and every event leaves both as they are.
* `Tun2SocksClientProofs`: `Invariance`, for any finite set of clients and any sizes,
  and from it `CallbacksAreLive`, `NoUseAfterFree`, `ErrAbrtIffAborted`,
  `WindowIsRoom`, `PendingIsQueued`, `NothingStuck` and the action property
  `FlushBeforeClose` (each as the theorem of that name with `Holds`). No one of them
  is inductive: a callback may run any handler of the client, which may abort the pcb
  that `tcp_input` is about to go on with. `Inv` says of every client what holds
  whatever `tcp_input` is doing (`Sound`: its callbacks and pcb match its flags, it has
  something to wait for), how its counters relate to the part of the segment still in
  flight (`Room`, `Acked`), and what `tcp_input` may rely on (`Held`). Each operation
  of `tun2socks.c` has one lemma; those that run as a job show `Follows`, which is all
  that a step has to know of them.
* `SocksUdpGwClientProofs`: `Invariance`, for any number of addresses, flows,
  connections and buffered packets, and from it `TableConsistent`, `CarriesItsFlow`,
  `DropsOnlyWhenFull` and `SendingUnderWay`. All of them rest on the order of jobs. The
  invariant says that `BPendingGroup`'s stack always has one of ten shapes, all for one
  connection, possibly above the job that refills the read buffer (`Stack`); what each
  shape promises of its connection (`Promise`: with `connection_first_job_handler`
  pending the packet is still in the read buffer and the writer is about to have, or
  has, its buffer); and that every other connection is at rest (`AtRest`: the writer
  has a buffer exactly if there is room, and what is queued is being sent).
  `OnlySharedPortsConfused` is proved for all flows, without a hypothesis on how ports
  mix them: for a connection used for one kind (`OneKind`) and one resolver
  (`OneResolver`) so far, `is_dns` and the remote address are those of its flows and the
  socket points where they go. That the unrestricted claim is false is `udp_mixed`.
* `PacketBufferProofs`: `Invariance`, for every block size, MTU and number of packets,
  and from it `AssertBuffer` and `PointersStayValid`. Neither is inductive:
  `ConsumePacket` reads the length of the first packet out of the ring. The invariant
  adds `Chain`: a set of header offsets from `start`, each the end of the packet
  before it, none across `wrap`, that ends where the ring's contents do.
  `RingIsFifo` is the refinement, `Spec => IsFifo`: every step of the ring is a step of
  `PacketFifo` or leaves its variables alone. The mapping reads the queue along the
  headers (`Follow`), so what a submitted or consumed packet does to it is shown by
  induction: reading on from a header gives one packet and then what is read from the
  next (`FollowLemma`), blocks that no header covers do not matter, and a packet added
  at the end is read last. `FifoInv` adds to the invariant that the ring wraps only
  where no packet of `Mtu` bytes has room (`Snug`) and that every header stands where
  one has (`Threaded`); from these `FullLemma` counts that a ring without room holds
  the number of packets `ChunkBuffer2_calc_blocks` was asked for, which is the promise
  that the input is served until then.
* `BSocksClientProofs`: `NothingLeaks` (`FreedIsFree`) from `OwnedInv`, which ties the
  connection to the states in which `BSocksClient_Free` frees one and the kind of I/O to
  the state; `BufferNeverExceeded` (`WithinBuffer`) from `FitsInv`, which adds in which
  states something is sent or received and that the buffer reserved for the reply's
  header has room for the longest address: without it the second part of the reply,
  received at an offset, would not be known to fit; `HandsOverAtData` (`UpAtData`),
  whatever the server answers and in whatever parts, from `TalkInv`, which says for
  each state what both sides have said, how many bytes the server sent and how many of
  them were received, also while an answer has come only in part or data came with it.
* `ServiceConnectionProofs`: `ChecksHoldAlways` (`ChecksHold`) from `BindingInv`, and
  `FreshViewAlways` (`FreshView`) from `FreshInv`. The first ties callback, binding and
  registration to each other and says that the system has at most one notice posted,
  of the binding of now. For the second, what the user sees is not enough: the
  invariant follows the last broadcast through the calls under way, the posted ones,
  `getState` and the view (`Latest`), says that a connection whose process has died is
  going to hear of it (`Doomed`), that a younger binding has nothing registered yet
  (`Past`, `Alive`), and leaves out only what the named races spoil (`tainted`).
* `PartsProofs`: the invariants of the run `parts`, for every value of its constants;
  `PartsInv` is the invariant of the part that runs. `DescriptorsArrive`
  (`HandoverRight`): a connection of `sendFd` is open or written to exactly while it is
  in the backlog or accepted, once, by the process it was made to, and a descriptor
  received came over a connection that is now closed (`Connections`); and what the place
  of tun2socks in `wait_for_fd` says of its socket, its descriptor and `missed`
  (`Process`).
  `ServicesFollowTheNetwork` (`NetworkRight`): `UnderlyingIsDefault` speaks of an empty
  mail only, so the invariant says that the mail leads from the actor's network to the
  default one (`Leads`): by its last `Put`, which no later `Lost` takes back, or without
  one by what the actor has; that a `Get` comes behind a `Start` (`Asking`); and that no
  key in use is ever stopped (`Keys`). `OnlyTheRaceLoses` (`TrafficRight`): between two
  updates every listener was told `stats` (`Told`), and a report whose `dirty` is gone
  was copied whole, unless `lost` (`Copied`). `ShutdownLeavesNothing`
  (`ListenerRight`), for both listeners: an accepted connection is the current one until
  it is handed over, and the thread ends only with its socket shut and its backlog empty
  (`HeldInv`). `HandshakesAreRight` (`SocksRight`): the lemmas of `BSocksClientProofs`
  on the instance of `MCParts`, with the types of `BSocksClient`.
  `RulesAreRight` (`AclRight`), for files of any contents and length and any depth:
  after each line the parser's list is the heading the next line is under, and each of
  its sets has the entries under that heading so far (`ReadSo`, by induction on the
  lines); a child with depth d left has the host names of the files reached from it in
  as many imports and, of their subnets, only those of files that end in its mode
  (`Gathers`, by induction on d, with `WithinSplit`, which takes `Reached` apart at its
  first import as `flatten` does, and not at its last); the lines `toString` writes
  have a shape (`Shape`) from which the general result on the parser gives that they
  are read back as they were. `AclInv` only says which of these the job has computed.

Assumptions on constants: `Callbacks` is a subset of `Cmds`; `Invalid` and
`Custom` are subsets of `Profiles`, `NoProfile` and `NoJob` are outside their
sets, the bounds are natural numbers. `BufferNeverExceeded` assumes that `Methods` is
finite and `DestLen` a natural number, `MCParts` that a destination has 6 or 18 bytes,
that hello fits the longest message, that no network, service or key has the name
that stands for none, and that rule files are sequences of lines in which host names,
subnets (finitely many of each) and words with a meaning are told apart. The sizes of windows, buffers, blocks and MTUs are positive, `Clients` is
finite (`num_clients` counts them) and every flow has a local address of `Locals`, a
Boolean `dns` and at most `UdpMtu` bytes. The invariant of `VpnService` is false with
revocations, as `reload_stopped` shows; that case is only model-checked.

Induction. The induction theorems of the library take a predicate as a parameter,
which the provers cannot instantiate; `WFMin`, which says that a set has a minimal
element, does not. From it `Least` shows that every set of numbers has a least element,
and `Induction` that a set with 0 and the successors has every number up to a bound:
the predicate is a set. A recursive function is the solution that `CHOOSE` picks of its
equation, so each one used in a proof comes with a lemma that there is a solution, by
induction again (`FollowLemma`, `ReadingLemma`, `WithinLemma`, `ChildLemma`).

Only model-checked: all liveness properties (the prover does not handle
fairness), and everything about revocations except typing.

## 5. Not modelled, and the plan

Not modelled: Compose screens, themes and plugin activities (no protocol state);
JSON, DNS and packet contents; Android package queries; option parsing and IP
header checks of tun2socks (sequential, no state of their own); lwIP beyond the
contract of its callbacks (retransmission, reassembly, timers); libevent, redsocks
and ss-local, third-party programs that appear as processes or peers; badvpn's
NCD, lime and the VPN peer, which are not part of the program; the udpgw client,
which the Android build leaves out; `Commandline` (log messages and plugin options),
`KeyValuePair` (a byte encoding of single values) and the parts of `Subnet` that
nobody calls; `AclSyncer`, whose retries are WorkManager's. `PROJECT.json` lists each component.

Plan, in order:

1. Theorems: the invariant of `VpnService` with revocations, as far as it holds there.
2. An abstract pool ("a set of helpers, open, closing, closed") that
   `GuardedProcessPool` implements, and the composition with `VpnService`.
