# TLA+ models of WEBADBControl

This directory is the verification development of WEBADBControl: TLA+ modules
translated from the source, TLC configurations that check them on small instances,
and theorems that TLAPS proves for every value of the constants. `PROJECT.json` maps
every definition to the source lines it stands for, lists the runs with the
properties they check, a plausible bug (mutant) for each property that the property
catches, the hazards of the code, and the disagreements found between the code and
what its own comments, tests and documents say.

Check a module with `tlc -config X.cfg MCModule`, its proofs with `tlapm XProofs.tla`.

## 1. Inventory

```
 Browser (Vue) ── HTTP / WebSocket ──> Go web service ── JSON lines on stdio ──> Rust Core
                                          │  automation, hardware monitor,          │ adb processes
                                          │  catalogue, sessions, file transfers    │ keepalive thread
                                          └── second Core process for transfers     │ remote accounts (QUIC)
                                                                                    └ companion transport (QUIC)
                                                                                          │
                                                                                   Android companion
```

| Component | State | Operations | What makes it correct | Hard part |
|---|---|---|---|---|
| Companion link, Core side (`core/.../companion/{quinn_transport,session,ingress,registry}.rs`) | connection tasks, session manager, registry, session handles, pending waiters | accept envelope (hello, lists, heartbeat, stream, response), teardown, send command | commands go only to live connections, live devices are listed, answers reach their caller, nothing leaks | a device reconnects before its old connection is torn down; OS threads send commands while the runtime tears down; timeouts race answers |
| Command path (`protocol.rs`, `router.rs`) | none of its own | `device.invoke` | a command is checked against what the device announced | the registry is read long before the handle is used |
| Automation runtime (`server/internal/automation`) | task rows, run rows, control map, goroutines | save, delete, run, pause, resume, stop, recover | one run per `skip` task, each run controllable, rows follow runs, stopped runs end, no active row after a restart | critical sections and database writes interleave; saves fail; crashes |
| Hardware monitor (`server/internal/device/hardware_monitor.go`) | task map, goroutines, state file | start, stop, persist, restore | one loop per device, stop ends it, the file is whole and current, restart restores | unguarded persist; restore rewrites what it reads |
| Core IPC (`coreipc`, `ipc/stdio.rs`) | one pipe, one request at a time | round trip | responses match requests | slow requests hold everyone |
| Web sessions (`server/internal/auth`) | browser session map, lock-out counter | login, logout, change password, bootstrap | a password change ends old sessions | login racing the change |
| Remote accounts (`core/.../remote`) | users, sessions, assignments, account file, one request per thread | login, administration from the console and from the network, forwarding with authorisation, device list | a session belongs to an account with the password it proved; only assigned phones are reached; memory and file agree | the two threads interleave between authentication and action; write failures; a crash in a truncated file; wireless ids that change |
| ADB keepalive (`keepalive.rs`) | configuration, control channel, thread | configure, check, wait | the newest configuration wins, whole; an enabled one checks | status and channel are written apart |
| Wireless pairing (`wireless.rs`) | pending QR sessions | create, pair, cancel, expire | a code is used once | a pairing runs adb between look-up and confirmation |
| ADB runner and scrcpy (`adb.rs`, `scrcpy.go`) | children by session, sockets | start, stop, drop | no server runs that nobody can stop | spawned before the map is locked; kill fails; Core ends |
| Device directory (`catalog.go`, `service.go`) | catalogue file, assignments, caches, single-flight locks | list and merge, remark, remove, connect, screenshot | one entry per phone across transports, remarks survive | identity by hardware id, stale caches |
| Companion bootstrap and fallback (`companion_*.go`) | cool-down times, per-device locks | provision, invoke, upgrade, reinstall | a command runs once; a failed upgrade leaves a companion | retry after a delivered command |
| File transfers (`file_transfer_handlers.go`) | jobs, files | start, status, download, cancel | no file without a job | cancel during the copy |
| Trust, media store (`trust.rs`, `media_store.rs`) | pairing codes, trust file | begin, confirm, revoke | only confirmed devices are trusted | not wired to the live transport |
| Observability, settings, AI, configuration | event rows, settings file | record, query, save | stateless apart from one lock | - |
| Android companion, QUIC client (`QuicCompanionService.kt`, `JniNativeQuicEngine.kt`, `adbcontrol-quic-android`) | pending and saved configuration, retries, transport, receive loops, native handle | configure, connect, receive, lose, retry, close, destroy | a lost connection is noticed and tried again; no call on a freed handle | four threads and a handler share fields without one lock |
| Android companion, features | accessibility, projection, files | execute commands | - | Android framework |
| Web frontend | caches | poll, render | - | - |
| `core/third_party` | - | vendored scrcpy server | - | - |

`PROJECT.json` lists the hazards of each of these at their lines.

## 2. Modules

| Module | Models | Proofs |
|---|---|---|
| `CommandPromise` | abstract: what `device.invoke` promises its callers | - |
| `CompanionLink` | the companion transport with `device.invoke`; implements `CommandPromise` | `CompanionLinkProofs` |
| `AutomationRuns` | the automation runtime | `AutomationRunsProofs` |
| `HardwareMonitor` | the background monitor and its file | `HardwareMonitorProofs` |
| `RemoteDirectory` | the identity of a phone across its wireless ids, the remote device list; operators only | `RemoteDirectoryProofs` |
| `AccountPromise` | abstract: what the account store promises | - |
| `RemoteAccounts` | the account store, its file and the requests of both threads; extends `RemoteDirectory`, implements `AccountPromise` | `RemoteAccountsProofs` |
| `CoreCalls` | the two threads that call Core's services, one request each | `CoreHostProofs` |
| `KeepAlive`, `WirelessPairing`, `ScrcpyServers` | the three services, each on `CoreCalls` | `CoreHostProofs` |
| `CoreHost` | the composition of the three as `main.rs` makes it, with the ends of the process | `CoreHostProofs` |
| `NativeClient` | a native QUIC client, its handle and the lock of the JNI engine | `CompanionClientProofs` |
| `CompanionClient` | the Android service with its threads, on top of `NativeClient` | `CompanionClientProofs` |

### CompanionLink, CommandPromise

All connection handlers are tasks of one single-threaded tokio runtime
(`new_current_thread`), and neither `accept_envelope` nor `disconnect` nor
`disconnect_connection` contains an await. Each of them is therefore one action
(`Hello`, `CapabilityList`, `PermissionState`, `Heartbeat`, `OtherEnvelope`,
`Response`; `StreamClosed`, `Teardown`, `Drained`). Callers of `device.invoke` are
other OS threads; every lock they take is an action (`Check` reads the registry,
`Route` clones the handle, `Insert` registers the waiter, `Send`, `Receive`,
`Expire`, `GiveUp`). Such a thread may run between the locks that one envelope takes in
turn (manager, registry, session handles), but it reads the registry and the handles in
two steps of its own, so what it finds is what it finds with the envelope between, before
or after its two steps. A connection's peer may claim any device id of `Claims`, send
any message in any state, fail at any time, and answer any request it received, late
or never; a peer of `Strays` also sends responses nobody asked for under any request id,
such as an answer repeated or given over another connection, at any time. `Blank` is the
id of a peer that sends a blank one, which the code accepts like any other. `writer` is the
task that drains the outgoing channel: it ends with a write error or when no sender is
left, and sending fails after that.

| Variable | Code |
|---|---|
| `conn`, `lastDevice`, `writer` | progress and locals of `handle_control_stream` |
| `manager` | `CompanionSessionManager.sessions` |
| `registry` | `CompanionRegistry.devices` |
| `sessions`, `pending` | `LiveState.sessions`, `LiveState.pending` |
| `calls` | locals of `handle_device_invoke` / `send_command_envelope` |
| `inbox` | requests the phone has and has not answered |
| `heard` | history: the non-empty lists each device announced since its hello, and the last message |

Data abstracted: capability and permission lists are "empty" or "non-empty", frames
have no content, time-outs may fire at any moment (there is no clock).

`CommandPromise` knows neither connections nor sessions nor locks. A call is `new`, `open`,
`sent`, and then `answered`, `refused` or `unknown`; `asked` are the commands that are with
the phone and `got` is whose answer each caller has. A command is delivered once, a refused
call was never sent, and an answer goes to one caller that still waits under the same
request id. A phone may also send what it was not asked for (`Disturb`), which the call that
waits under that id is given instead: request ids are all the code compares. `Outcome` maps
the phases of a call to these states (`timeout` to `unknown`, `checked`, `routed` and
`inserted` to `open`), `inbox` is `asked`, and `KeepsPromise` is the refinement.

### AutomationRuns

Every critical section of `Service.mu` and `runControl.mu` and every database call is
an action, so that a status change and its save are separate and snapshots may be
stored in any order. `pc` is the program counter of `Service.Run` and then of
`execute`; `ctl` that of a control request. `Outcomes` says whether a save may fail.
`permitted` is history: the requests under way whose task was saved as `allow` after they
read it, or was so when they did. A crash loses memory and keeps `policy` and `db`;
`Recover` is `RecoverInterrupted` with its limit on rows (`RecoverLimit`; 200 in the code).
An action of a task is its outcome.

### HardwareMonitor

`Start` and the two halves of `Stop` are actions, as are each snapshot `persist`
takes, the opening, writing and renaming of its temporary file, and the recording of
its result. Two requests may persist at the same time: the model keeps what each file
name holds and to which name each open descriptor refers, so a rename can publish a
file another request is writing. A crash keeps the two files; `ReadFile` and the
`Boot` process restore recordings the way `EnablePersistence` does, through `Start`.
`overlapped` and `recorded` are history variables that only properties read.

### RemoteAccounts, RemoteDirectory, AccountPromise

The stdio thread (`"local"`) serves the administrator and the QUIC thread
(`"remote"`) serves remote users: `RemoteControlService` runs on a current-thread
runtime without an await inside a request. Each takes one request at a time, so `req`
holds the request of each thread and `phase` how far it has come. `Authenticate`
copies the account into the request as `AuthenticatedSession` does; what acts on it
later (`Forward`, `CreateUser`, ...) uses the copy where the code does and the store
where the code looks again. The store's mutex is held for a whole operation, the write
included: `Update` changes memory and truncates the file, `WriteFile` ends the write,
and `lock` is held in between.

| Variable | Code |
|---|---|
| `users`, `sessions` | `State.database.users`, `State.sessions` |
| `lock` | the guard of `RemoteAccountManager.state` while the file is written |
| `file` | `accounts.json`: `Missing`, `Torn` or a database |
| `req`, `cards` | locals of `handle_request`, the device list about to be answered |
| `opened`, `touched` | history: the hash a login verified; the account of a device request changed under it |
| `settled`, `unsettled` | history: the accounts acknowledged last; those of changes begun since, none of which was |

`RemoteDirectory` holds the pure part of `service.rs`: two ids name the same phone when
they are equal or announce the same mDNS service; `Resolved` redirects a request to the
id adb lists now, and `reconcile_remote_device_list` builds one card per phone in a loop
over the assigned ids, here a recursive function of the number of passes. Ids are model
values with a service each, in a fixed order; adb's text is the sequence of ids it
lists. A password is its salted hash: a new hash is one nobody has. Devices assigned to
the administrator are never looked at and are left out.

### CoreCalls, KeepAlive, WirelessPairing, ScrcpyServers, CoreHost

`CoreService::handle_request` runs on the stdio thread and on the thread of remote
control at once. `call[c]` is the request of each (operation, argument, place, and the
value it has in hand). Every lock a handler takes, every message to the keep-alive
thread and every adb process it waits for is an action: `Merge` reads the status,
`Apply` writes it, `SendConfig` sends it; `LookUp`, `Discover`, `Pair` and `Confirm` are
the steps of a pairing; `Spawn`, `Insert` and `Reap` those of a start. `loop` is where
the keep-alive thread is and `channel` its receiver. `guard` is the holder of the
child map's mutex, which a start keeps while it waits for the process it replaces.

| Variable | Code |
|---|---|
| `config`, `channel`, `loop` | `AdbKeepAliveStatus`, the `mpsc` channel, the thread |
| `pending`, `made` | `WirelessPairingManager.pending`, the ids given out |
| `children`, `guard` | `AdbProcessManager.scrcpy` and its mutex |
| `proc`, `owner` | the server processes and the session each was spawned for |
| `core`, `remote` | whether Core runs, and whether remote control shares the service |
| `sent`, `over`, `expired`, `stray` | history: the last configuration sent; the sessions that are over; the processes whose kill failed |

`EndOfInput` drops the service, and the children with it, unless remote control shares
it. The drop kills and waits for one child after the other (`DropKill`, `DropEnds`, with
`core` at `"dropping"`); a child whose kill failed is waited for until it ends by itself.
`Abort` is the exit that drops nothing, or the kill, which may fall into the drop.

### NativeClient, CompanionClient

Main thread, connection executor, receive executor and screen encoder are four threads;
`at` says where each is, `held` which transport it has read. Fields that the code reads
without a lock are read in one action and used in a later one. `Post` and `Retry` are the
main thread's queue (`reconnectHandler.post`, `postDelayed`). `NativeClient` has the
native handle, the control stream's state and the engine's read-write lock: calls hold
the read lock inside the native code, a close waits for the write lock, and readers that
come later wait behind it.

| Variable | Code |
|---|---|
| `handle`, `up`, `inbox` | the raw pointer, the reader and the writer task of the control stream that still run, `incoming_control` |
| `calling`, `closing` | holders of the read lock, waiters for the write lock of `lifecycleLock` |
| `pending`, `saved`, `busy` | `pendingConnectionConfig`, the preferences, `connectionInProgress` |
| `transport`, `active` | `transport`, `CompanionQuicRuntime.activeTransport` |
| `current` | the transport whose loop carries `connectionGeneration` |
| `attempts`, `timer`, `callback` | `reconnectAttempts`, delayed retries, `reconnectRunnable` |
| `retry` | the locals of `scheduleReconnect`, between its read of `reconnectAttempts` and its write (`Delay`) |
| `posts`, `loops`, `jobs` | posts to the main thread, queued receive loops, queued connection jobs |
| `life`, `starts`, `ending` | how the service ended; `onStartCommand` and `onDestroy` so far; `onDestroy` is closing |

Abstracted: the generation counter is replaced by the transport that carries it; a
closed engine nobody remembers stands for a new one; `detach` compares and clears in one
step; `reconnectAttempts` is a plain field that the connector resets (`ResetAttempts`)
while the main thread may be adding to it (`Schedule`, `Delay`); the three messages a new
connection sends are one call; the fingerprint call and the contents of video streams are left out, the encoder is a thread that makes native
calls. `onDestroy` only comes from the system.

## 3. Runs

| Run | Bounds | Shows |
|---|---|---|
| `link_presence` | 2 devices and the blank id, 2 connections of which one claims any id, lists both empty and non-empty (0.8 million states) | `HandlesAreLive`, `LiveDeviceListed`, `RegistryIsCurrent`, `OtherSessionsKept`, `ReadyTakesTwoMessages` hold |
| `link_commands` | 1 device and a stranger, 2 connections whose peers also answer unasked, 2 calls under one request id (0.3 million states) | `PendingHasWaiter`, `NoAnswerLost`; the refinement `KeepsPromise`; under fairness `CallsSettle` |
| `link_stale_online` | 2 devices, 2 connections of honest peers | finding: `NoStaleOnline` fails |
| `automation_runs` | 1 task, 2 runs, 2 control requests, 1 action, failing saves, 1 crash (2.2 million states) | `AliveIsControllable`, `SuccessIsComplete`, `LostRunsAreFinal`, `SkipStartsAlone` hold |
| `automation_stop` | 1 run of 2 actions, 2 control requests, failing saves, 1 crash | under fairness `StopEndsRun` |
| `automation_rows` | 2 runs, 2 control requests, saves succeed | finding: `RowsFollowRuns` fails |
| `monitor_tasks` | 2 devices, 2 clients, 3 tasks, 1 crash | `RunningIsListed`, `RunningIsSampled`, `FileIsWhole` hold |
| `monitor_stop` | 1 device, 2 clients, 2 tasks, failing files, 1 crash | `FileIsCurrent`; under fairness `StopEndsLoop` |
| `remote_accounts` | administrator and 1 remote user, 2 tokens, 3 hashes, 1 id, both threads, 2 crashes or storage errors (4.5 million states) | `SessionsMatchAccounts`, `FileKeepsUp`, `OnlyOwnersAndAdminChange`; the refinement `KeepsPromise` |
| `remote_devices` | a phone with 2 wireless ids and one on a cable, adb lists that change, no faults (0.8 million states) | `CommandsAreAssigned`, `CardsAreTheAssignedPhones` |
| `core_host` | 3 requests on 2 threads, intervals below, at and above the minimum, 2 QR sessions, 1 screen session, 3 processes, 1 failing kill (0.3 million states) | `ConfigSettles`, `ServersAreOwned`, `QrStaysOver`, `StoppedMeansGone`; under fairness `EnabledIsChecked`, `CallsEnd` |
| `companion_client` | 4 threads, 2 transports of which one can lose a single direction, 1 configuration, 2 delayed retries, 2 of start and destroy, 2 attempts, 1 message (1.3 million states) | `NativeCallsAreSafe`, `ConnectionIsWatched`; under fairness `ConnectionIsRestored` |

Each `MC` module only adds model values, a symmetry set (automation, monitor,
accounts) or the ids and claims of peers (link) and the lists adb may answer (devices).
`CHECK_DEADLOCK FALSE` is set where requests, tasks, connections or crashes are bounded,
so that a behaviour ends when all have been used; the program itself would accept more.
The two runs of `RemoteAccounts` check deadlock: Core answers, restarts or refuses to
start. Symmetry is used in safety runs only, or over tokens and hashes that the abstract
promise does not tell apart.

### Why the bounds are enough

- `CompanionLink`: the hazards need one device under two connections (old and new) and
  one connection that names two devices. `link_presence` has two connections: the peer of
  the second claims any id, so that it is the device's reconnection, another device, or
  one peer under several ids, blanks included. Two calls are the smallest number in which
  one call's answer, timeout or send failure can be taken for the other's, and in
  `link_commands` they carry the same request id, so that one replaces the other's waiter
  while they wait. There the device has one connection and the second is a stranger's,
  which answers without having been asked: a reconnection as well would not finish with
  the liveness property; it is checked in `link_presence`, and the theorems hold for
  every choice of ids, claims and strays.
- `AutomationRuns`: two runs of one task are what the `skip` policy compares; tasks
  do not share state, so a second task adds nothing. Two control requests give every
  race of pause, resume and stop with the goroutine and with each other. One action
  has a state before, during and after it; `automation_stop` has two, so that a stop
  falls between actions as well. `RecoverLimit` is as large as the number of
  runs: with more runs than the limit older active rows stay active (listed as a
  hazard), and `LostRunsAreFinal` says so in its premise.
- `HardwareMonitor`: two clients are the smallest number that overlaps in `persist`;
  three tasks on two devices allow a stopped task, its successor and another device's
  recording. One crash covers a boot with a written file.
- `RemoteAccounts`: two threads are all there are. One remote account beside the
  administrator is created, deleted and created again under the same name; two tokens
  are an old session and a new one; three hashes are the initial one, the present one
  and one more. Two ids with one service, and one without, are the smallest set in
  which a request is redirected or a card chosen; they are in `remote_devices`, which
  also has the logouts, while `remote_accounts` has one phone. Two faults of failing
  writes, cut writes and crashes are a failed change followed by a crash, and a crash
  followed by one in the next change, with the starts between them.
- `CoreHost`: the hazards are between two requests of one service, three allow a
  configuration, start or pairing to fall between the two. Three processes are one
  running, its replacement and a third. One failing kill is enough for a start, a stop or
  the drop to meet it.
- `CompanionClient`: two transports are the one being closed and the one being made; the
  service is started twice, or started and destroyed, retries come on top;
  two retries are one that `cancelReconnect` knows and one it has lost. `MaxAttempts` is
  60 in the code; with 2 a retry that fires leaves another, so that a retry which came to
  nothing would show, the end of the retries is reached, and the reset after a success can
  fall between the reading and the writing of the count. `Halves` limits to one transport
  the loss of a single direction.

### Fairness

- `CallsSettle` assumes weak fairness of the steps of a caller that has begun: the OS
  schedules its thread, `recv_timeout` returns after its timeout, and the mutexes are
  held for a bounded time. Nothing is assumed of the connections' tasks, of the peer or
  of the network: no message has to arrive and no answer has to come.
- `StopEndsRun` assumes weak fairness of the steps of a run's goroutine once its
  request began, and of a control request that has been performed in part. Database
  calls and actions end, the latter because delays select on the context and Core
  calls are bounded by the command. No client has to send a resume.
- `StopEndsLoop` assumes weak fairness of `Collected` and `Wake`: a sample ends since
  its ADB commands have timeouts, and the timer or the context wakes the loop.
- `CallsEnd` and `EnabledIsChecked` assume weak fairness of each thread's next step and
  of the keep-alive thread's: their adb commands end (the code gives them no time-out: a
  hung adb holds its caller, which is listed as a hazard), and a killed process exits.
  `CallsEnd` speaks of the drop as well, and excepts a failed kill, after which the wait of a
  start or of the drop has no bound. `EnabledIsChecked` excepts a configuration that reaches
  the keep-alive thread before its interval is over: `recv_timeout` begins again with each
  (`keepalive.rs:216`), so that requests which keep coming faster than the interval put the
  check off for ever. No fairness excludes that, and the property does not claim it.
- `ConnectionIsRestored` assumes weak fairness of the main thread, of the connection and
  receive executors and of the return of a frame's native call; polls return after their
  time-out. The main thread goes on while there is something to do, be it the handler it
  is in, a post or a retry: which comes next is not assumed. The network owes nothing: an
  attempt may fail every time.

## 4. What is proved

All theorems hold for every value of the constants that satisfies the module's named
assumption. TLC checks the same formula first, on the instances above.

**`CompanionLinkProofs`** (assumption `LinkAssumption`). The inductive invariant
`LinkInv` joins `TypeOK`, `HandlesAreLive`, `LiveDeviceListed`, `RegistryIsCurrent` and
`PendingHasWaiter` to `CallsFit`, which says what a caller's local variables hold at
each point of `device.invoke`: without it `Receive` and the timeout could touch an
entry that was never registered. The steps are first reduced to a few effects
(`MessageStep`: what any accepted message may do; `CloseStep`: what any teardown does;
`QuietStep`: the rest), for which the invariant is shown once. `OtherSessionsKept`
and `ReadyTakesTwoMessages` follow as action properties and `NoAnswerLost` as a second
invariant on top, all from `LinkInv`. `ReadyTakesTwoMessages` needs `HeardFits`: what the
manager has of a device whose session is open is what the device announced since its
hello. All of them hold when request ids repeat and peers answer unasked.

`LinkKeepsPromise` is the refinement of `CommandPromise`, for ids that repeat as well. Its
invariant `CommandInv` has three parts: the phone has at most one request of a call, one
that was sent and that nobody has the answer of (`InboxInv`); an answer belongs to a call
sent under the same id and is given once (`AnswersInv`); the waiter of a call that has its
id to itself stays until it is served or given up (`WaitersInv`), without which a
response could be dropped while its caller waits. Steps of a call, a response and all other
steps of connections are three cases: each step of the first is `Begin`, `Refuse`,
`Deliver` or `Return`, a response is `Reply`, and the others stutter.
`OnceAndOnlyWhenSent` is the promise as an invariant: a command the phone has, or that
somebody has the answer of, was sent and not refused.

**`AutomationRunsProofs`** (assumption `RunsAssumption`).

- `TypeInv` adds to the types that a control request under way names a run and that
  an action is performed only if one is left.
- `AliveIsControllable` is inductive on `TypeInv`. `SkipStartsAlone` speaks of the policy
  the task has had while the request was under way, not of the copy the request took: a
  request that is not in `permitted` has read `skip` (`PermitsFit`), so `Register`
  searched the map for it, which by `AliveIsControllable` has every executing run.
- `SuccessIsComplete` speaks of rows, which are written from snapshots, which are
  taken from runs. `SuccessInv` carries the fact through the chain: a run that
  succeeded, a goroutine about to say so and every snapshot that says so are complete.
- `LostRunsAreFinal` needs that nothing that can still be saved belongs to a lost run
  (`ListedAlive`, `ControlsAlive`), and that a set of rows as large as the limit is
  the set of all rows, by the cardinality theorems for finite sets.

**`HardwareMonitorProofs`** (assumption `MonitorAssumption`).

- `MonitorInv` joins `RunningIsListed` and `RunningIsSampled` to `EntriesFit`: an
  entry names a task created for its own device. A fresh task cannot be one that an
  entry names, since a named task's goroutine has begun.
- `FileInv` says that without an overlap at most one request persists, that it holds
  the temporary file open exactly while it writes, that the file it writes is not a
  whole text, and that what it renames is not torn. `FileIsWhole` follows, with crashes
  and failing file operations at any point.
- `CurrentInv` proves `FileIsCurrent`. It follows the list of recordings through every
  phase of `persist`: what a request has seen so far is what records, less what it has
  yet to look at, and once the file is written it is what records (`ShotFits`). Between
  requests the file is current unless the last write failed, with one exception that a
  boot passes through: the file has been read and nothing has been started yet
  (`QuietIsCurrent`). `DownIsEmpty` says that a service that is down remembers nothing, so
  that a restart begins from the file alone.

**`RemoteDirectoryProofs`** (`DirectoryAssumption`: `IdOrder` lists every id; the registries
are sequences of entries). `IdentityIsEquivalence` and `RedirectionKeepsDevice` hold for
every assignment of services and every list adb may answer. `ListHasOneCardEach` is about
the loop that builds the device list: the result has a card for every phone an assigned id
names, no two cards of one phone, and on each card what `CardOfPhone` says. The library's
induction theorems cannot be used, since they take an operator; induction is made with sets
instead, by the least number of passes after which the loop's invariant would fail
(`Least`, from `WFMin`).

**`RemoteAccountsProofs`** (assumptions `AccountsAssumption`, `FileAssumption` and those of
`RemoteDirectory`).

- `AccountsInv` joins `TypeOK` and `SessionsMatchAccounts` to `RequestsFit` (what a
  request holds fits its kind and the thread that works on it), `DownIsEmpty` (nothing
  survives the process in memory) and `WriterTears` (while the mutex is held for a write
  the file is cut). Every change of an account is first reduced to one effect
  (`ChangeChanges`), for which the invariant is shown once.
- `FileKeepsUp` is inductive on it: a change empties the file and joins `unsettled`, a write
  that ends settles it, one that fails leaves the file cut or the change in it, and a start
  brings back what the file has, or nothing. `OnlyOwnersAndAdminChange` follows as well. `CommandsAreAssigned` needs
  `CommandsInv`: what a request copied is what the account had unless the account was
  touched, and what was authorised names an assigned phone. It rests on
  `IdentityIsEquivalence` and `RedirectionKeepsDevice`.
- `CardsAlwaysAssigned` follows the list from `ListDevices` to its answer: the list at hand
  is the loop's result for the devices the request copied (`CardsInv`), and
  `ListHasOneCardEach` says the rest. That the copy is what the account has, unless the
  account was touched, is part of `CommandsInv`.
- `StoreKeepsPromise` is the refinement: under `account <- users`, `session <- sessions`,
  `kept <- file` (cut or missing mapped to `Lost` and `Nothing`) every step of the store is
  a step of `AccountPromise` or a stutter. The truncation loses what was kept and the
  end of the write keeps all of it.

**`CoreHostProofs`** (the assumptions of the three services). `HostInv` joins `TypeOK` to
`CallsFit` (what a request has in hand at each place), `ChannelInv` (the last
configuration sent is the last in the channel, or in force; a thread that waits for the
interval has an enabled one), `PairInv` (no session that is
over is pending), and for the processes `OwnedInv`, `BornInv` (a process not yet in the map
is in exactly one request's hands), `GuardInv` (who waits for a process holds the lock)
and `EndInv` (no request outlives Core, and the drop leaves no process running but one
that could not be killed). The step of one service leaves the invariants of the others alone, so each
is shown for its own actions and once for all that do not touch its variables.

**`CompanionClientProofs`** (assumptions `ClientAssumption`, `ServiceAssumption`).
`ServiceInv` joins `TypeOK` to `ConnectorInv` (what the connector has in hand at each
place), `BusyInv` (`connectionInProgress` is set exactly while a job or the connector needs
it), `HeldInv` and `RetryInv` (the count that the main thread has read leaves room for one
more). `NativeCallsAreSafe` is inductive with the types, by the lock alone;
`ConnectionIsWatched` needs all of it.

Every invariant, action property and refinement that a run checks is stated by a theorem.
Only model-checked are the liveness properties `CallsSettle`, `StopEndsRun`, `StopEndsLoop`,
`EnabledIsChecked`, `CallsEnd` and `ConnectionIsRestored`, which need fairness and `ENABLED`
and are beyond the prover. The findings are counterexamples that TLC finds.

## 5. Findings

Each is a run whose property quotes the repository and fails on the code.

1. `link_stale_online`: a disconnected device is listed again by the next message of
   any other device, because the registry is refilled from every session the manager
   remembers (`quinn_transport.rs:108`).
2. `automation_rows`: two transitions can be stored in the opposite order
   (`run_lifecycle.go:21`).

Four more properties are stated in the modules and fail on the code, which their comments
say; no run checks them:

- `RoutesComeFromHellos`: a hello that the session manager refused still installs the
  session handle (`quinn_transport.rs:111`).
- `SkippedMeansRunning`: a run whose first transition fails stays in the control map, and
  its task is refused from then on (`service.go:116`).
- `OneLoopPerDevice`: stop and start during one sample leave two loops collecting from
  one device (`hardware_monitor.go:68`).
- `RestartRestores`: a crash while recordings are being restored loses those not yet
  started (`hardware_monitor.go:116`).

Observations that no document of the repository decides:

- `docs/feature-parity.md:32` says the mobile list makes no offline cards from
  historical assignments; `service.rs:676` keeps a card for an assigned id that
  nothing lists. `CardsAreTheAssignedPhones` leaves the cards of phones that are not
  connected open and asks for one of each that is.
- After a write of `accounts.json` was cut by an error or a crash, Core refuses every start
  until the file is removed (`RefuseStart`): every account acknowledged before is lost with
  the change that was being written (`auth.rs:456`). `FileKeepsUp` says so.
- Every configuration of the keep-alive begins its interval again (`keepalive.rs:216`), so
  that requests which keep coming faster than the interval keep it from checking.
- A loss that the main thread handles after the connector has connected and before it has
  reset `reconnectAttempts` is not retried when the count stands at its maximum
  (`QuicCompanionService.kt:129`, `345`); a reset between the reading and the writing of
  the count (`346`) is lost. `Exhausted` admits the first.
- When the kill of a child fails, the drop of the service waits for it to end by itself
  (`adb.rs:170`).
- A response is matched by its request id alone, whoever sends it and over whichever
  connection (`quinn_transport.rs:72`); `NoAnswerLost` and `KeepsPromise` count what was
  sent unasked as an answer.
- In the Android service a transport can be forgotten while it is still open, when the
  main thread closes and the connector installs (`QuicCompanionService.kt:371`), and a
  retry that `cancelReconnect` no longer knows can displace a newer configuration
  (`QuicCompanionService.kt:347`).
- The adb children of screen sessions outlive Core unless its input ends in order and
  remote control is off (`main.rs:116`).

## 6. Plan

What could follow, in this order:

| Module | Models | Properties |
|---|---|---|
| `WebSessions` | `auth/manager.go`: login, lock-out, password change, expiry, on top of `AccountPromise` | a session made with an old password ends |
| `CompanionInvoke` | `companion_command.go`, `companion_quic.go`, `companion_upgrade.go`, on top of `CommandPromise` | a command runs at most once, or where it may run twice |
| `CoreIpc` | the Go client of Core, the second Core process | a response belongs to its request after errors and restarts |
| `FileTransfers` | `file_transfer_handlers.go` | no file without a job |
| `DeviceCatalog` | `catalog.go`, `service.go` | one entry per phone, a remark survives a refresh |

Further: an abstract specification for `HardwareMonitor` (the set of devices that record);
the composition of `CompanionClient` with `CompanionLink` over one network.

## 7. Not modelled

The components marked `not_modelled` in `PROJECT.json`, each with its reason. In
particular: wire formats, TLS and certificates, SQL and JSON encodings, ADB's own
behaviour, the Android framework, rendering, time as a number (a timeout is an event
that may happen), and `core/third_party`. In the modelled components only logging,
the text of errors and the contents of payloads are left out; of the remote requests the
read-only ones (`protocol.info`, diagnostics, `inspect`) change nothing and are
`Answer`s or no step at all. Of the media path only the server processes in Core are
modelled, not the sockets and the gateway in `scrcpy.go`, nor the video streams of the
native client. `trust.rs` and `media_store.rs` are not reachable from the live transport.
