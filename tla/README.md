# A TLA+ verification of XMR WASP

XMR WASP is a mining proxy written in Go: many miners (browsers over
WebSocket, mining software over TCP) share a few connections to a Monero pool.
With it comes a miner for a web page: `processor.js`, which talks to the proxy,
and `worker.js`, the hashing worker that Emscripten compiled together with its
run-time and file system. This directory models the proxy, the browser miner and
the stateful parts of the run-time in TLA+, checks the models with TLC on small
instances and proves their safety properties with TLAPS for every value of the
constants.

## 1. The system

### Components

| component | source | state it keeps | operations |
|---|---|---|---|
| **Proxy** | `proxy/proxy.go` | two jobs of the pool, two of the donation server, `donating`, clients `SC` and `DC`, their notification channels, the map of workers and its count, timers | `run` (login loop, then one `select` over shares, workers, notifications, donation timers, keepalive), `login`, `donate`, `undonate`, `shutdown`; called by others: `Add`, `Remove`, `NextJob`, `Submit`, `isReady` |
| **Job** | `proxy/job.go` | blob, `currentNonce` (uint32) | `init`, `Next` |
| **Share validation** | `proxy/share.go` | `submittedNonces` of a job | `newShare`, `validate` |
| **Mining service** | `proxy/mining.go` | none | `Auth`, `Login`, `Getjob`, `Submit`, `Keepalived` |
| **Director** | `proxy/director.go` | map of proxies, share totals | `NextProxy`, `removeProxy`, `GetStats` |
| **TCP and WebSocket workers** | `tcp/`, `ws/` | the connection, its proxy and id | connect, `NewJob`, `Disconnect`, close |
| **Stratum client** | `vendor/.../stratum/client.go` | pending calls, a channel of 10 notifications | `Call` with a 30 s timeout, the reader goroutine |
| **Stratum server, codecs** | `vendor/.../stratum/server.go`, `codec_*.go` | last request method (Coinhive) | request and reply translation |
| **WebSocket connection** | `vendor/.../eyesore/ws` | in/outbox, close signal | `Read`, `Write`, `Close`, pumps |
| **Configuration** | `config/` | the settings | from file or environment, defaults, validation |
| **Browser miner** | `example/cryptonoter/processor.js` | `_socket`, `_currentJob`, `_threads`, flags and timers of reconnecting, tabs and automatic threads; per `JobThread`: its worker, `currentJob`, `running` | `start`, `stop`, `setNumThreads`, `setThrottle`, tab and thread intervals, `_onOpen`, `_onClose`, `_onMessage`, `_onTargetMet`; `onReady`, `onReceiveMsg`, `setJob` |
| **Hash worker** | `example/cryptonoter/worker.js`, its start-up and from line 5386 on | run dependencies, the hook, `currentJob`, the input buffer, throttle timers | `run`, `onMessage`, `setJob`, `work`, `workThrottled`, `verify` |
| **Emscripten FS: directories** | `worker.js`, `FS` and `MEMFS` node operations | nodes, `FS.nameTable`, mounts, current path | `mknod`, `mkdir`, `unlink`, `rmdir`, `rename`, `mount`, `unmount`, `chdir` |
| **Emscripten MEMFS: files** | `worker.js`, `MEMFS` and `FS` stream operations | `contents` and `usedBytes` of a node, `FS.streams` | `open`, `close`, `llseek`, `read`, `write`, `allocate`, `truncate`, `writeFile` |
| **Emscripten IDBFS: sync** | `worker.js`, `IDBFS`, `FS.syncfs` | `IDBFS.dbs`, `syncFSRequests`, counters of each `reconcile` | `syncfs` and every IndexedDB callback under it |
| **Emscripten run-time, page** | the rest of `worker.js`, `index.html`, `cmGauge.js` | memory views, other back ends, pixels | not modelled |

### How they interact

* A miner connects; its goroutine asks the director for a proxy that `isReady()`
  and calls `Add`, which blocks on the channel `addWorker` until `run()` takes
  the worker. It then logs in, which reads a job with `NextJob()` under
  `jobMu`, and submits shares with `Submit()`, which picks the channel
  `submissions` or `donations` by comparing the job id with the four known jobs
  (without a lock) and waits for an answer. At the end it calls `Remove`.
* A job travels to a worker in a goroutine of its own, started by `broadcastJob()` or
  by `Auth`, or with the reply to `Login` or `Getjob`. Nothing orders these.
* `run()` is one goroutine. Everything it does is serialized, except that calls
  to a server take time, while the others go on: readers of the two clients fill
  their notification channels, workers read the jobs, submits queue up, and the
  timer set by `undonate()` closes the donation connection.
* Once an hour, for `donate` percent of it, the proxy opens a second connection,
  sets `donating`, and hands out that server's jobs. The pool connection stays
  and its jobs are stored but not broadcast.
* In the browser, the page is one thread of event handlers. A `JobThread` posts a
  job to its Web Worker and waits for one answer; the worker hashes for a second,
  or hash by hash with timers when throttled, and answers. Socket events, the
  tab interval, reconnect timers and the user's calls come in between.
* Inside the worker, `FS` calls are synchronous; `FS.syncfs()` is not: it compares
  the tree with an IndexedDB store and copies entry by entry in callbacks.
* When `run()` returns (keepalive failed, banned, donation share failed) the
  workers are disconnected and a minute later the director forgets the proxy.

### What is hard about it, and what makes it correct

The hazards with their lines are listed in `PROJECT.json`. In short:

* *Interleavings and stale state.* Job slots shift between `Submit()` and
  `handleSubmit()`. Correct means: a share goes to the server that issued its
  job, and only while the job is known (`RoutedToIssuer`, `NoStaleForwarded`,
  `NilClientUnreachable`).
* *Order of two job streams and a flag.* Correct means: no broadcast is missed at a
  switch, so that a worker whose jobs arrive in order mines for the server the proxy
  is on now (`MinesTheSource`, `WorkersComeBack`), and there is a job to hand out
  (`EmptyJobOnlyInWindow`, `NextJobHasAJob`).
* *Unordered deliveries.* One goroutine per job and worker: an older job can arrive
  last, and nothing corrects it until the next one (`DonationIsOver`).
* *Self-deadlock.* `login()` broadcasts before it releases `jobWaiter`
  (`BroadcastNeverWaits`).
* *Delayed effects.* A timer closes whatever `p.DC` is by then
  (`CloseSparesLiveDonation`); clients that are no longer read go on receiving
  (`EndedProxyIsHarmless`).
* *Many connections, several proxies, one map.* Correct means: a pool connection
  is opened only when none has room (`OnlyWhenNeeded`), every connection gets its
  proxy (`NextProxyReturns`, `AddedOrEnded`), a proxy that ends leaves nobody
  behind (`NoWorkerAbandoned`, `UsesService`, `ImplementsService`), and the map is not written while it is read
  (`MapNeverRaces`).
* *Many ways to start one connection.* Timers, intervals and the user all call
  `_connect()`: one socket (`SingleSocket`), and always a way back
  (`NeverStranded`, `ConnectsAgain`).
* *Two ends of a worker.* The page's flags against messages in flight
  (`OneRoundAtATime`, `ResultFindsAJob`, `ThreadsFollowTheJob`,
  `StallsOnlyBeforeOpen`, `JobIsMined`), and a buffer that mining and verifying
  share (`ShareMatchesJob`, `ImplementsRounds`).
* *The same thing kept twice.* The directory and the name table (`ListedIsFound`,
  `GhostsAreReplaced`, `UnmountedIsForgotten`), paths compared as text
  (`LoopsPassDotNames`, `CurrentStays`), the bytes of a file and `usedBytes`
  (`Represented`, `ImplementsFile`).
* *Partial failure.* A sync some of whose requests fail reports one error, and
  success only when both sides agree (`CallbacksCounted`, `SyncEnds`,
  `SuccessMeansSynced`); a failed request is reported twice all the same, by itself
  and by its transaction (`AssertionHolds`).
* *Counts kept beside data* (`CountMatches`, `ImplementsService`), *uint32 arithmetic*
  (`ChunksDisjoint`, `ChunkFits`).
* *Progress.* One select serves everybody (`SubmitAnswered`, `HandshakesEnd`);
  lost connections and donations must come to an end (`LostPoolEndsProxy`,
  `DonationEnds`, `WorkersComeBack`).

## 2. The modules

### Proxy

One proxy with its workers, both servers and the network. State and code:

| variable | code |
|---|---|
| `loop` | where `run()` is: `login` (the retry loop), `select`, `calling` (in `c.Call("submit")`), `donate` (between the two halves of `donate()`), `returning`, `draining` (the minute in `shutdown()`), `gone` |
| `currentJob`, `prevJob`, `donateJob`, `prevDonateJob`, `donating` | the fields of the same names; a job is its id, `NoJob` the empty `&Job{}` |
| `loginJob` | the local `reply.Job` of `donate()` |
| `sc`, `dc` | `p.SC`, `p.DC`: nil, open, or shut (lost, closed, or shut by an error reply) |
| `orphan` | some open client has been overwritten or abandoned |
| `notify`, `dnotify` | the clients' notification channels |
| `timer`, `closeDue` | `donateStart`/`donateEnd`, and the `AfterFunc` of `undonate()` |
| `workers`, `workerCount` | the fields of the same names |
| `conn`, `handed` | per worker: the state of its connection, and the job `NextJob()` last returned for it |
| `stage`, `share` | per submit request: where it waits, and its share |
| `crashed` | Go panic, or `log.Fatal` |

Every case of the select is one action (`TakeSubmission`, `TakeDonation`,
`AddWorker`, `DelWorker`, `TakeNotify`, `TakeDNotify`, `DonateFails` and
`DonateLogin`, `DonateEnd`, `KeepaliveFails`). A case is split only where others
can see or change something meanwhile: a submit call begins in `TakeSubmission`
and ends in `PoolAnswers`, `PoolRefuses` or `PoolCallFails` (and likewise for
the donation server), and `donate()` is split after `donating = true`. The
keepalive and login calls are not split: nothing they read can be changed by
another goroutine while they wait. `Connect`, `GetJob`, `Leave` and `Submit` are
the miners; `PoolNotify`, `DonorNotify`, `OrphanFloods` the clients' readers;
`CloseDC` the timer; `PoolLost` and `DonorLost` the network.

Abstractions, each with its reason:

* A share is its job id and a nonce of good or bad form: `validate()` looks at
  nothing else. The parameters of `submit` are strings (`newShare()` panics on others). Difficulty and full validation return nil in the code.
* A malformed job is one of two values: `undecodable` (`init()` returns an
  error) and `truncated` (`Nonce()` slices out of range and panics).
  `BadJobs` says which may come in notifications, `BadLogins` in login replies.
* Job ids come from finite sets and may come back; the two servers' ids are
  disjoint (assumption `JobIds`): an id is an opaque token of its issuer.
* A broadcast updates `handed` at once: `NextJob()` is evaluated in `run()`. How the
  job gets to the worker is in `Deliveries`.
* Time is modelled only where it decides an order: a donation can start while
  `closeDue` only if the interval is not longer than 30 s (`DonateStarts`).
  `DonateLength` is 36 seconds per percent; the code's floating point
  computation rounds differently from level 113 on, where the interval is
  negative either way.
* Once crashed, nothing moves: the process is gone.

`MCProxy` gives the instances their symmetry sets.

### Deliveries

`Proxy` with one more variable: `delivery[w]` is the job worker `w` mines (the one
that reached it last), the older jobs still on their way to it, and what has become
of the newest, `handed[w]`: coming, arrived, or overtaken by an older one. The steps
of `Proxy` that hand out no job (`Quiet`) leave it alone; `GetJob` (`mining.go:60-85`)
and the broadcasts of `TakeNotify`, `TakeDNotify`, `DonateJob` and `DonateEnd` put jobs
on their way (`ProxyStep`). `Arrives` and `ArrivesLate` are the end of `NewJob()`, or of
the reply, in the goroutine that carries the newest or an older job, in any order. One
job in `older` stands for any number of goroutines with that job. A delivery that
fails disconnects the worker, which is `Leave` of `Proxy`. What arrives after `run()` has
returned is not followed: its workers are about to be disconnected.

### JobNonce

The uint32 counter of a job and the chunks `Next()` gives away. `UintSize` is
2^32 in the code and `NonceIncrement` 500000; the module only assumes that two
chunks fit. A *lap* is the history of chunks since the counter last went back.

### Director

All proxies, as the director and the connections see them. `Director` and `Proxy`
are two views of the same program: `Proxy` has one proxy in full and lets
connections arrive whenever it `isReady()`; `Director` has the choice among
several, and of each proxy only its life (`status`), its count and its workers.
`ProxyService`, below, is what the two have in common.

| variable | code |
|---|---|
| `proxies` | the keys of `d.proxies` |
| `newProxyMu`, `seen` | the lock, and what the loop of its holder has passed over; the order of a Go map is any order |
| `stage`, `proxyOf` | per connection: waiting for the lock, in the loop, about to create a proxy, blocked in `Add`, connected, leaving; and the proxy it was given |
| `status`, `workerCount` | per proxy: where its `run()` is, and the field |
| `wasFull` | history: the proxies that have once been full |
| `scanning` | `GetStats()` is in its loop over the map |
| `crashed` | the runtime has noticed a write of the map during an iteration |

The loop of `NextProxy` is one action per proxy it tests (`FindReady`,
`PassOver`), since counts change and proxies end meanwhile. That it has found none
(`LoopEnds`) and the insertion of a new proxy (`AddProxy`) are two steps, which only
the lock keeps together; `WriteMap` is an
insertion or a deletion, which the runtime may punish when somebody else is in a
loop. A proxy that nobody refers to any more gives its identity to the next one
(`Unused`), so that the instance is finite although `currentProxyID` only grows;
this needs one identity for each connection and for each proxy that is ending
(assumption `Enough` of `MCDirector`). A proxy can hold more workers than
`maxProxyWorkers`: `NextProxy` reads a count that lags behind. The totals
`GetStats()` prints are left out.

### Miner

One `Miner` object with its socket, timers, intervals and `JobThread`s
(`processor.js`). Its variables carry the names of the fields, less the underscore;
`inbox` and `outbox` are the messages between page and worker, `started` is a
history variable. JavaScript runs one handler at a time, so each handler is one
action with all it calls: `SocketCloses(s, n)` is `_onError` and `_onClose` (n = 2
when an error event came first and `_onClose()` runs twice), `TakeTab` and
`YieldTab` are `_updateTabs()`, `HandleAnswer` is `onReceiveMsg()` with
`_onTargetMet()` and the next request, `SubmitThrows` the same when `send()` throws
because the socket is still connecting. The hash rate that `_adjustThreads()`
measures is any number. `asmjs` is `_asmjsStatus`, which is what keeps a browser
without WebAssembly from requesting the script twice, and, when the request fails,
from ever requesting it again; a browser with WebAssembly requests its script at each
start, as one does that has loaded the other, so both are "loaded". A worker answers one round per request: that it does is
what `HashRounds` promises and `HashWorker` keeps; that it gets one request at a
time is what `HashWorker` assumes and `Miner` proves (`OneRoundAtATime`).

### HashWorker and HashRounds

One Web Worker from the evaluation of its script: `Evaluate`, `WasmArrives` and
`WasmFails` are the start-up (`addRunDependency`, `run()`, the hook that the script
sets after calling `run()`), `HandleJob`, `HandleVerify` and `TimerFires` the
wrapper's message handler and throttle timers. `blob` is which job's blob the input
buffer holds. The hash function is external: whether a round finds a share is
any choice. `role` says whether the worker mines or belongs to `verifyThread`.
`HashRounds` is the abstract worker: ready, then one answer per request, for the
request's job. Refinement: the request is the message or the running chain of
timers, the answer the message on its way back.

### FileSystem

The directory tree, kept once in `node.contents` (what `readdir()` lists) and once
in the chains of `FS.nameTable` (what paths are looked up in). A chain is a set of
nodes and the order of those that would be taken for each other (`newer`). A path
is the directory its last component is looked up in, and that component. The nodes
on the way up from one (`AncOrSelf`), the mounts below a node and the way a path has
taken are each given as the smallest set closed under one step, not by recursion,
so that the proofs can reason about trees of any depth. Hard parts
that are modelled: `rename()` over an existing entry, which leaves the old node in
the table; `PATH.relative()` as a text comparison; mounts in mounts and
`unmount()`'s walk over the table; `mount.mountpoint` as text of the past. No
permissions, symbolic links, devices.

### MemFile and File

`File` is what a program relies on: files are sequences of bytes, streams have
positions. `MemFile` is MEMFS: contents null, typed array or array, `usedBytes`
beside them, the expansion and adoption of buffers (`canOwn`), the first free
descriptor, and the half-done `open()` that truncates and then finds no
descriptor. Bytes are compared modulo 256. `IDBFS.loadLocalEntry()` is a call that
changes the form and nothing else.

### IDBSync

`FS.syncfs()` with one IDBFS mount. Each call is a record: its stage (opening the
database, reading the store, writing), its direction, the local set taken when
the call was made, what is still to be created and removed, and the variables of
`reconcile()`: `total`, `completed`, the first callback (`called`, with its result)
and the one with null that may follow an error (`again`). `remote` is the store as
the running transaction has it, `stored` as last committed.
One action per callback: `Opened`, `OpenFails`, `ReadFails`,
`ReadAborts`, `NothingToDo`, `Persist`, `Populate` (`reconcile()` itself, by
direction), `WriteRemote`, `ReadRemote`, `RequestFails` (one entry's request),
`Commit`, `Abort`.

Error events matter. The handlers of requests call only `preventDefault()`, so the
event goes on to the transaction's handler, where `this.error` is null as long as the
transaction lives. A failed request (`RequestFails`) is therefore `done(err)` and then
`done(null)`: it is reported and counted as completed as well, and the last of them
calls back a second time, with null. A failed cursor (`ReadFails`) makes `callback(null)`
without a remote set, `reconcile()` throws on it, and the call is in stage `lost`: it is
never called back. Only a transaction that the browser gives up (`ReadAborts`, `Abort`)
has an error there. `requests` is `syncFSRequests`; below zero it means that
`doCallback()` has found it 0, its assertion has failed and nothing runs any more.
IndexedDB is modelled as its specification orders it: requests to open and writing
transactions one after the other. Contents and permissions of entries are left out:
the code compares timestamps only. The program changes the tree and the clock in
between (`Store`, `Remove`, `Tick`).

### ProxyService

What a proxy promises and all that is asked of it, without jobs, shares, network or
counters: its life (`gone`, `login`, `running`, `returned`, `draining`) and the
connections it has been given. It is given one only while fewer than `MaxWorkers`
are served (`Connect`; those that wait in `Add()` do not count, in the code
neither), serves one only once it is logged in (`Add`), and disconnects all it serves
before it is over (`Shutdown`).

`Proxy` implements it (`ImplementsService`), with `Status` for `loop`: `select`,
`calling` and `donate` are all `running`. `Director` uses each of its proxies in this
way and in no other (`UsesService`), with `ConnOf(p)` for the connections it
has given to `p`. So what `Director` takes a proxy for is what `Proxy` shows one to
be, as far as the safety of connections goes. The room in `ProxyService` is counted
anew each time; that `isReady()` reads a counter instead is what has to be
shown right, in both.

### The proof modules

The theorems; see section 4.

## 3. The runs

| run | checks | instance and result |
|---|---|---|
| `proxy_jobs` | `BroadcastNeverWaits`, `CountMatches`, `EmptyJobOnlyInWindow`, `CloseSparesLiveDonation`, `ImplementsService` | 2 workers, 2 jobs per server, both kinds of malformed notification, donate level 99, no shares; 460 thousand states |
| `proxy_shares` | `RoutedToIssuer`, `NoStaleForwarded` | 1 worker, 2 submits, 2 jobs per server, well-formed shares, undecodable login jobs; 1.4 million states |
| `proxy_liveness` | `MinesTheSource`, `SubmitAnswered`, `LostPoolEndsProxy`, `DonationEnds`, `HandshakesEnd`, `WorkersComeBack` | `Deliveries`: 1 worker, 1 submit of a good or malformed share, 1 job per server, delivered in any order, no symmetry; 105 thousand states |
| `director` | `NoWorkerAbandoned`, `OnlyWhenNeeded`, `NextProxyReturns`, `AddedOrEnded`, `UsesService` | 2 connections, 3 proxies of one place each, one ending at a time, no symmetry; 29 thousand states |
| `job_nonce` | `ChunksDisjoint`, `ChunkFits` | 6 bit counter, chunks of 5, every first nonce; 1200 states |
| `miner` | `OneRoundAtATime`, `ResultFindsAJob`, `ThreadsFollowTheJob`, `SingleSocket`, `NeverStranded`, `StallsOnlyBeforeOpen`, `ConnectsAgain`, `JobIsMined` | 2 threads, 2 sockets, 2 jobs, 2 reconnect timers, 1 script request, with WebAssembly or not, every tab mode; 154 thousand states |
| `hash_worker` | `ShareMatchesJob`, `ImplementsRounds` | 3 jobs, 4 throttled hashes a round, 3 verifications on their way, mining and verifying, with and without WebAssembly |
| `file_system` | `ListedIsFound`, `GhostsAreReplaced`, `LoopsPassDotNames`, `UnmountedIsForgotten`, `CurrentStays` | 5 nodes, 2 names of which one begins with a dot, 2 places in the table; 86 thousand states |
| `mem_file` | `Represented`, `ImplementsFile` | 1 file of up to 2 bytes, 2 descriptors; 5 thousand states |
| `idb_sync` | `CallbacksCounted`, `SuccessMeansSynced`, `SyncEnds` | 2 calls, a path and a path below it, 2 timestamps; 389 thousand states |

`MinesTheSource` and `WorkersComeBack` say that `run()` misses no broadcast a worker
needs, not that workers mine what the proxy is on: both except a worker at which an
older job has overtaken the newest, and what happens then is the finding about
`DonationIsOver`, below.

`CallbacksCounted` is exact about what the code does when requests fail; that it
breaks the code's own assertion is the finding about `AssertionHolds`. `SyncEnds` excepts a call
whose cursor failed and a program stopped by the assertion. `SuccessMeansSynced` speaks of the first callback only, for
the null after an error says nothing; and it speaks of calls that were the only one in flight, of a tree
that nobody changed meanwhile; a failed call that is still writing does not
count as in flight, and is harmless only because transactions wait for each
other. `CurrentStays` and `GhostsAreReplaced` name the exceptions the code
makes; `LoopsPassDotNames` says that names with a leading dot are the only ones.

The bounds. Two jobs per server fill both slots of each and, as ids come back,
still let a third job push one out. Two workers let one be served while the
other is joining or leaving; two submits let one wait while the other is being
called. The channel holds one notification instead of ten: that `run()` is busy
while it fills up happens all the sooner. The proofs remove these bounds for the
safety properties. In `director`, places for one worker make proxies full at
once, and two connections can both be given the last place; `MaxEnding` keeps a
second proxy from ending before the first is removed, which is what makes three
identities enough. In `proxy_liveness`, one
job per server is what it takes to tell which server a worker mines for; that no
broadcast between two jobs of one server is missed is left to the proof of
`MinesTheSource`, and workers do not concern each other there. In `miner`, two timers, sockets and threads are what it takes for
an old one to meet a new one. In `file_system`, five nodes allow a mount inside a
mount and a rename over an entry; `MaxRoom` is a budget in
which a node costs one and its name another: besides the root, three named nodes, or
two and the roots of two mounts. In `mem_file`, two bytes give each form a gap, an
overwrite and a growth; the proofs hold for any size. In `idb_sync`, two paths make
order matter (parents are created first and removed last), two timestamps make one
side newer, and two calls overlap in every way. Deadlock is not checked where the process can crash: then,
and when a single proxy is gone, there is no step; a miner or worker whose script
fails to load, or a verifying worker with all its answers given, may have none either; nor may a
sync once the assertion has stopped the program.

Two runs expect a violation, each of something a comment says:

| run | violates | what happens |
|---|---|---|
| `director_map_race` | `MapNeverRaces` | `GetStats` iterates over the map without the lock while `NextProxy` inserts a new proxy (the trace TLC gives); in other traces an ended proxy is deleted, without the lock, during the loop of `NextProxy` or `GetStats` |
| `donation_window` | `NextJobHasAJob` | a worker asks for a job between `donating = true` and the first donation job: nil blob, panic |

Further findings without a run of their own are in `PROJECT.json`, "findings". Six
have a property in `Proxy`, `Deliveries` or `IDBSync` that the code breaks; adding it to a
configuration shows the counterexample: `DonationKeepsProxy` (any error of a
donation share makes `run()` return), `NextJobHasAJob` with a malformed login job
(`BadLogins`), `EndedProxyIsHarmless` (the ended proxy's clients stay open, unread,
until `log.Fatal`), `CloseSparesLiveDonation` at `DonateLevel = 100`,
`DonationIsOver` (a donation job is still on its way when `undonate()` sends the pool's
job, and arrives after it: the donation is over and the worker mines for the donation
server), and `AssertionHolds` (a request of a sync fails: the call is called back with
the error and then with null, and `doCallback()` finds `syncFSRequests` 0). Three more came
up while modelling: overlapping calls of `FS.syncfs()` can empty the store, one whose
cursor fails is never called back (`ReadFails`), and duplicate shares are not recognised.

Every property of a passing run also has a mutant, an alternative definition
beside the one it changes (marked "mutant" in the modules), under which TLC
finds the property violated: a missing case of the select, a dropped guard, the
wrong constant, swapped assignments.

### Fairness

`FairSpec` assumes what Go and the code give, and nothing of the servers:

* strong fairness of each case of the select: among the ready cases Go chooses
  uniformly at random, so one that is ready again and again is taken (two cases
  share a condition where a request or a worker can only wait for one of them);
* weak fairness of the end of a submit call: `CallTimeout` ends it after 30 s;
* weak fairness of what `run()` does on its own (the second half of `donate()`,
  `shutdown()`, its minute) and of the timer that closes `p.DC`;
* strong fairness of the keepalive on a shut client: the ticker goes on firing
  and such a call always fails;
* for deliveries: a goroutine that carries a job to a worker delivers it if the worker
  stays connected, since a miner reads what it is sent; in which order is left open;
* for the director: strong fairness of locking `newProxyMu` (a Go mutex goes to a
  goroutine that has waited longer than a millisecond before newcomers) and weak
  fairness of the loop under it and of the loop of `GetStats()`;
* for the miner: weak fairness of timers, of the tab interval, of a worker that can
  load, of the end of a round (`work()` stops after a second) and of the delivery
  of messages; nothing of the network, other tabs or the user;
* for the hash worker: weak fairness of its event loop (messages and timers);
* for a sync: weak fairness of each call's next IndexedDB event: the browser answers
  every request, with success or an error, and ends every transaction.

No fairness is assumed for login (the pool may be unreachable for ever), for
donations to start, or for anything a miner or a server does.

## 4. The proofs

All are checked by `tlapm` with SMT, Zenon and LS4. The assumptions are the
constants' (the named `ASSUME`s of the modules), which TLC evaluates on every run.

`Proxy_proofs` proves every safety property of `proxy_jobs`, `proxy_shares` and
`proxy_liveness` for any sets of workers, requests and jobs and any buffer size. None of the properties
but `TypeOK` is inductive; the invariant is built in layers, each preserved by
every step given those before it:

1. `TypeOK`: among others, pool slots never hold donation jobs.
2. `WorkerInv`: the map holds exactly the connected workers while `run()` is
   alive, nobody before the first login, and nobody takes itself for connected after
   `shutdown()`. Gives `BroadcastNeverWaits`.
3. `ClientInv`: after login `SC` is set; a donation job exists only if `DC` is.
4. `RouteInv`: a waiting request holds a share of the server whose channel it
   waits on. With `ClientInv`: `RoutedToIssuer`, `NilClientUnreachable`.
5. `CallInv`: at most one call, only while `loop = "calling"`, of a known job.
   The slots do not move during a call. Gives `NoStaleForwarded`.
6. `JobInv` with `LastSentIsSource`: after login the current job is real, and the
   donation job is too once `donate()` is over, as long as login replies are well
   formed (`BadLogins = {}`: after a malformed one there is no job, see the findings);
   and the job last sent to a worker is the one `NextJob()` would return now. Gives
   `EmptyJobOnlyInWindow`.
7. `CloseInv`: a close can only be pending when no donation is under way, if the
   donation interval exceeds the delay. Gives `CloseSparesLiveDonation` for
   every level up to 99.
8. `CountInv`: the map is finite and `workerCount` its cardinality.

`SourceIsMined` (`MinesTheSource`) is about `Deliveries`. Each of its steps is a step of
`Proxy` or leaves `Proxy` alone (`DeliveriesStep`), so the layers above hold there too.
`HandedIsSent` says that a step which changes `handed[w]` starts a delivery to `w`, and
`DeliveryInv` that a worker whose newest job arrived last mines `handed[w]`; by
`LastSentIsSource` that is the job of the source.

`ServicePromised` is the refinement `ImplementsService`: each step of `Proxy` is one of
`ProxyService` or changes nothing it sees. `CountInv` and `WorkerInv` turn the guard
`workerCount < MaxWorkers` into one on those served, and show that nobody leaves
before login and that `shutdown()`, which goes by the map, misses nobody.

`JobNonce_proofs` proves `TypeOK`, `ChunksDisjoint` and `ChunkFits` for every
counter size and chunk size with two chunks to spare, hence for 2^32 and 500000.
The inductive invariant says that in an unfinished lap every chunk ends before
the counter, and that the counter has room for a chunk except at the first one.

`Director_proofs` proves the safety properties of `director` for any sets of
connections and proxies, any `maxProxyWorkers` and any number of proxies that end
at once; the connections must be finitely many at a time. The invariant `IInv`
says who may be in the loop of `NextProxy` and that a proxy it has passed over was
full once or has ended, also once the loop is over and before the new proxy is in the
map (`LockInv`, with `FullInv`: a count at the limit has been
noticed), that a worker has a proxy exactly from assignment to the end (`Placed`),
and that a proxy's count is the number of its connected workers while `run()` is
there to keep it (`CountInv`). Without the last, nothing would keep the count of
`TypeOK` from going below zero. That the lock is held by one worker only is the
type of `newProxyMu`; what has to be proved is that the loop runs under it.

`ServiceUsed` proves `UsesService`, for all proxies at once: a step that concerns one
proxy leaves what the others see alone, and for its own is one of `ProxyService`.
Between the return of `run()` and `shutdown()` nobody keeps the count while
workers leave; that it is then no less than their number is the part of `CountInv`
that makes the room right (a proxy that has ended may look full, never empty).

`Miner_proofs` proves the type invariant and all six safety properties of `miner`
for any number of threads, sockets, jobs and timers. `Inv` joins, for each thread,
what the page believes (`running`, `threadJob`) to what is in flight, and the flag
`autoReconnect` to the intervals that make up for it when it is off; without the
latter `NeverStranded` is not inductive.

`HashWorker_proofs` proves `ShareMatchesJob`, the start-up property
`RunsWithItsHook` and that the safety part of `HashRounds` is implemented. The
invariant says that a dependency is the only thing that keeps `run()` back, that a
mining worker has one message, timer or answer at most, and that the blob is that of
`currentJob` whenever the worker mines.

`FileSystem_proofs` proves `ListedIsFound` and `GhostsAreReplaced` for any nodes,
names and hash function: a node is linked in the place its parent and name
hash to and in no other, what a directory lists is in the table and is the newest
of its name, and an unused node is nowhere.

The other three properties of the run speak of ways of any length, and need no
induction: each is shown by giving a set that is closed under one step and that
the way must therefore stay in. `MountInv` adds what mounts rely on: a root is its
own parent and has no name, a node that has a parent hangs in a directory, and
what is mounted is a root that is mounted on a named directory. `Forgotten`
(`UnmountedIsForgotten`) is that no node of an unmounted tree is left in a chain, and is
inductive with it; `LoopsNamed` (`LoopsPassDotNames`) follows where `rename()`
compares two paths as text: the new directory can only be below the moved one when
the remainder begins with a dot; `CurrentKept` (`CurrentStays`) follows the way up
from the current directory over a removal or a rename of a node that is not on it.

`MemFile_proofs` proves `Represented` and the refinement of `File` for any files,
sizes and descriptors. The invariant adds to `Represented` that null contents are
empty and that no file exceeds the bound; each of resizing, expanding,
patching and allocating is a lemma about one node, then every call is matched with
one of `File`, or changes nothing a program can see (`LoadLocalEntry`).

`IDBSync_proofs` proves both safety properties of `idb_sync` for any tree, any
number of calls and any failures. `CallbacksCounted` is not inductive; `Account` is:
unless an error has been reported, what is completed, still to be created and still to
be removed add up to the total; after an error they stay below it unless a request of
the call has failed, for only such a failure is counted as completed too. So a null
can follow an error only then, and only once.

`SuccessMeansSynced` needs `CalmInv` on top: a call that was alone so far and whose
tree nobody touched (`Calm`) is, while it waits, the only one that waits to read
and the last in the queue, with a local set that is still true; once it writes, it is
alone in the queue, and each path is still to be created as it is in the source,
still to be removed and gone from the source, or already agrees. The queue must be
part of it: a call that failed has been called back and does not count as in
flight, but its transaction goes on writing to the store, and `CalmReadsAlone` is
what makes it over before the calm one reads. With `Account`, success means that
nothing is still to be done, so every path agrees.

Only model-checked: the liveness properties and the fair part of `ImplementsRounds`
(fairness and `ENABLED` are out of the prover's reach). Every safety property of a
passing run is the subject of a theorem. `TypeOK` of `Proxy`, `Director`,
`JobNonce`, `Miner` and `HashWorker` is proved, so that runs spend their time on other properties;
`FileSystem_proofs`, `MemFile_proofs` and `IDBSync_proofs` carry the typing they
need in their invariants. `NilClientUnreachable` and `RunsWithItsHook` are proved
and not listed in a run either.

## 5. Not modelled, and the plan

Done: `Proxy` with `Deliveries`, and `Director`, with `ProxyService`, `JobNonce`, `Miner`, `HashWorker` with `HashRounds`,
`FileSystem`, `MemFile` with `File`, `IDBSync`, their runs and proofs.

Limits of what is there:

* `IDBSync` sees timestamps, not contents: that a file written twice in one
  millisecond, or an older one renamed over it, is never copied is a known
  consequence of the comparison (`worker.js:2484`) and not a property.
* Shares have string parameters: the unchecked type assertions of `newShare()`
  (`share.go:59-67`) panic on others, in the goroutine that serves the miner.
* A callback comes with the last request's success; a commit that fails after it
  (`Abort` with nothing pending) loses what was reported. No doc promises more.
* `FileSystem`, `MemFile` and `IDBSync` each have their own view of a tree or a file:
  `IDBSync` creates and removes paths where `FileSystem` has the whole name table.
* `Miner` does not model the `User` and `Token` variants, `_goal` or the page's
  verification of shares; `HashWorker` answers verifications but nobody
  compares the result.

What would come next:

1. `ShareLedger`: shares forwarded per job as a history, on top of `Proxy`'s
   share path, and an abstract share service that `Proxy` is shown to implement.
2. `StratumClient`: sequence numbers, pending calls, late answers, the reader's
   coalesced reads and reused notification; refinement of a plain call service.
3. The server codecs (which method a reply belongs to) and the WebSocket
   connection (outbox, close signal and their timeouts).
4. `Config`: defaults, file and environment as pure operators.

Left out for good: logging, command line flags and start-up; the generated parts of
the Emscripten run-time (memory views, string conversions, `NODEFS`, `WORKERFS`, the
system call wrappers), which keep no state of their own or are not used in a
browser; the gauge and the markup of the example page; third-party libraries. The
hash function itself is compiled code without source here.
