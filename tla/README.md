# A verification development for `emulators`

`emulators` (js-dos) runs DOSBox and DOSBox-X in a browser: a WebAssembly
machine in a worker, a TypeScript client that starts it, and a protocol of
messages between the two.  This directory holds TLA+ models of its stateful
parts, TLC configurations that check them on small instances, and TLAPS proofs
of what matters most for every instance.  Paths below are relative to the
repository.

## 1. The system

| component | code | state it keeps | operations |
|---|---|---|---|
| Sockdrive, JavaScript half | `src/sockdrive/sockdrive.ts` | `loaded`, `loadQueue`, `bach`, `storedSectors`, `storeKeys`, counters | open, preload, `loadRange`, `readRangeAsync`, `write`, `persist` |
| Sockdrive, native half | `native/jsdos/sockdrive/sockdrive.cpp`, `rangecache.h`, `jsdos-drive.cpp` | `driveCaches`, `writeCaches`, empty ranges | open, read (may sleep), write, close, `client_sockdrive_new_range` |
| Range store | `src/sockdrive/sockdrive-store.ts` | two OPFS files, `index`, `blockSize`, `metaSize`, `asyncOpPromise` | `init`, `put`, `get`, `keys` |
| Command interface | `src/protocol/protocol.ts` | a promise, a resolve and a reject field per request | queries, delete, persist, pause, resume, exit |
| Worker side | `src/dos/dosbox/cpp/worker-protocol.cpp` | `Module` callbacks, open files, `connectNetwork` | one handler per `wc-` message, `ws-` messages back |
| Sleep of the machine | `native/jsdos/jsdos-asyncify.cpp` | `Module.sync_wakeUp`, `Module.paused`, an interval | `sync_sleep`, `receive`, pause, resume |
| File transfer | `protocol.ts`, `worker-protocol.cpp` | a promise per name, parts of a read, chunks of files not complete | `fsReadFile`, `fsWriteFile` of arrays and streams, initial bundles |
| Network | `jsdos-ipx.cpp`, `jsdos-ipxserver.cpp`, `jsdos-net.cpp` | the client's two promises, `connectNetwork`, `incomingPacket`, `wsBuffers`, the server's table | connect, disconnect, register, relay |
| Input and events | `jsdos-events.cpp`, `protocol.ts` | the client's key matrix, timed queues of keys, mouse, triggers | press, release, `simulateKeyPress`, add, handle in the tick |
| Audio worklet | `src/dos/dosbox/ts/audio-worklet.ts` | ring of sample blocks | push, process |
| Event consumers | `src/impl/ci-impl.ts` | consumers, delayed messages | register, fire |
| Transports | `worker.ts`, `direct.ts`, `worker-server.js` | handlers, queued messages | send, init, exit |
| Module cache, downloads | `src/impl/modules.ts`, `src/http.ts` | promises per module | load |
| Debugger protocol | `jsdos-debug-mcp.cpp`, `direct-debugger.cpp` | a socket and its timer, a receive buffer, queues in and out | start, stop, reconnect, receive, poll, send |
| Bundles, zip, LZ4 | `dos-bundle.ts`, `libzip.ts`, `mini-lz4.ts` | none beyond a call | build, extract, encode |
| Emulators and vendored code | `native/*` submodules and forks | | external |

How they interact.  The client and the worker exchange messages over two
first-in first-out queues (`postMessage`); with the direct transport the same
messages are delivered inside the call.  The machine shares the worker's one
thread with its event loop: handlers run only while the machine sleeps in
asyncify.  A sleep is a round trip: `ws-sync-sleep` to the client,
`wc-sync-sleep` back.  The guest's disk reads end in `sockdrive_read`, which
sleeps until the JavaScript half, working through the same event loop, delivers
a range by `Module.onSockdriveNewRange`.  The JavaScript half looks into the
range store before it goes to the network and puts there what it fetched.  The
client collects the changes by `wc-persist-sockdrives` and gives them back as a
bundle at the start of a later session.

What is hard in it.

* Two parties load the same ranges: the preload loop and the guest.  `loaded`
  decides who does, and the other one still has to get the range.
* The disk is spread over five maps (published image, store, `storedSectors`,
  `cache`, `written`) on two sides, and only one of them is looked at in a read.
* A session ends at any moment: the worker is terminated between two writes to
  the store, and with a range in flight.
* Requests fail, bodies break off, and somebody sleeps while they do.
* Promise fields are read before an `await` and set after it.
* Pausing, resuming and exit race with a machine that goes to sleep.
* A registration sleeps up to 15 seconds inside the machine's tick, while calls,
  late answers and packets arrive, and answers do not say what they answer.
* Chunks of files, their answers and the client's promises are matched by name
  only, while several writes and reads of a name may be under way.
* Keys carry times of the client, and the machine reproduces their differences,
  late by any amount and without a sign.
* The debugger's connection is lost at any point of a line or of the queue.

What makes each part correct:

* Sockdrive: the guest reads what a disk would give; a later session starts
  from what was persisted; no read waits for ever; preloading ends and its
  progress adds up.
* Range store: `get` gives the bytes of the range asked for; what was put is
  found again; a torn write costs at most itself.
* Command interface: every call is answered, once, by its own answer, unless
  the session ends; exit settles.
* Sleep: every sleep has one wake-up.
* File transfer: what a file contains is what one write was given, what a read
  gives is what the file contained at one moment, writes settle, and the machine
  starts after the whole upload.
* Network: connect and disconnect settle; a settled call is over; the server the
  machine is connected to knows it; packets go to registered machines only.
* Events: presses and releases of a key take turns and all arrive, and a press
  lasts long enough for a program to see it; no trigger is lost.
* Audio: samples come out once and in order; an underrun gives silence.
* Debugger: requests are whole lines, answers keep the order of the requests,
  and a client that runs connects again.

`PROJECT.json` lists every component with its status and, under `hazards`,
every place in the code where one of these can go wrong.

## 2. Modules

| module | what it is |
|---|---|
| `BlockDevice` | the abstract disk: read, write, persist, revert, discard |
| `RangeStore` | the abstract store of ranges that a drive relies on: open, put, close |
| `Sockdrive` | a drive, both halves and the client's changes, over `RangeStore`; implements `BlockDevice` |
| `SockdriveProofs` | proofs about `Sockdrive`, for all constants |
| `OpfsStore` | the range store with its files, sessions and failing writes; implements `RangeStore` |
| `OpfsStoreProofs` | proofs about `OpfsStore`, for all constants |
| `CommandInterface` | client, queues, worker and sleeping machine |
| `CommandInterfaceProofs` | proofs about `CommandInterface`, for all constants |
| `Network` | connecting to an IPX server: client, worker, machine, guest, servers |
| `NetworkProofs` | proofs about `Network`, for all constants |
| `FileTransfer` | the upload, writes and reads in chunks, over both queues |
| `FileTransferProofs` | proofs about `FileTransfer`, for all constants |
| `DebugMcp` | the debugger's control client with its connections and queues |
| `DebugMcpProofs` | proofs about `DebugMcp`, for all constants |
| `KeyEvents` | keys from the client to the programs in the machine, with their times |
| `KeyEventsProofs` | proofs about `KeyEvents`, for all constants |
| `MCSockdrive`, `MCOpfsStore`, `MCCommandInterface`, `MCNetwork`, `MCFileTransfer`, `MCDebugMcp`, `MCKeyEvents` | instances for TLC |

Definitions whose comment begins with "Mutant" are faulty variants of the
definition that follows them.  They are used by no specification; `PROJECT.json`
names the property each of them breaks when it takes the place of the original.

### 2.1 `Sockdrive`

One action is one uninterrupted run of either side.  The guest gives way only
in `asyncify_sleep`, so `sockdrive_read` is `ReadHit` (no sleep), or `ReadMiss`
(up to the sleep, with the synchronous part of `readRangeAsync` and `loadRange`)
followed by `ReadWake`.  `loadRange` is split at its fetch: `StartLoad` is the
part before it, `FetchOk`, `FetchFail` and `FetchBreaks` are its three outcomes.
`LoadFromQueue` is one turn of the preload loop, started by `Mount` (`ready()`)
and by `NextBatch` when a batch has settled.  `Persist` gives `storedSectors` to
the client, `SessionEnd` is the end of the worker at any moment; `changes` and
`store` survive it.

Abstractions: a range is a function from sectors to values, the queue a set (no
property depends on the order), bytes are counted in ranges.  The constants
carry `sockdrive.metaj`.  `store` is the range store as the drive sees it, and
changes only as `RangeStore` says: a range may be gone when a session opens, as the
files were emptied or no store could be made (`RS!Found` in `OpenRequest`), and a put
may fail, which is logged and nothing else (`RS!Written` in `OpenDone` and
`FetchOk`).  A range that is looked up in vain is fetched (`AtHand`).  What the store
does inside is `OpfsStore`.  It is the store with synchronous access,
where `put` copies the buffer before it returns.  With the asynchronous one and
with `NoStore` the buffer given to `put` is the one that `mergeSectorsData`
changes in place a line later, so `StoreIsPublished` says nothing of those.

Bounds: `GuestWrites` (what the guest writes to each range), `MaxFailures`
(failed requests in a behaviour), `MaxBroken` (bodies that break off).  They
restrict the environment, not the code.

### 2.2 `OpfsStore`

Offsets count blocks: each `put` moves both files on by one block and one entry.
A put is `PutCall` (the call), `PutStart` (past the wait for `asyncOpPromise`),
`WriteBlock`, `WriteEntry`, `PutDone`, or one of the failures.  `Open` is `init`
with `loadIndex`, followed by the drive's puts of the small ranges when one of
them is missing (`Refill`), which the drive starts before the guest runs.
`SessionEnd` may fall between any two of these in a worker.

What is assumed of the files: writes of one session reach the file in the order
they were made and survive the end of the process; a position past the end is
filled with zeros.  That is the end of a process, not a loss of power.  The
asynchronous access of the main thread writes to a swap file that
`createWritable().close()` puts in place; these writes may fail
(`AsyncWriteFails`), or end with their page.  The history variable `faulted` says
that one of that happened: the index and the sizes were moved on before the
write, so what they say of the files may be wrong from then on, and the
properties about content hold until then.  `PutsGetTheirTurn` holds regardless.

`Stored` is what the files hold of each range: what a session that is opened now
would find, without the range whose put is under way.  With it as the abstract store,
`IsRangeStore` says that the module implements `RangeStore` until an asynchronous
write fails, and `GetsWhatIsStored` that a session, which reads through the index in
its memory, reads just that.  Both are theorems (section 4); no run repeats them.

### 2.3 `CommandInterface`

A caller is a piece of client code that awaits one call at a time; several may
share the interface.  `pending` is the set of promise fields that are set,
`holders` says who awaits the promise in a field.  A caller whose promise was
replaced in its field keeps waiting but is no holder any more: that is how a
lost answer shows.  `OnDrives` continues every `persist` that awaited the
drives, in one action since the continuations are microtasks of one message.
`Handle...` are the worker's handlers; they are disabled while the machine runs.
`Sleep`, `Tick`, `HandleSyncSleep` are the sleep and `Finish` the return of
`server_run`, by an exit request, by the guest or by a crash.

The main loop of the emulator, which looks at `jsdos_exit` between two sleeps,
lies in a submodule.  What is used of it is that it goes on sleeping and that,
once exit was requested, it ends.

`persist` asks for an archive of the changes (`"pack"`) or for a full one
(`"pack-full"`).  If one of the changes cannot be made the answer is null, like that
of `HandleRequest`; a full one (`HandlePackFails`) makes `emsc_pack_fs_to_bundle` call
`Module._abort()`, which sets Emscripten's flag `ABORT` (`aborted`) and throws; the
handler logs that and answers nothing.  Handlers go on working, and the worker
answers requests.  But the wake-up that Asyncify hands to `Module.sync_sleep`
returns at once under `ABORT`: the next `wc-sync-sleep` takes `Module.sync_wakeUp`
away and nothing wakes (`Dead`).  `Asyncify` names the build: with JSPI `syncSleep`
returns a promise of its own (`jsdos-asyncify.cpp:36-42`), which wakes regardless.

Bounds: `Caller`, `Asked` (the requests in use), `MaxQueue` (messages waiting in
the worker when the client sends), `MaxErrors` (full archives that cannot be made).

### 2.4 `Network`

`CallConnect` and `CallDisconnect` are the client's calls, up to the message.
`HandleConnect` leaves the request for `ClientTick`, which either refuses it
(`server_network_connect` while connected) or sends the registration and waits;
`RegisterPoll` and `Timeout` are the two ways out of the loop of
`_ConnectToServer`, and either forgets the request (`Unwanted`).  `Tell` is
`Module.sendMessage` and `Answered` what the client does with it.  The guest's
`IPXNET CONNECT` goes through the same loop.  What a server sends is put into
`wsBuffers` (`inbox`) by `HandleNetReceived`, taken by `ClientLoop` while
connected and by the loop of a registration otherwise.  A packet there that is
no answer aborts the machine (`crashed`), which then does nothing any more.

With `Direct` the client's and the machine's code run in one thread: `Tell` and
the handlers run inside the caller.  `CallDisconnect` then settles the promise
before its field is set, as the constructor of the promise runs first.

Abstractions.  `client_tick` is called by the emulator's loop, which lies in a
submodule; it does not run while a program of the guest waits in
`_ConnectToServer`.  The client handles `ws-net-send` and `ws-net-disconnect`
at once, since the delay of a registration (`sendBinary` is retried until the
connection is open) is that of `ServerRegister`, which may also never come.
Packets carry their sender and whether they are an answer to a registration.
The 15 seconds are an arbitrary time.  This machine is no server.

Bounds: `Peer`, `MaxQueue` (messages that wait when a call or the guest adds
one), one packet at a time (`ServerRelay`), and one registration of a peer, or
its answer, on its way (`NotOnItsWay`, which restricts whom the client and the
guest connect to, never the machine).

### 2.5 `FileTransfer`

`call` says how far each write is; `promise` is `dataChunkPromise`, by name.
`SendChunk` is `sendFullDataChunk`, which throws while a chunk of the name is not
acknowledged; it is called by `WriteFile` (an array sends at once, a stream is
read first), by `SendNext` (the code after the await) and by `SendEntry`
(`sendBundles`, one entry after the other).  `SendRun` is what follows the
upload.  `HandleChunk` and `HandleEnd` are the two branches of
`wc-send-data-chunk`, `HandleGet` is `wc-fs-get-file`, and `On...` are the
client's handlers.  A handler that throws sends no answer: a name that the worker
cannot create keeps its promise, and a file that is not there its read.

Abstractions.  A chunk is named by its write and its number, so that a file is the
sequence of the chunks it was put together from.  A file is sent back in one part
(`ReadsAreSnapshots` needs the order of part and end, not the number of parts).
The program in the machine writes no files here.

Histories: `mixed` has the files of which two unfinished writes sent chunks.  The
code keeps such writes apart only within a chunk, so their chunks may be mixed;
`WholeFiles` says nothing of them.  `seen` has what a file contained since it is
being read.

Bounds: the writes and their numbers of chunks; every write happens once.

### 2.6 `DebugMcp`

`socket` and `connected` are the connection, `timers` the calls of `Reconnect` that
are set.  `Start`, `Stop`, `Reconnect`, `OnOpen`, `OnClose` (also `OnError`) and
`OnBinary` are the functions of that name; a connection may fail in `Connect`, and a
send at any message of the queue (`Flush`).  `OnMessage` takes one frame: it goes
on with a line of the controller, may end it, and may begin the next one.  `Poll` is
one request of `ControlServer_Poll`, whose answer goes through `Send`, like an
event of the debugger (`SendEvent`).

Abstractions.  A line is known by its number, a piece of it by the line it belongs
to, so that a line put together from two shows.  What a request does is left out.
The buffer's limit counts pieces.

Bound: `MaxLines`, the lines that the controller starts.

### 2.7 `KeyEvents`

`SendKeyEvent` is `sendKeyEvent` with the client's matrix, `SimulateKeyPress` the
press and the release 16 ms ahead that `simulateKeyPress` sends for one key,
`ServerAddKey` is `server_add_key`.  `DoKeyEvents` is one call of the function that
finds the first key due: it takes as many as carry the same time (`Together`), gives
them to the keyboard (`AddKeys`, in which the last event of each key counts) and
computes when the next one is due.  `Pass` is a millisecond.  That presses and
releases take turns (`TakesTurns`, in `TypeOK`) is said by neighbours: of two events
of one key with none of it in between, one is a press.

Abstractions.  `executeNextKeyEventAt` is kept as the time until then, as only the
difference to the machine's clock is used.  A time is unsigned, modulo `Width`;
half of that never passes.  How long a key is down is counted up to `Hold`.  The
machine looks at its queue at any time, which is its lateness.

History: `back` says that a key was sent with a time before that of the one before
it, as any key within 16 ms after `simulateKeyPress` is.  The difference of the
two, taken without a sign, is nearly 2^64 ms: no key is due any more.
`KeysGetThrough` says that this is the only way for a key not to arrive, and the
theorem `StuckForGood` that there is no way back from it.

Bounds: `MaxTime` (the client sends before that time), `MaxSent`.

## 3. Runs

| run | instance | checks | result |
|---|---|---|---|
| `sockdrive_safety` | a preloaded and a dropped range, two sectors each, two values | types, store, cache, lost requests, `ProgressIsTrue`, `IsBlockDevice` | holds |
| `sockdrive_live` | a plain, a small and a dropped range, batches of one, all queued, 2 failures | `ReadReturns`, `PreloadEnds` | holds |
| `sockdrive_failed_range` | one range, as many failures as tries | `FailureIsReported` | violated |
| `opfs_store` | 3 ranges, one of them small, both modes, failing writes | types, `IndexedBlocksAreOwn`, `FinishedPutsSurvive`, `LosesAtMostOne`, `PutsGetTheirTurn` | holds |
| `opfs_refill` | 4 ranges, two of them small | `SizeMatchesEntries` | violated |
| `command` | 2 callers, up to 3 waiting messages, a query, delete, pack, exit, pause and resume | types, `OneWakeUp`, `OneAnswerPerPromise`, `NobodyIsForgotten`, `CallsAreAnswered`, `ExitSettles`, `MachineKeepsRunning`, in an Asyncify build with one archive that may fail | holds |
| `command_persist` | 2 callers that persist | `PersistIsAnswered` | violated |
| `network` | 2 servers, a worker, a guest that uses IPXNET | types, `RefusedOnlyWhileBusy`, `NoLostCall`, `SettledIsOver`, `LinkIsRegistered`, `FirstConnectIsSafe`, `CallsSettle` | holds |
| `network_direct` | the direct transport | `RefusedOnlyWhileBusy` | violated |
| `file_transfer` | upload of a bundle and a file, a stream and an array, three names, one of them bad | types, `OneChunkPerName`, `WholeFiles`, `ReadsAreSnapshots`, `WritesSettle` | holds |
| `debug_mcp` | queues of 2, a buffer of 3 pieces, 5 lines | types, `WholeRequests`, `AnswersInOrder`, `NeverStranded`, `Connects` | holds |
| `key_events` | 2 keys, 4 events, 3 ms and a hold of 2 ms, times modulo 16 | types, `PressesAreHeld`, `KeysGetThrough` | holds |

Why the bounds are enough.

* Sockdrive.  Ranges interact only through the queue, the batch and the
  counters: two ranges, one loaded by request and one sealed as zeros, with
  batches of one, give every order of preload and read.  Two sectors tell a
  written sector of a range from one that must come from the image, two values
  a write that replaces an earlier one.  The number of sessions is not bounded, and
  any range may be gone from the store in each, and any put fail.
  The live run adds the small range and mode "all", and MaxFailures is one less
  than the tries, so that failures can be spread in any way.
* OPFS.  Three ranges give a finished put, one that is torn and one that comes
  after it, with one of them put again when a session opens; sessions are not
  bounded.  The index has one entry per range, so no state outgrows these.  The
  refutation needs two small ranges and two more.
* Commands.  Promise fields are independent but for persist, exit and the queue's
  order; two callers give joining, refusal and replacement, and the theorems say
  the same for any number of them.  One failed archive is enough, as an abort is not
  undone.  No run uses symmetry, so that liveness can be
  checked in the same instance.
* Network.  Two servers give a late answer of one where that of the other is
  expected; two waiting messages give a call behind one that was settled by the
  guest's message.  The number of calls, connections, time-outs and packets is
  not bounded.
* File transfer.  Two entries of the upload give an order, one of them and the
  stream have two chunks, so that there are states between chunks; the array then
  meets the stream on the same name, before, between and after its chunks, and so
  does a read.  The bad name keeps its promise.  The theorems say the same for any
  number of each.
* Debugger.  Queues of two drop the oldest message, three pieces let a line of one
  connection be followed by one of the next and overflow the buffer, and five
  lines fill both queues.  The number of connections, failures, stops and events is
  not bounded.
* Keys.  Four events are two presses and two releases, of one key or of both, from
  one message each or from `simulateKeyPress`; a hold of two of three milliseconds
  lets them overlap in any way, and the machine may be late by any amount.

Deadlock is checked in the Sockdrive, OPFS and debugger runs.
`CommandInterface` really stops, after exit and after a failed start, `Network`
does when the machine aborted, and `FileTransfer` and `KeyEvents` when all that may
be sent was sent, so their configurations switch that check off.

### Fairness

* The event loop runs every callback that is due: weak fairness of message
  handling on both sides, of the interval, of the end of `sockdrive_open` and of
  the preload loop.
* Each request settles in one way or another: weak fairness of `Settle` for each
  range, not of success.  Reads return because `MaxFailures` is below the number
  of tries; `sockdrive_failed_range` shows what happens otherwise.
* A guest that finds its range wakes: weak fairness of `ReadWake`.
* A sleep has an end: `Module.receive` sends a wake-up back as long as the time
  is not over, so that handling one that wakes is strongly fair.
* A machine that was asked to exit does: strong fairness of `Finish` with
  `exitRequested`, for it is possible again and again while the machine wakes
  and sleeps.
* The loop of a registration ends, with an answer or by its time limit: weak
  fairness of `RegisterPoll \/ Timeout`.  No server has to answer.
* `client_tick` comes again and again between the guest's own registrations:
  strong fairness of `ClientTick`, which those disable.
* A write of the store ends, with or without success: weak fairness of the
  operation under way, and of the puts that wait for it.
* Both sides of a file transfer handle what is queued and go on after an await, and
  the upload goes on: weak fairness of each.  A stream has its next chunk at some
  time, or fails.
* The timer of the debugger's client fires (weak fairness), and of endless tries to
  make a socket and to open it one succeeds: strong fairness of a `Reconnect` that
  gets a socket and of an `OnOpen` that sends all that waits.
* The machine handles messages, looks at its keys again and again, and time passes:
  weak fairness of each.
* Nobody has to open, read, write, call, pause, press a key, start or leave.

### What disagrees

1. `sockdrive_failed_range`.  `CHANGELOG.md` says a failed range request is
   reported after the last try "instead of leaving the emulator waiting
   indefinitely".  `loadRange` logs it, the range stays in `loaded`, and the
   guest sleeps in `sockdrive_read` from then on.
2. `opfs_refill`.  `loadIndex` restores the end of the files from the number of
   ranges in the index.  A session that ends between the puts of two small
   ranges makes the next one put both, so one range has two entries; the session
   after that takes the files to end a block too early, and its next put
   overwrites a block the index still points at.
3. `command_persist`.  `persist` looks at `persistPromise` before it awaits the
   drives and sets it after; of two calls that overlap there, one never settles.

4. `network_direct`.  `networkDisconnect` with the direct transport leaves
   `disconnectPromise` set for ever: the answer arrives inside the constructor
   of the promise, before the assignment.  Every later call is refused with
   "Already prefoming connection or disconnection...".

Two properties of `Network` name the history they need.  `LinkIsRegistered`
holds until a registration timed out: its late answer is taken for that of
the next server.  `FirstConnectIsSafe` holds until a connection ended or a
registration timed out: `wsBuffers` is not cleared, and a packet left in it
aborts the next registration.

Five more things hold only with a restriction, described here because no document
promises them otherwise.  In preload mode "all" every range is counted twice in
the expected total, so the progress ends at half (`ProgressIsTrue` is checked in
mode "default" and proved for "default" and "none"; `ProgressEndsAtHalf` proves the
half for "all").  With a failing asynchronous write the index can point at a block that
was not written, as sizes and index are moved on before the write (`faulted`).
Two writes of one name that overlap, or one after another that was given up, may
mix their chunks in the file (`mixed`).  A full archive that cannot be made aborts the
machine for good in an Asyncify build: it sleeps without a wake-up and `exit` never
settles, so `OneWakeUp`, `ExitSettles` and `MachineKeepsRunning` except it (`Dead`), and
theorem `AbortIsFinal` says that nothing ends such a session; each of the three is
refuted by TLC in `command`'s instance when the exception is taken out, and holds
without it when `Asyncify` is FALSE.  A key sent within 16 ms after
`simulateKeyPress` stops the keyboard for good (`back`, and theorem `StuckForGood`).

## 4. Proofs

`SockdriveProofs` proves, for every finite set of ranges, every set of offsets
and values and every bound, from `ConstantsAssumption` alone:

* `TypeCorrect`: `Spec => []TypeOK`
* `StoreStaysPublished`: `Spec => []StoreIsPublished`
* `CacheStaysCurrent`: `Spec => []CacheIsCurrent`
* `RequestsAreNotLost`: `Spec => []NoLostRequest`
* `Refinement`: `Spec => BD!Spec`, a sockdrive implements `BlockDevice`
* `WaitsAreJustified`: with fewer failures than one load has tries and no body that
  broke off, the range the guest waits for is under way or in its cache, which is
  the safety that `ReadReturns` rests on
* `DriveUsesStore`: `Spec => RS!Spec`, a sockdrive uses its store as `RangeStore` allows
* `ProgressStaysTrue`: `Spec => []ProgressIsTrue`, unless the preload mode is "all"
* `ProgressEndsAtHalf`: in that mode, twice what was read never passes what is
  expected, and reaches it when everything is loaded

`ConstantsAssumption` says that ranges are finite in number, that a dropped
range is published as zeros, that the special values are none of the proper
ones, and the types of the rest.

The argument.  Neither the cache nor the refinement property is inductive.
What the guest reads comes from `written`, from `empty` or from `cache`; that it
is the current sector needs that every written sector is also in
`storedSectors`, that an empty range has no sector there that was not written
since (so zeros are right), that the store holds published ranges (or a load
from the store would overlay the wrong base), and that outside a session the
maps of the session are blank.  `IInv` is the conjunction of those with the type
invariant and, for `NoLostRequest`, the fact that every loaded range is under
way, settled or sealed.  It is shown to hold initially and to be preserved by
every action, one step per action; the properties follow from it, and the
refinement uses it in the step of each action.  Nothing in it says that a range of
`storeKeys` is in the store: ranges come and go there, and all that is needed is that
whatever it holds is published.

`WaitsAreJustified` adds the tries (`LostInv`): those a load has left and the failures
so far are together at least as many as it started with, so that a load that is given up
either had all of them fail or lost its answer while reading it.

The progress needs one more invariant (`ProgressInv`), which counts: `readCount` is
the number of loads that are over (`Settled`), and `total` is what it was when the
drive was opened, a function of the ranges that are loaded without a load
(`Sealed`), which stay the same for the session (`TotalCounts`: every other range
once, and in mode "all" twice).  A load that settles adds one range to `Settled`; a
batch adds those at hand, which are not in it as nothing is loaded twice.  The sums
are cardinalities of sets, so no induction over them is needed.

`NetworkProofs` proves, for every finite set of peers and every bound, from
`NetworkAssumption`:

* `NetworkTypeCorrect`: `Spec => []TypeOK`, with either transport
* `CallsAreNotLost`, `RefusalIsJustified`: `Spec => []NoLostCall`,
  `Spec => []RefusedOnlyWhileBusy`, with a worker (`~Direct`)
* `SettledStaysOver`: `Spec => []SettledIsOver`, with a worker

The first two hold whatever the guest does; the invariant (`CallInv`) adds to
them that only one of the two promises is pending and that a connect message
names a server, without which a handled message would leave no request.  For
the third, `OneThing` says that a message, a request and an answer exclude
each other and are at most one, and `Belongs` that what there is belongs to the
promise that is set; taking the answer then leaves nothing.  With `Direct` the
violated run shows that `RefusedOnlyWhileBusy` has no proof.

`LinkStaysRegistered` (`Spec => []LinkIsRegistered`) and `FirstConnectStaysSafe`
(`Spec => []FirstConnectIsSafe`) hold with either transport.  Their invariant
(`LinkInv`) says what is in the buffers: as long as no registration timed out, the
answers on their way and in `inbox` are of the server that is being asked, and
that server has registered the machine (`AckInv`); before a connection ended,
packets come from the server of the connection only (`PacketInv`), so that none is
met in a registration (`InboxInv`).

`CommandInterfaceProofs` proves, for any callers, requests and bounds, from
`InterfaceAssumption`: `CommandTypeCorrect`, `WakeUpIsUnique` (`OneWakeUp`),
`AnswersAreSingle` (`OneAnswerPerPromise`), `CallersAreKept`
(`NobodyIsForgotten`) and `AbortIsFinal` (a machine that is `Dead` and asleep in an open
session stays so).  The invariant (`CommandInvariant`) counts: the messages of
the start are one until the machine runs, wake-ups are one while it sleeps, with
the interval as one of them, and at most one after an abort, and requests and answers of a field are one exactly
while its promise is pending.  `NobodyIsForgotten` alone is not inductive: that the
answer of a field without promise cannot come needs those counts.  `AbortIsFinal` needs
one more (`TellInv`): of what ends or starts a session, `ws-exit` comes only from a
machine that is done, and `ws-server-ready` once.

`OpfsStoreProofs` proves, for any set of ranges, from `OpfsAssumption`:
`StoreTypeCorrect`; and, with at most one small range (`AtMostOneSmall`),
`StoredBlocksAreOwn` (`IndexedBlocksAreOwn`), `StoredPutsSurvive`
(`FinishedPutsSurvive`) and `StoreLosesAtMostOne` (`LosesAtMostOne`).  The restriction
is needed: `opfs_refill` refutes the invariant with two.  The invariant (`IInv`)
says that, until a write failed, both files are a prefix of entries that fit each
other, one more block at most, and that index, `finished`, sizes, the operation
under way and the puts that wait agree with them (`Ordered`, for the number of
complete entries).

On the same invariant rest, also with at most one small range, `StoreRefinement`
(`Spec => IsRangeStore`) and `ReadsAreOfTheStore` (`Spec => []GetsWhatIsStored`).  By
the invariant, what `loadIndex` computes from the files points at the one entry of
each range (`LoadIndexAt`), so that `Stored` gives every range whole or not at all,
and is known from the set of the ranges that are held (`HeldSet`).  That set grows
while a session is open, by the range whose block and entry are both written, in
either order; it shrinks only when a session opens and empties the files; and the end
of a session changes nothing, wherever it cuts a put (`HeldStep`).  These are the
steps of `RangeStore`.  With `DriveUsesStore` they make up the interface of the two
modules: the drive expects no more than `RangeStore`, and the files give it until an
asynchronous write fails, or with two small ranges.

`DebugMcpProofs` proves, for any limits and number of lines, from `DebugAssumption`:
`DebugTypeCorrect`, `RequestsAreWhole` (`WholeRequests`), `AnswersStayInOrder`
(`AnswersInOrder`), `ClientIsNotStranded` (`NeverStranded`).  The invariant adds that
the buffer holds pieces of the line the controller is in, that the requests that
wait are whole and in order, and that all of them are later than every answer that
waits or was sent.

`FileTransferProofs` proves, for any names, writes, chunks and upload, from
`TransferAssumption`: `TransferTypeCorrect`, `ChunksStaySingle` (`OneChunkPerName`),
`FilesAreWhole` (`WholeFiles`) and `ReadsGiveSnapshots` (`ReadsAreSnapshots`).  Three
invariants build on each other.  `MsgInv`: the chunk on its way is the last one that
the write of its promise sent, and there is one for each promise, under way or
acknowledged; the counts of messages by kind and name change by one
(`CountPosted`, `CountTaken`).  `WholeInv`: of a name that is not `mixed` one write at
most is unfinished, the worker holds exactly its chunks up to the one on its way,
and the last chunk is acknowledged only when the file is there.  `ReadInv`: a read
has at most one request or end under way, its content comes before its end and was
seen, and the parts received are none or that content.

`KeyEventsProofs` proves, for any keys, widths and bounds, from `KeyAssumption`:

* `KeysTypeCorrect`: `Spec => []TypeOK`, with presses and releases taking turns
* `PressesStayHeld`: `Spec => PressesAreHeld`
* `KeysBecomeDue`: as long as no time went back, the next key is due within the
  client's time and one `Hold`, the safety that `KeysGetThrough` rests on
* `StuckForGood`: once a key is due later than that, no key goes down or up any more

The assumption that matters is that the client's times stay below half of `Width`,
as milliseconds do in 64 bits.  The invariant has five parts.  `TurnsInv`: queue and
messages together take turns from what the programs see to the client's matrix.
`HeldInv`: for a key that is down alone, its age, the time until the next key is due
and the distance of that key's time to the release's make up what the client saw, or
`Hold`; that is what `DoKeyEvents`, a millisecond and a message each keep.  `DueInv`:
while no time went back the times in the queue are in order, so that each difference
is the distance of two times.  `StuckInv`: a distance that went below zero is beyond
half of `Width`, and the key it belongs to is still in the queue.

Model-checked only:

* liveness (fairness and `ENABLED` are beyond the prover): `ReadReturns`,
  `PreloadEnds`, `PutsGetTheirTurn`, `CallsAreAnswered`, `ExitSettles`,
  `MachineKeepsRunning`, `CallsSettle`, `WritesSettle`, `Connects`, `KeysGetThrough`.

Every invariant and every action property of the passing runs is a theorem, under the
conditions named above.

## 5. Plan

Done: `BlockDevice`, `RangeStore`, `Sockdrive`, `OpfsStore`, `CommandInterface`, `Network`,
`FileTransfer`, `DebugMcp` and `KeyEvents`, and the proofs of all their safety
properties that the prover reaches.  What would come next, in this order:

1. The server's side of IPX (`jsdos-ipxserver.cpp`): its table of machines, whose
   slots are never freed, relay and `IPXNET STARTSERVER`; with two machines a
   composition of two `Network`s.
2. The audio worklet (rings, start threshold, underrun) and the event consumers of
   `ci-impl.ts`, with messages delayed until a consumer is there.
3. The queue of mouse events and the triggered events, once their handlers in the
   emulator's fork are modelled.
4. The cache of promises in `modules.ts`.
5. Range arithmetic of `rangecache.h` against that of `sockdrive.ts`, modulo 2^32.

## 6. Not modelled

The emulators, the zip library, SDL and HumbleNet are third-party code, and most of
the files under `src/native` are forks of theirs or data.  Bundles and
configuration are built in one call from their inputs.  LZ4 coding, sample
conversion and rendering are computations on bytes and floating point numbers
that say nothing about order or failure.  The mouse driver (`jsdos-mouse.cpp`) is
DOSBox's with small changes; two hazards that come from them are listed.  Of IPX,
the sockets and control blocks inside the guest and `IPXNET PING` are left out.  Of
the debugger protocol, the words of requests and the dumps of memory are, which
keep no state.  Of the modelled parts, several drives at once, mounting a drive
twice in a session, locks held by other tabs, files that the program in the machine
writes while they are transferred, and responses with an error status whose body
is taken for data are left out; the `hazards` in `PROJECT.json` say where they
bite.
