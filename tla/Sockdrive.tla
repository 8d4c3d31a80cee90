----------------------------- MODULE Sockdrive -----------------------------
(***************************************************************************)
(* One sockdrive: a disk image published as a set of ranges on an HTTP      *)
(* server and mounted by the guest.  Three parts share the work:            *)
(*                                                                         *)
(*   - the native half (native/jsdos/sockdrive/sockdrive.cpp, rangecache.h) *)
(*     keeps the ranges it was given (cache) and the sectors the guest      *)
(*     wrote (written), and blocks the guest in sockdrive_read while a      *)
(*     range is missing;                                                    *)
(*   - the JavaScript half (src/sockdrive/sockdrive.ts) fetches ranges on   *)
(*     demand and in preload batches, each at most once, overlays the       *)
(*     sectors written in this and earlier sessions, and retries;           *)
(*   - the store (src/sockdrive/sockdrive-store.ts, modelled in OpfsStore)  *)
(*     keeps fetched ranges from one session to the next.                   *)
(*                                                                         *)
(* JavaScript and the guest share one thread: the guest gives way only in   *)
(* asyncify_sleep, so every action is one uninterrupted run of either side. *)
(***************************************************************************)
EXTENDS Naturals, FiniteSets

CONSTANTS
  Ranges,        \* the ranges of the image (0 .. info.range_count - 1)
  Offsets,       \* the sectors of a range, by their place in it
  Values,        \* what a sector can hold
  Zero,         \* a sector of zeros
  NoData,       \* "no entry" in a map of the code
  Base,         \* the published image, [Ranges -> [Offsets -> Values]]
  Dropped,      \* info.dropped_ranges of sockdrive.metaj: published as zeros
  Small,        \* info.small_ranges: fetched together as preload.raw
  PreloadMode,  \* "none", "default" or "all"
  PreloadList,  \* info.preload_ranges, used by "default"
  BatchSize,    \* BATCH_SIZE
  RetryLimit,   \* fetches tried before a range is given up
  GuestWrites,  \* bound of the model: what the guest writes to each range
  MaxFailures,  \* bound of the model: requests that fail in a behaviour
  MaxBroken     \* bound of the model: answers that break off in a behaviour

NoSectors == [o \in Offsets |-> NoData]
Buffer == [Offsets -> Values]

ASSUME ConstantsAssumption ==
  /\ Zero \in Values
  /\ NoData \notin Values
  /\ NoData \notin Buffer
  /\ NoData \notin Ranges \X Offsets
  /\ IsFiniteSet(Ranges)
  /\ Base \in [Ranges -> Buffer]
  /\ Dropped \subseteq Ranges
  /\ Small \subseteq Ranges
  /\ PreloadList \subseteq Ranges
  /\ \A r \in Dropped : \A o \in Offsets : Base[r][o] = Zero
  /\ BatchSize \in Nat \ {0}
  /\ RetryLimit \in Nat \ {0}
  /\ GuestWrites \in [Ranges -> SUBSET Values]
  /\ MaxFailures \in Nat
  /\ MaxBroken \in Nat

VARIABLES
  phase,        \* "off", "opening", "opened", "mounted" or "closed"
  changes,      \* the changes the client keeps between sessions (sockdriveChanges)
  store,        \* the ranges the store holds
  storeKeys,    \* storeKeys: the ranges looked up in the store this session
  stored,       \* storedSectors: sectors written in this and earlier sessions
  empty,        \* drive.emptyRanges of the native half
  loaded,       \* loaded: ranges nobody must load (again)
  queue,        \* loadQueue
  batch,        \* bach: the loads the preload loop waits for
  load,         \* how far loadRange got with each range
  retries,      \* attempts left in loadRange
  total,        \* rangesToLoad (info.sizeInBytes in ranges)
  readCount,    \* info.readInBytes in ranges
  cache,        \* driveCaches[handle]
  written,      \* writeCaches[handle]
  reader,       \* the sector sockdrive_read waits for, or NoData
  answer,       \* the sector last read and the bytes sockdrive_read gave
  failures,     \* failed requests so far (bound)
  broken        \* answers that broke off so far (bound)

jsVars == <<storeKeys, stored, loaded, queue, batch, load, retries, total, readCount>>
nativeVars == <<empty, cache, written, reader, answer>>
vars == <<phase, changes, store, storeKeys, stored, empty, loaded, queue, batch, load,
          retries, total, readCount, cache, written, reader, answer, failures, broken>>

----------------------------------------------------------------------------
(* The state of a session before the drive is opened.                       *)

Blank ==
  /\ storeKeys = {}
  /\ stored = [r \in Ranges |-> NoSectors]
  /\ empty = {}
  /\ loaded = {}
  /\ queue = {}
  /\ batch = {}
  /\ load = [r \in Ranges |-> "none"]
  /\ retries = [r \in Ranges |-> RetryLimit]
  /\ total = 0
  /\ readCount = 0
  /\ cache = [r \in Ranges |-> NoData]
  /\ written = [r \in Ranges |-> NoSectors]
  /\ reader = NoData
  /\ answer = NoData

Init ==
  /\ phase = "off"
  /\ changes = [r \in Ranges |-> NoSectors]
  /\ store = [r \in Ranges |-> NoData]
  /\ failures = 0
  /\ broken = 0
  /\ Blank

----------------------------------------------------------------------------
(* Opening and closing.                                                     *)

\* The store of ranges, as RangeStore promises it.
RS == INSTANCE RangeStore WITH
  Key <- Ranges, Image <- Base, Nothing <- NoData, open <- phase # "off"

\* sockdrive_open up to its first sleep: server_sockdrive_open was called, and
\* sockdrive() opens the store.
OpenRequest ==
  /\ phase = "off"
  /\ phase' = "opening"
  /\ RS!Found
  /\ UNCHANGED <<changes, jsVars, nativeVars, failures, broken>>

HasSectors(sectors, r) == \E o \in Offsets : sectors[r][o] # NoData

\* loadQueue once it is built: a list the model keeps as a set, since no
\* property depends on the order in which ranges are preloaded.
QueueOf(done) ==
  {r \in Ranges \ done : PreloadMode = "all" \/ (PreloadMode = "default" /\ r \in PreloadList)}

\* Mutant: the queued ranges are not counted.
TotalWithoutQueue(done) ==
  LET listed == IF PreloadMode = "default" THEN PreloadList \ done ELSE {}
  IN  Cardinality(Ranges \ (done \cup listed))

\* rangesToLoad: what is queued, and once more every range that is neither
\* done nor listed in preload_ranges.  Mode "all" lists nothing, so it counts
\* every range twice.
TotalOf(done) ==
  LET listed == IF PreloadMode = "default" THEN PreloadList \ done ELSE {}
  IN  Cardinality(QueueOf(done)) + Cardinality(Ranges \ (done \cup listed))

\* sockdrive() resolves and Module.onSockdriveOpened ends the native wait.  The
\* small ranges are fetched in one request unless the store has them all; they
\* are looked up in the store from then on, though their puts may fail.
OpenDone ==
  LET keys == {r \in Ranges : store[r] # NoData}
      refill == ~ (Small \subseteq keys)
      sealed == {r \in Dropped : ~ HasSectors(changes, r)}
  IN  /\ phase = "opening"
      /\ phase' = "opened"
      /\ RS!Written(IF refill THEN Small ELSE {}, Base)
      /\ storeKeys' = keys \cup Small
      /\ stored' = changes
      /\ empty' = sealed
      /\ loaded' = sealed
      /\ queue' = QueueOf(sealed)
      /\ total' = TotalOf(sealed)
      /\ UNCHANGED <<changes, batch, load, retries, readCount, cache, written, reader,
                     answer, failures, broken>>

\* A metadata request fails: the native half is told so, with a size of 0, and
\* sockdrive_open returns 0.
OpenFail ==
  /\ phase = "opening"
  /\ failures < MaxFailures
  /\ failures' = failures + 1
  /\ phase' = "off"
  /\ UNCHANGED <<changes, store, jsVars, nativeVars, broken>>

----------------------------------------------------------------------------
(* loadRange.  A dropped range and a range in the store are handed over in  *)
(* the call itself; any other waits for the network.                        *)

\* Mutants: the sectors of earlier sessions are not laid over the range, or are
\* taken for sectors the range does not have.
MergeNothing(r, data) == [o \in Offsets |-> data[o]]
MergeMissing(r, data) == [o \in Offsets |-> stored[r][o]]

Merge(r, data) == [o \in Offsets |-> IF stored[r][o] # NoData THEN stored[r][o] ELSE data[o]]

AtHand(r) == r \in Dropped \/ (r \in storeKeys /\ store[r] # NoData)

Content(r) == IF r \in Dropped THEN [o \in Offsets |-> Zero] ELSE store[r]

\* Mutant: a range nobody waits for yet is thrown away.
NewRangeWhenAsked(R, data) ==
  cache' = [r \in Ranges |-> IF r \in R /\ (\E o \in Offsets : reader = <<r, o>>)
                              THEN Merge(r, data[r]) ELSE cache[r]]

\* Module.onSockdriveNewRange: dropped once the drive has no cache any more.
NewRange(R, data) ==
  cache' = [r \in Ranges |-> IF r \in R /\ phase # "closed" THEN Merge(r, data[r]) ELSE cache[r]]

\* Mutant: readInBytes only counts ranges that came from the network.
StartLoadUncounted(R) ==
  LET now == {r \in R : AtHand(r)}
  IN  /\ loaded' = loaded \cup R
      /\ load' = [r \in Ranges |-> IF r \in now THEN "done"
                                  ELSE IF r \in R THEN "fetch" ELSE load[r]]
      /\ NewRange(now, [r \in now |-> Content(r)])
      /\ UNCHANGED readCount

\* The synchronous part of loadRange for every range of R.
StartLoad(R) ==
  LET now == {r \in R : AtHand(r)}
  IN  /\ loaded' = loaded \cup R
      /\ load' = [r \in Ranges |-> IF r \in now THEN "done"
                                  ELSE IF r \in R THEN "fetch" ELSE load[r]]
      /\ NewRange(now, [r \in now |-> Content(r)])
      /\ readCount' = readCount + Cardinality(now)

\* Mutant: a loaded range stays at the head of the queue.
LoadFromQueueUnpopped ==
  \E R \in SUBSET (queue \ loaded) :
    /\ Cardinality(R) <= BatchSize
    /\ Cardinality(R) < BatchSize => R = queue \ loaded
    /\ queue' = queue \ R
    /\ batch' = R
    /\ StartLoad(R)

\* A turn of loadFromQueue: it pops ranges, passes over those already loaded
\* and starts the others until BatchSize are started or the queue is empty.
LoadFromQueue ==
  \E R \in SUBSET (queue \ loaded), skipped \in SUBSET (queue \cap loaded) :
    /\ Cardinality(R) <= BatchSize
    /\ Cardinality(R) < BatchSize => R \cup skipped = queue
    /\ queue' = queue \ (R \cup skipped)
    /\ batch' = R
    /\ StartLoad(R)

\* sockdrive_open resumes: it makes the caches and calls ready().
Mount ==
  /\ phase = "opened"
  /\ phase' = "mounted"
  /\ LoadFromQueue
  /\ UNCHANGED <<changes, store, storeKeys, stored, empty, retries, total, written, reader,
                 answer, failures, broken>>

\* The whole batch has settled and loadFromQueue calls itself.
NextBatch ==
  /\ phase \in {"mounted", "closed"}
  /\ queue # {}
  /\ \A r \in batch : load[r] \in {"done", "failed"}
  /\ LoadFromQueue
  /\ UNCHANGED <<phase, changes, store, storeKeys, stored, empty, retries, total, written,
                 reader, answer, failures, broken>>

\* Mutant: the range is stored after the changes were laid over it.
FetchOkPutLate(r) ==
  /\ load[r] = "fetch"
  /\ RS!Written({r}, [x \in Ranges |-> Merge(x, Base[x])])
  /\ NewRange({r}, Base)
  /\ load' = [load EXCEPT ![r] = "done"]
  /\ readCount' = readCount + 1
  /\ UNCHANGED <<phase, changes, storeKeys, stored, empty, loaded, queue, batch, retries,
                 total, written, reader, answer, failures, broken>>

\* A fetch of loadRange(r) succeeds: the range goes to the store as published,
\* which may fail, and to the native half with the changes laid over it.
FetchOk(r) ==
  /\ load[r] = "fetch"
  /\ RS!Written({r}, Base)
  /\ NewRange({r}, Base)
  /\ load' = [load EXCEPT ![r] = "done"]
  /\ readCount' = readCount + 1
  /\ UNCHANGED <<phase, changes, storeKeys, stored, empty, loaded, queue, batch, retries,
                 total, written, reader, answer, failures, broken>>

\* Mutant: one retry too few.
FetchFailEarly(r) ==
  /\ load[r] = "fetch"
  /\ failures < MaxFailures
  /\ failures' = failures + 1
  /\ retries' = [retries EXCEPT ![r] = @ - 1]
  /\ IF retries[r] > 2
       THEN UNCHANGED <<load, readCount>>
       ELSE /\ load' = [load EXCEPT ![r] = "failed"]
            /\ readCount' = readCount + 1
  /\ UNCHANGED <<phase, changes, store, storeKeys, stored, empty, loaded, queue, batch, total,
                 cache, written, reader, answer, broken>>

\* It fails.  After the last try the error is logged and the load settles; the
\* range stays in loaded and the native half hears nothing.
FetchFail(r) ==
  /\ load[r] = "fetch"
  /\ failures < MaxFailures
  /\ failures' = failures + 1
  /\ retries' = [retries EXCEPT ![r] = @ - 1]
  /\ IF retries[r] > 1
       THEN UNCHANGED <<load, readCount>>
       ELSE /\ load' = [load EXCEPT ![r] = "failed"]
            /\ readCount' = readCount + 1
  /\ UNCHANGED <<phase, changes, store, storeKeys, stored, empty, loaded, queue, batch, total,
                 cache, written, reader, answer, broken>>

\* The request succeeds but reading its body does not.  response.arrayBuffer()
\* stands outside the retried part, so the load settles at once.
FetchBreaks(r) ==
  /\ load[r] = "fetch"
  /\ broken < MaxBroken
  /\ broken' = broken + 1
  /\ load' = [load EXCEPT ![r] = "failed"]
  /\ readCount' = readCount + 1
  /\ UNCHANGED <<phase, changes, store, storeKeys, stored, empty, loaded, queue, batch, retries,
                 total, cache, written, reader, answer, failures>>

----------------------------------------------------------------------------
(* The guest.                                                               *)

Answer(r, o, v) == answer' = [sector |-> <<r, o>>, value |-> v]

\* sockdrive_read, when it need not wait: its own writes first, then the
\* ranges known to be zeros, then the cache.
ReadHit(r, o) ==
  /\ phase = "mounted"
  /\ reader = NoData
  /\ \/ written[r][o] # NoData /\ Answer(r, o, written[r][o])
     \/ written[r][o] = NoData /\ r \in empty /\ Answer(r, o, Zero)
     \/ /\ written[r][o] = NoData
        /\ r \notin empty
        /\ cache[r] # NoData
        /\ Answer(r, o, cache[r][o])
  /\ UNCHANGED <<phase, changes, store, jsVars, empty, cache, written, reader, failures, broken>>

\* sockdrive_read misses: readRangeAsync loads the range unless it is loaded or
\* being loaded, and the guest sleeps either way.
ReadMiss(r, o) ==
  /\ phase = "mounted"
  /\ reader = NoData
  /\ written[r][o] = NoData
  /\ r \notin empty
  /\ cache[r] = NoData
  /\ reader' = <<r, o>>
  /\ StartLoad({r} \ loaded)
  /\ UNCHANGED <<phase, changes, store, storeKeys, stored, empty, queue, batch, retries, total,
                 written, answer, failures, broken>>

\* The loop of sockdrive_read finds the range in the cache.
ReadWake(r, o) ==
  /\ phase = "mounted"
  /\ reader = <<r, o>>
  /\ cache[r] # NoData
  /\ reader' = NoData
  /\ Answer(r, o, cache[r][o])
  /\ UNCHANGED <<phase, changes, store, jsVars, empty, cache, written, failures, broken>>

\* sockdrive_write and the write of the JavaScript half.
Write(r, o, v) ==
  /\ phase = "mounted"
  /\ reader = NoData
  /\ written' = [written EXCEPT ![r][o] = v]
  /\ stored' = [stored EXCEPT ![r][o] = v]
  /\ UNCHANGED <<phase, changes, store, storeKeys, empty, loaded, queue, batch, load, retries,
                 total, readCount, cache, reader, answer, failures, broken>>

\* ~SockDrive: the native half forgets the drive.  Loads that are under way go
\* on in the JavaScript half.
Close ==
  /\ phase = "mounted"
  /\ reader = NoData
  /\ phase' = "closed"
  /\ empty' = {}
  /\ cache' = [r \in Ranges |-> NoData]
  /\ written' = [r \in Ranges |-> NoSectors]
  /\ answer' = NoData
  /\ UNCHANGED <<changes, store, jsVars, reader, failures, broken>>

----------------------------------------------------------------------------
(* The client.                                                              *)

\* Mutant: only the sectors written in this session are kept.
PersistSession ==
  /\ phase \in {"opened", "mounted"}
  /\ changes' = written
  /\ UNCHANGED <<phase, store, jsVars, nativeVars, failures, broken>>

\* wc-persist-sockdrives: a registered drive gives every sector it holds, also
\* those of earlier sessions (null when there is none).
Persist ==
  /\ phase \in {"opened", "mounted"}
  /\ changes' = stored
  /\ UNCHANGED <<phase, store, jsVars, nativeVars, failures, broken>>

\* The worker is terminated, by exit or with the tab: only the store survives.
SessionEnd ==
  /\ phase # "off"
  /\ phase' = "off"
  /\ storeKeys' = {}
  /\ stored' = [r \in Ranges |-> NoSectors]
  /\ empty' = {}
  /\ loaded' = {}
  /\ queue' = {}
  /\ batch' = {}
  /\ load' = [r \in Ranges |-> "none"]
  /\ retries' = [r \in Ranges |-> RetryLimit]
  /\ total' = 0
  /\ readCount' = 0
  /\ cache' = [r \in Ranges |-> NoData]
  /\ written' = [r \in Ranges |-> NoSectors]
  /\ reader' = NoData
  /\ answer' = NoData
  /\ UNCHANGED <<changes, store, failures, broken>>

\* The user starts over without the changes of earlier sessions.
DiscardChanges ==
  /\ phase = "off"
  /\ changes' = [r \in Ranges |-> NoSectors]
  /\ UNCHANGED <<phase, store, jsVars, nativeVars, failures, broken>>

----------------------------------------------------------------------------

JsNext ==
  \/ OpenDone
  \/ OpenFail
  \/ NextBatch
  \/ \E r \in Ranges : FetchOk(r) \/ FetchFail(r) \/ FetchBreaks(r)

GuestNext ==
  \/ OpenRequest
  \/ Mount
  \/ Close
  \/ \E r \in Ranges, o \in Offsets :
       \/ ReadHit(r, o)
       \/ ReadMiss(r, o)
       \/ ReadWake(r, o)
       \/ \E v \in GuestWrites[r] : Write(r, o, v)

ClientNext == Persist \/ SessionEnd \/ DiscardChanges

Next == JsNext \/ GuestNext \/ ClientNext

Spec == Init /\ [][Next]_vars
----------------------------------------------------------------------------
(* Fairness.  The event loop runs every callback that is due, the guest      *)
(* runs whenever it is not asleep, and every request settles one way or the  *)
(* other.  Nobody is obliged to open, close, read, write or persist.         *)

Settle(r) == FetchOk(r) \/ FetchFail(r) \/ FetchBreaks(r)

Fairness ==
  /\ WF_vars(OpenDone \/ OpenFail)
  /\ WF_vars(Mount)
  /\ WF_vars(NextBatch)
  /\ \A r \in Ranges : WF_vars(Settle(r))
  /\ \A r \in Ranges, o \in Offsets : WF_vars(ReadWake(r, o))

LiveSpec == Spec /\ Fairness

----------------------------------------------------------------------------
(* Properties.                                                              *)

SectorMaps == [Ranges -> [Offsets -> Values \cup {NoData}]]

\* The type invariant of every variable of both halves.
TypeOK ==
  /\ phase \in {"off", "opening", "opened", "mounted", "closed"}
  /\ changes \in SectorMaps
  /\ store \in [Ranges -> Buffer \cup {NoData}]
  /\ storeKeys \subseteq Ranges
  /\ stored \in SectorMaps
  /\ empty \subseteq Dropped
  /\ loaded \subseteq Ranges
  /\ queue \subseteq Ranges
  /\ batch \subseteq Ranges
  /\ load \in [Ranges -> {"none", "fetch", "done", "failed"}]
  /\ retries \in [Ranges -> 0 .. RetryLimit]
  /\ total \in Nat
  /\ readCount \in Nat
  /\ cache \in [Ranges -> Buffer \cup {NoData}]
  /\ written \in SectorMaps
  /\ reader \in (Ranges \X Offsets) \cup {NoData}
  /\ answer \in [sector : Ranges \X Offsets, value : Values] \cup {NoData}
  /\ failures \in Nat
  /\ broken \in Nat

Overlay(sectors, r, o) == IF sectors[r][o] # NoData THEN sectors[r][o] ELSE Base[r][o]

\* The disk as the code spreads it over its maps: in a session the published
\* image under storedSectors, otherwise under the changes the client keeps.
Current(r, o) == Overlay(IF phase \in {"opened", "mounted"} THEN stored ELSE changes, r, o)

\* The shared store must hold ranges as published: sectors of one session's
\* changes that got into it would come back in a session opened without them.
\* loadRange hands the fetched buffer to store.put and then lays the changes
\* over it, so this is about the order of the two.
StoreIsPublished == \A r \in Ranges : store[r] \in {NoData, Base[r]}

\* A range in the native cache is what the guest must read wherever it has not
\* written itself, however loading, writing, persisting and preloading were
\* interleaved: sockdrive_read never looks at storedSectors again.
CacheIsCurrent ==
  phase = "mounted" =>
    \A r \in Ranges, o \in Offsets :
      cache[r] # NoData /\ written[r][o] = NoData => cache[r][o] = Current(r, o)

\* The guest never sleeps in sockdrive_read for a range nobody will deliver:
\* readRangeAsync ignores requests for ranges in loaded, so every such range
\* must be under way, in the cache, or have failed for good.
NoLostRequest ==
  reader # NoData => \E r \in Ranges, o \in Offsets :
    reader = <<r, o>> /\ (load[r] \in {"fetch", "failed"} \/ cache[r] # NoData)

\* The progress shown to the user (read of total in asyncifyStats) never passes
\* 100%: the bytes counted by loadRange stay within those counted when the drive
\* was opened, whoever asked for a range first; and it reaches 100% once every
\* range that is not known to be zeros settled, whether the preload loop or the
\* guest loaded it.
ProgressIsTrue ==
  /\ readCount <= total
  /\ phase = "mounted" /\ (\A r \in Ranges \ empty : load[r] \in {"done", "failed"})
       => readCount = total

\* What the guest reads is what a disk gives: the last write to the sector in
\* this session, else what was persisted last, else the published sector; and
\* a session starts from exactly what was persisted.
BD == INSTANCE BlockDevice WITH
  Sector <- Ranges \X Offsets,
  Value <- Values,
  Published <- [s \in Ranges \X Offsets |-> Base[s[1]][s[2]]],
  disk <- [s \in Ranges \X Offsets |-> Current(s[1], s[2])],
  saved <- [s \in Ranges \X Offsets |-> Overlay(changes, s[1], s[2])]

IsBlockDevice == BD!Spec

\* A guest that waits for a sector gets it, unless the session ends first.
ReadReturns == reader # NoData ~> reader = NoData

\* Preloading comes to an end, whatever the guest reads meanwhile.
PreloadEnds == phase = "mounted" ~> (queue = {} \/ phase \notin {"mounted", "closed"})

\* CHANGELOG.md (v8.4.0): a failed range request reports an error after the
\* final retry instead of leaving the emulator waiting indefinitely.
FailureIsReported ==
  \A r \in Ranges :
    (load[r] = "failed" /\ (\E o \in Offsets : reader = <<r, o>>)) ~> reader = NoData

============================================================================
