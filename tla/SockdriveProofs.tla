--------------------------- MODULE SockdriveProofs ---------------------------
(* Theorems about Sockdrive, for every image, every set of ranges and every   *)
(* number of failing requests.                                                *)
EXTENDS Sockdrive, FiniteSetTheorems, TLAPS

----------------------------------------------------------------------------
(* The inductive invariant.                                                  *)

\* Bookkeeping of the loads: one is started at most once, and has an attempt
\* left while it runs.
LoadsInv ==
  /\ \A r \in Ranges : load[r] \in {"none", "fetch"} => retries[r] # 0
  /\ \A r \in Ranges \ loaded : load[r] = "none"
  /\ \A r \in Ranges : load[r] = "fetch" => phase \in {"mounted", "closed"}

\* Without a mounted drive the native half holds nothing.
NativeInv ==
  phase # "mounted" =>
    /\ cache = [r \in Ranges |-> NoData]
    /\ written = [r \in Ranges |-> NoSectors]
    /\ reader = NoData
    /\ answer = NoData

\* Before the drive is opened the JavaScript half holds nothing; until it is
\* mounted only the ranges known to be zeros are loaded.
OpeningInv ==
  /\ phase \in {"off", "opening"} => loaded = {} /\ empty = {}
  /\ phase = "opened" => loaded = empty

\* What the guest wrote is in storedSectors, and a range taken for zeros has
\* nothing else in storedSectors.
WrittenInv ==
  phase \in {"opened", "mounted"} =>
    \A r \in Ranges, o \in Offsets :
      /\ written[r][o] # NoData => written[r][o] = stored[r][o]
      /\ written[r][o] = NoData /\ r \in empty => stored[r][o] = NoData

\* A loaded range is under way, lost for good or in the cache.
DeliveryInv ==
  phase = "mounted" =>
    /\ \A r \in loaded \ empty : load[r] \in {"fetch", "failed"} \/ cache[r] # NoData
    /\ \A r \in Ranges, o \in Offsets :
         reader = <<r, o>> => r \in loaded \ empty /\ written[r][o] = NoData

IInv ==
  /\ TypeOK
  /\ StoreIsPublished
  /\ LoadsInv
  /\ NativeInv
  /\ OpeningInv
  /\ WrittenInv
  /\ DeliveryInv
  /\ CacheIsCurrent

----------------------------------------------------------------------------
(* Facts about the helpers of the model.                                     *)

\* Laying changes over a buffer gives a buffer.
LEMMA MergeType ==
  ASSUME stored \in SectorMaps, NEW r \in Ranges, NEW data \in Buffer
  PROVE  /\ Merge(r, data) \in Buffer
         /\ Merge(r, data) # NoData
         /\ \A o \in Offsets : Merge(r, data)[o] =
              IF stored[r][o] # NoData THEN stored[r][o] ELSE data[o]
BY ConstantsAssumption DEF Merge, SectorMaps, Buffer

\* Opening may take ranges from the store, and puts that may fail add some: what
\* it then holds is published.
LEMMA StoreChanges ==
  ASSUME TypeOK, StoreIsPublished, NEW K, RS!Found \/ RS!Written(K, Base)
  PROVE  store' \in [Ranges -> Buffer \cup {NoData}] /\ StoreIsPublished'
BY ConstantsAssumption DEF RS!Found, RS!Written, TypeOK, StoreIsPublished

\* What is handed over without the network is the published range.
LEMMA ContentIsPublished ==
  ASSUME StoreIsPublished, NEW r \in Ranges, AtHand(r)
  PROVE  Content(r) = Base[r]
<1>1. CASE r \in Dropped
  <2>1. Base[r] \in [Offsets -> Values] /\ \A o \in Offsets : Base[r][o] = Zero
    BY <1>1, ConstantsAssumption DEF Buffer
  <2>2. Base[r] = [o \in Offsets |-> Zero]
    BY <2>1
  <2> QED BY <1>1, <2>2 DEF Content
<1>2. CASE r \notin Dropped
  BY <1>2 DEF Content, AtHand, StoreIsPublished
<1> QED BY <1>1, <1>2

\* The number of ranges is a number.
LEMMA RangesCount ==
  ASSUME NEW S, S \subseteq Ranges
  PROVE  Cardinality(S) \in Nat
BY ConstantsAssumption, FS_Subset, FS_CardinalityType

\* StartLoad moves ranges from "not loaded" to "under way" or, with the
\* published content under the changes, into the cache.
LEMMA StartLoadEffect ==
  ASSUME TypeOK, StoreIsPublished, NEW R \in SUBSET Ranges, StartLoad(R)
  PROVE  /\ loaded' = loaded \cup R
         /\ load' \in [Ranges -> {"none", "fetch", "done", "failed"}]
         /\ readCount' \in Nat
         /\ cache' \in [Ranges -> Buffer \cup {NoData}]
         /\ \A r \in Ranges \ R : load'[r] = load[r] /\ cache'[r] = cache[r]
         /\ \A r \in R : \/ load'[r] = "fetch" /\ cache'[r] = cache[r]
                         \/ load'[r] = "done" /\ phase = "closed" /\ cache'[r] = cache[r]
                         \/ load'[r] = "done" /\ cache'[r] = Merge(r, Base[r])
<1> DEFINE now == {r \in R : AtHand(r)}
<1>1. \A r \in now : Content(r) = Base[r]
  BY ContentIsPublished
<1>2. Cardinality(now) \in Nat
  BY RangesCount
<1>3. cache' = [r \in Ranges |-> IF r \in now /\ phase # "closed"
                               THEN Merge(r, Base[r]) ELSE cache[r]]
  BY <1>1 DEF StartLoad, NewRange
<1>4. \A r \in now : Merge(r, Base[r]) \in Buffer
  BY MergeType, ConstantsAssumption DEF TypeOK
<1>5. /\ load' = [r \in Ranges |-> IF r \in now THEN "done"
                                   ELSE IF r \in R THEN "fetch" ELSE load[r]]
      /\ readCount' = readCount + Cardinality(now)
      /\ loaded' = loaded \cup R
  BY DEF StartLoad
<1> QED BY <1>2, <1>3, <1>4, <1>5 DEF TypeOK

\* The step that starts loads (a batch, or the read of a missing range) keeps
\* the invariant of the cache and of the loads.
LEMMA StartLoadKeeps ==
  ASSUME IInv, NEW R \in SUBSET (Ranges \ loaded), StartLoad(R), phase' = "mounted",
         phase \in {"opened", "mounted"},
         UNCHANGED <<changes, store, storeKeys, stored, empty, retries, written>>
  PROVE  /\ LoadsInv'
         /\ WrittenInv'
         /\ CacheIsCurrent'
         /\ \A r \in loaded' \ empty' : load'[r] \in {"fetch", "failed"} \/ cache'[r] # NoData
<1> USE DEF IInv
<1>1. R \in SUBSET Ranges
  OBVIOUS
<1>2. /\ loaded' = loaded \cup R
      /\ \A r \in Ranges \ R : load'[r] = load[r] /\ cache'[r] = cache[r]
      /\ \A r \in R : \/ load'[r] = "fetch" /\ cache'[r] = cache[r]
                      \/ load'[r] = "done" /\ cache'[r] = Merge(r, Base[r])
  BY <1>1, StartLoadEffect
<1>3. \A r \in Ranges : /\ Merge(r, Base[r]) # NoData
                        /\ \A o \in Offsets : Merge(r, Base[r])[o] = Overlay(stored, r, o)
  BY MergeType, ConstantsAssumption DEF TypeOK, Overlay
<1>4. LoadsInv'
  BY <1>2 DEF LoadsInv
<1>5. WrittenInv'
  BY DEF WrittenInv
<1>6. CacheIsCurrent'
  <2> SUFFICES ASSUME NEW r \in Ranges, NEW o \in Offsets, cache'[r] # NoData,
                      written'[r][o] = NoData
               PROVE  cache'[r][o] = Overlay(stored, r, o)
    BY DEF CacheIsCurrent, Current, Overlay
  <2>1. CASE cache'[r] = Merge(r, Base[r])
    BY <2>1, <1>3
  <2>2. CASE cache'[r] = cache[r]
    BY <2>2 DEF CacheIsCurrent, Current, NativeInv
  <2> QED BY <1>2, <2>1, <2>2
<1>7. \A r \in loaded' \ empty' : load'[r] \in {"fetch", "failed"} \/ cache'[r] # NoData
  BY <1>2, <1>3 DEF DeliveryInv, OpeningInv, TypeOK
<1> QED BY <1>4, <1>5, <1>6, <1>7

----------------------------------------------------------------------------
(* Every step keeps the invariant.                                           *)

LEMMA InitInv == Init => IInv
<1> SUFFICES ASSUME Init PROVE IInv
  OBVIOUS
<1>1. TypeOK
  BY ConstantsAssumption DEF Init, Blank, TypeOK, SectorMaps, NoSectors
<1> QED BY <1>1, ConstantsAssumption DEF Init, Blank, IInv, StoreIsPublished, LoadsInv, NativeInv,
          OpeningInv, WrittenInv, DeliveryInv, CacheIsCurrent

LEMMA OpenDoneInv == IInv /\ OpenDone => IInv'
<1> SUFFICES ASSUME IInv, OpenDone PROVE IInv'
  OBVIOUS
<1> DEFINE sealed == {r \in Dropped : ~ HasSectors(changes, r)}
<1> USE DEF IInv
<1>1. sealed \subseteq Ranges /\ QueueOf(sealed) \subseteq Ranges
  BY ConstantsAssumption DEF QueueOf
<1>2. TotalOf(sealed) \in Nat
  BY <1>1, RangesCount DEF TotalOf
<1>3. store' \in [Ranges -> Buffer \cup {NoData}] /\ StoreIsPublished'
  BY StoreChanges DEF OpenDone
<1>4. TypeOK'
  BY <1>1, <1>2, <1>3, ConstantsAssumption DEF OpenDone, TypeOK
<1>5. LoadsInv'
  BY DEF OpenDone, LoadsInv, OpeningInv
<1>6. NativeInv' /\ OpeningInv' /\ DeliveryInv' /\ CacheIsCurrent'
  BY DEF OpenDone, NativeInv, OpeningInv, DeliveryInv, CacheIsCurrent
<1>7. WrittenInv'
  BY ConstantsAssumption DEF OpenDone, NativeInv, WrittenInv, HasSectors, NoSectors
<1> QED BY <1>3, <1>4, <1>5, <1>6, <1>7

\* Steps that touch neither the cache nor the two maps of written sectors.
LEMMA OpenRequestInv == IInv /\ OpenRequest => IInv'
<1> SUFFICES ASSUME IInv, OpenRequest PROVE IInv'
  OBVIOUS
<1> USE DEF IInv
<1>1. store' \in [Ranges -> Buffer \cup {NoData}] /\ StoreIsPublished'
  BY StoreChanges DEF OpenRequest
<1> QED BY <1>1 DEF OpenRequest, jsVars, nativeVars, TypeOK, LoadsInv, NativeInv, OpeningInv,
                    WrittenInv, DeliveryInv, CacheIsCurrent

LEMMA OpenFailInv == IInv /\ OpenFail => IInv'
BY DEF IInv, OpenFail, jsVars, nativeVars, TypeOK, StoreIsPublished, LoadsInv, NativeInv,
       OpeningInv, WrittenInv, DeliveryInv, CacheIsCurrent

LEMMA PersistInv == IInv /\ Persist => IInv'
BY DEF IInv, Persist, jsVars, nativeVars, TypeOK, StoreIsPublished, LoadsInv, NativeInv,
       OpeningInv, WrittenInv, DeliveryInv, CacheIsCurrent, Current, Overlay

LEMMA DiscardInv == IInv /\ DiscardChanges => IInv'
<1> SUFFICES ASSUME IInv, DiscardChanges PROVE IInv'
  OBVIOUS
<1> USE DEF IInv
<1>1. TypeOK'
  BY DEF DiscardChanges, jsVars, nativeVars, TypeOK, SectorMaps, NoSectors
<1>2. StoreIsPublished' /\ LoadsInv' /\ NativeInv' /\ OpeningInv'
  BY DEF DiscardChanges, jsVars, nativeVars, StoreIsPublished, LoadsInv, NativeInv, OpeningInv
<1>3. WrittenInv' /\ DeliveryInv' /\ CacheIsCurrent'
  BY DEF DiscardChanges, jsVars, nativeVars, WrittenInv, DeliveryInv, CacheIsCurrent
<1> QED BY <1>1, <1>2, <1>3

LEMMA SessionEndInv == IInv /\ SessionEnd => IInv'
<1> SUFFICES ASSUME IInv, SessionEnd PROVE IInv'
  OBVIOUS
<1> USE DEF IInv
<1>1. TypeOK'
  BY ConstantsAssumption DEF SessionEnd, TypeOK, SectorMaps, NoSectors
<1>2. StoreIsPublished' /\ LoadsInv' /\ NativeInv' /\ OpeningInv'
  BY ConstantsAssumption DEF SessionEnd, StoreIsPublished, LoadsInv, NativeInv, OpeningInv
<1>3. WrittenInv' /\ DeliveryInv' /\ CacheIsCurrent'
  BY DEF SessionEnd, WrittenInv, DeliveryInv, CacheIsCurrent
<1> QED BY <1>1, <1>2, <1>3

LEMMA CloseInv == IInv /\ Close => IInv'
<1> SUFFICES ASSUME IInv, Close PROVE IInv'
  OBVIOUS
<1> USE DEF IInv
<1>1. TypeOK'
  BY DEF Close, jsVars, TypeOK, SectorMaps, NoSectors
<1>2. StoreIsPublished' /\ LoadsInv' /\ NativeInv' /\ OpeningInv'
  BY DEF Close, jsVars, StoreIsPublished, LoadsInv, NativeInv, OpeningInv
<1>3. WrittenInv' /\ DeliveryInv' /\ CacheIsCurrent'
  BY DEF Close, WrittenInv, DeliveryInv, CacheIsCurrent
<1> QED BY <1>1, <1>2, <1>3

\* The steps that start loads.
LEMMA MountInv == IInv /\ Mount => IInv'
<1> SUFFICES ASSUME IInv, Mount PROVE IInv'
  OBVIOUS
<1> USE DEF IInv
<1>1. PICK R \in SUBSET (queue \ loaded), skipped \in SUBSET (queue \cap loaded) :
        queue' = queue \ (R \cup skipped) /\ batch' = R /\ StartLoad(R)
  BY DEF Mount, LoadFromQueue
<1>2. R \in SUBSET (Ranges \ loaded)
  BY <1>1 DEF TypeOK
<1>3. /\ LoadsInv' /\ WrittenInv' /\ CacheIsCurrent'
      /\ \A r \in loaded' \ empty' : load'[r] \in {"fetch", "failed"} \/ cache'[r] # NoData
  BY <1>1, <1>2, StartLoadKeeps DEF Mount
<1>4. /\ loaded' = loaded \cup R /\ readCount' \in Nat
      /\ load' \in [Ranges -> {"none", "fetch", "done", "failed"}]
      /\ cache' \in [Ranges -> Buffer \cup {NoData}]
  BY <1>1, <1>2, StartLoadEffect
<1>5. TypeOK'
  BY <1>1, <1>2, <1>4 DEF Mount, TypeOK
<1>6. DeliveryInv'
  BY <1>3, ConstantsAssumption DEF Mount, NativeInv, DeliveryInv
<1>7. StoreIsPublished' /\ NativeInv' /\ OpeningInv'
  BY DEF Mount, StoreIsPublished, NativeInv, OpeningInv
<1> QED BY <1>3, <1>5, <1>6, <1>7

LEMMA NextBatchInv == IInv /\ NextBatch => IInv'
<1> SUFFICES ASSUME IInv, NextBatch PROVE IInv'
  OBVIOUS
<1> USE DEF IInv
<1>1. PICK R \in SUBSET (queue \ loaded), skipped \in SUBSET (queue \cap loaded) :
        queue' = queue \ (R \cup skipped) /\ batch' = R /\ StartLoad(R)
  BY DEF NextBatch, LoadFromQueue
<1>2. R \in SUBSET (Ranges \ loaded)
  BY <1>1 DEF TypeOK
<1>3. /\ loaded' = loaded \cup R /\ readCount' \in Nat
      /\ load' \in [Ranges -> {"none", "fetch", "done", "failed"}]
      /\ cache' \in [Ranges -> Buffer \cup {NoData}]
      /\ \A r \in Ranges \ R : load'[r] = load[r] /\ cache'[r] = cache[r]
  BY <1>1, <1>2, StartLoadEffect
<1>4. TypeOK'
  BY <1>1, <1>2, <1>3 DEF NextBatch, TypeOK
<1>5. StoreIsPublished' /\ OpeningInv'
  BY DEF NextBatch, StoreIsPublished, OpeningInv
<1>6. CASE phase = "mounted"
  <2>1. /\ LoadsInv' /\ WrittenInv' /\ CacheIsCurrent'
        /\ \A r \in loaded' \ empty' : load'[r] \in {"fetch", "failed"} \/ cache'[r] # NoData
    BY <1>1, <1>2, <1>6, StartLoadKeeps DEF NextBatch
  <2>2. DeliveryInv'
    BY <1>3, <1>6, <2>1 DEF NextBatch, DeliveryInv
  <2>3. NativeInv'
    BY <1>6 DEF NextBatch, NativeInv
  <2> QED BY <1>4, <1>5, <2>1, <2>2, <2>3
<1>7. CASE phase = "closed"
  <2>1. LoadsInv'
    BY <1>2, <1>3, <1>7 DEF NextBatch, LoadsInv
  <2>2. cache' = cache
    BY <1>1, <1>7 DEF StartLoad, NewRange, TypeOK
  <2>3. NativeInv' /\ WrittenInv' /\ DeliveryInv' /\ CacheIsCurrent'
    BY <1>7, <2>2 DEF NextBatch, NativeInv, WrittenInv, DeliveryInv, CacheIsCurrent
  <2> QED BY <1>4, <1>5, <2>1, <2>3
<1> QED BY <1>6, <1>7 DEF NextBatch

LEMMA ReadMissInv ==
  ASSUME IInv, NEW r \in Ranges, NEW o \in Offsets, ReadMiss(r, o)
  PROVE  IInv'
<1> USE DEF IInv
<1>1. {r} \ loaded \in SUBSET (Ranges \ loaded) /\ StartLoad({r} \ loaded)
  BY DEF ReadMiss
<1>2. /\ LoadsInv' /\ WrittenInv' /\ CacheIsCurrent'
      /\ \A x \in loaded' \ empty' : load'[x] \in {"fetch", "failed"} \/ cache'[x] # NoData
  BY <1>1, StartLoadKeeps DEF ReadMiss
<1>3. /\ loaded' = loaded \cup {r} /\ readCount' \in Nat
      /\ load' \in [Ranges -> {"none", "fetch", "done", "failed"}]
      /\ cache' \in [Ranges -> Buffer \cup {NoData}]
  BY <1>1, StartLoadEffect
<1>4. TypeOK'
  BY <1>3 DEF ReadMiss, TypeOK
<1>5. DeliveryInv'
  <2> SUFFICES ASSUME NEW x \in Ranges, NEW y \in Offsets, reader' = <<x, y>>
               PROVE  x \in loaded' \ empty' /\ written'[x][y] = NoData
    BY <1>2 DEF DeliveryInv
  <2>1. x = r /\ y = o
    BY DEF ReadMiss
  <2> QED BY <1>3, <2>1 DEF ReadMiss
<1>6. StoreIsPublished' /\ NativeInv' /\ OpeningInv'
  BY DEF ReadMiss, StoreIsPublished, NativeInv, OpeningInv
<1> QED BY <1>2, <1>4, <1>5, <1>6

\* The steps of a load on the network.
LEMMA FetchOkInv ==
  ASSUME IInv, NEW r \in Ranges, FetchOk(r)
  PROVE  IInv'
<1> USE DEF IInv
<1>1. /\ Merge(r, Base[r]) \in Buffer /\ Merge(r, Base[r]) # NoData
      /\ \A o \in Offsets : Merge(r, Base[r])[o] = Overlay(stored, r, o)
  BY MergeType, ConstantsAssumption DEF TypeOK, Overlay
<1>2. cache' = [cache EXCEPT ![r] = IF phase # "closed" THEN Merge(r, Base[r]) ELSE cache[r]]
  BY DEF FetchOk, NewRange, TypeOK
<1>3. phase \in {"mounted", "closed"}
  BY DEF FetchOk, LoadsInv
<1>4. TypeOK'
  <2>1. store' \in [Ranges -> Buffer \cup {NoData}]
    BY StoreChanges DEF FetchOk
  <2>2. cache' \in [Ranges -> Buffer \cup {NoData}]
    BY <1>1, <1>2 DEF TypeOK
  <2>3. /\ load' \in [Ranges -> {"none", "fetch", "done", "failed"}]
        /\ readCount' \in Nat
    BY DEF FetchOk, TypeOK
  <2> QED BY <2>1, <2>2, <2>3 DEF FetchOk, TypeOK
<1>5. StoreIsPublished' /\ LoadsInv' /\ OpeningInv'
  BY StoreChanges DEF FetchOk, TypeOK, LoadsInv, OpeningInv
<1>6. NativeInv' /\ WrittenInv' /\ DeliveryInv'
  BY <1>1, <1>2, <1>3 DEF FetchOk, TypeOK, NativeInv, WrittenInv, DeliveryInv
<1>7. CacheIsCurrent'
  <2> SUFFICES ASSUME phase = "mounted", NEW x \in Ranges, NEW o \in Offsets,
                      cache'[x] # NoData, written[x][o] = NoData
               PROVE  cache'[x][o] = Overlay(stored, x, o)
    BY DEF CacheIsCurrent, Current, Overlay, FetchOk
  <2>1. CASE x = r
    BY <1>1, <1>2, <2>1 DEF TypeOK
  <2>2. CASE x # r
    BY <1>2, <2>2 DEF CacheIsCurrent, Current
  <2> QED BY <2>1, <2>2
<1> QED BY <1>4, <1>5, <1>6, <1>7

LEMMA FetchFailInv ==
  ASSUME IInv, NEW r \in Ranges, FetchFail(r)
  PROVE  IInv'
<1> USE DEF IInv
<1>1. retries[r] \in 1 .. RetryLimit /\ retries[r] - 1 \in 0 .. RetryLimit
  BY ConstantsAssumption DEF FetchFail, TypeOK, LoadsInv
<1>2. TypeOK'
  <2>1. retries' \in [Ranges -> 0 .. RetryLimit]
    BY <1>1 DEF FetchFail, TypeOK
  <2>2. failures' \in Nat /\ readCount' \in Nat
    BY DEF FetchFail, TypeOK
  <2>3. load' \in [Ranges -> {"none", "fetch", "done", "failed"}]
    BY DEF FetchFail, TypeOK
  <2> QED BY <2>1, <2>2, <2>3 DEF FetchFail, TypeOK
<1>3. LoadsInv'
  BY <1>1, ConstantsAssumption DEF FetchFail, TypeOK, LoadsInv
<1>4. StoreIsPublished' /\ NativeInv' /\ OpeningInv' /\ WrittenInv' /\ CacheIsCurrent'
  BY DEF FetchFail, StoreIsPublished, NativeInv, OpeningInv, WrittenInv, CacheIsCurrent,
         Current, Overlay
<1>5. DeliveryInv'
  BY DEF FetchFail, TypeOK, DeliveryInv
<1> QED BY <1>2, <1>3, <1>4, <1>5

LEMMA FetchBreaksInv ==
  ASSUME IInv, NEW r \in Ranges, FetchBreaks(r)
  PROVE  IInv'
<1> USE DEF IInv
<1>1. TypeOK' /\ LoadsInv' /\ DeliveryInv'
  BY DEF FetchBreaks, TypeOK, LoadsInv, DeliveryInv
<1>2. StoreIsPublished' /\ NativeInv' /\ OpeningInv' /\ WrittenInv' /\ CacheIsCurrent'
  BY DEF FetchBreaks, StoreIsPublished, NativeInv, OpeningInv, WrittenInv, CacheIsCurrent,
         Current, Overlay
<1> QED BY <1>1, <1>2

\* The steps of the guest that start no load.
LEMMA ReadHitInv ==
  ASSUME IInv, NEW r \in Ranges, NEW o \in Offsets, ReadHit(r, o)
  PROVE  IInv'
<1> USE DEF IInv
<1>1. answer' \in [sector : Ranges \X Offsets, value : Values]
  BY ConstantsAssumption DEF ReadHit, Answer, TypeOK, SectorMaps, Buffer
<1>2. TypeOK'
  BY <1>1 DEF ReadHit, jsVars, TypeOK
<1> QED BY <1>2 DEF ReadHit, jsVars, StoreIsPublished, LoadsInv, NativeInv, OpeningInv,
                    WrittenInv, DeliveryInv, CacheIsCurrent, Current, Overlay

LEMMA ReadWakeInv ==
  ASSUME IInv, NEW r \in Ranges, NEW o \in Offsets, ReadWake(r, o)
  PROVE  IInv'
<1> USE DEF IInv
<1>1. answer' \in [sector : Ranges \X Offsets, value : Values]
  BY ConstantsAssumption DEF ReadWake, Answer, TypeOK, Buffer
<1>2. TypeOK'
  BY <1>1 DEF ReadWake, jsVars, TypeOK
<1>3. DeliveryInv'
  BY ConstantsAssumption DEF ReadWake, jsVars, DeliveryInv
<1> QED BY <1>2, <1>3 DEF ReadWake, jsVars, StoreIsPublished, LoadsInv, NativeInv, OpeningInv,
                          WrittenInv, CacheIsCurrent, Current, Overlay

LEMMA WriteInv ==
  ASSUME IInv, NEW r \in Ranges, NEW o \in Offsets, NEW v \in Values, Write(r, o, v)
  PROVE  IInv'
<1> USE DEF IInv
<1>1. \A x \in Ranges, y \in Offsets :
        /\ written'[x][y] = IF x = r /\ y = o THEN v ELSE written[x][y]
        /\ stored'[x][y] = IF x = r /\ y = o THEN v ELSE stored[x][y]
  BY DEF Write, TypeOK, SectorMaps
<1>2. TypeOK'
  BY DEF Write, TypeOK, SectorMaps
<1>3. StoreIsPublished' /\ LoadsInv' /\ NativeInv' /\ OpeningInv' /\ DeliveryInv'
  BY ConstantsAssumption DEF Write, StoreIsPublished, LoadsInv, NativeInv, OpeningInv, DeliveryInv
<1>4. WrittenInv'
  BY <1>1, ConstantsAssumption DEF Write, WrittenInv
<1>5. CacheIsCurrent'
  BY <1>1, ConstantsAssumption DEF Write, CacheIsCurrent, Current, Overlay
<1> QED BY <1>2, <1>3, <1>4, <1>5

LEMMA StepInv == IInv /\ [Next]_vars => IInv'
<1> SUFFICES ASSUME IInv, [Next]_vars PROVE IInv'
  OBVIOUS
<1>1. CASE JsNext
  BY <1>1, OpenDoneInv, OpenFailInv, NextBatchInv, FetchOkInv, FetchFailInv, FetchBreaksInv
  DEF JsNext
<1>2. CASE GuestNext
  <2>1. ASSUME NEW r \in Ranges, NEW o \in Offsets, NEW v \in GuestWrites[r], Write(r, o, v)
        PROVE  IInv'
    BY <2>1, WriteInv, ConstantsAssumption
  <2> QED BY <1>2, <2>1, OpenRequestInv, MountInv, CloseInv, ReadHitInv, ReadMissInv,
             ReadWakeInv DEF GuestNext
<1>3. CASE ClientNext
  BY <1>3, PersistInv, SessionEndInv, DiscardInv DEF ClientNext
<1>4. CASE UNCHANGED vars
  BY <1>4 DEF vars, IInv, TypeOK, StoreIsPublished, LoadsInv, NativeInv, OpeningInv, WrittenInv,
              DeliveryInv, CacheIsCurrent, Current, Overlay
<1> QED BY <1>1, <1>2, <1>3, <1>4 DEF Next

\* The invariant that the theorems below rest on, in every session.
THEOREM Invariance == Spec => []IInv
BY InitInv, StepInv, PTL DEF Spec

----------------------------------------------------------------------------
(* What the invariant shows.                                                 *)

\* Every variable of both halves keeps its type.
THEOREM TypeCorrect == Spec => []TypeOK
<1>1. IInv => TypeOK
  BY DEF IInv
<1> QED BY <1>1, Invariance, PTL

\* The store never holds anything but published ranges, however many sessions
\* with whatever changes used it.
THEOREM StoreStaysPublished == Spec => []StoreIsPublished
<1>1. IInv => StoreIsPublished
  BY DEF IInv
<1> QED BY <1>1, Invariance, PTL

\* The native cache never goes stale behind the guest's back.
THEOREM CacheStaysCurrent == Spec => []CacheIsCurrent
<1>1. IInv => CacheIsCurrent
  BY DEF IInv
<1> QED BY <1>1, Invariance, PTL

\* The guest sleeps only for a range that is under way, delivered, or lost to
\* a failure: no request is swallowed by the set of loaded ranges.
THEOREM RequestsAreNotLost == Spec => []NoLostRequest
<1>1. IInv => NoLostRequest
  <2> SUFFICES ASSUME IInv, reader # NoData PROVE NoLostRequest
    BY DEF NoLostRequest
  <2>1. PICK r \in Ranges, o \in Offsets : reader = <<r, o>>
    BY DEF IInv, TypeOK
  <2>2. phase = "mounted"
    BY DEF IInv, NativeInv
  <2> QED BY <2>1, <2>2 DEF IInv, DeliveryInv, NoLostRequest
<1> QED BY <1>1, Invariance, PTL

----------------------------------------------------------------------------
(* Which loads are lost.                                                     *)

\* A load that was given up had all its tries fail, or an answer broke off.
LostInv ==
  \A r \in Ranges :
    /\ retries[r] + failures >= RetryLimit
    /\ load[r] = "failed" => retries[r] = 0 \/ broken > 0

LEMMA LostStep == IInv /\ LostInv /\ [Next]_vars => LostInv'
<1> SUFFICES ASSUME IInv, LostInv, [Next]_vars PROVE LostInv'
  OBVIOUS
<1>1. /\ failures \in Nat /\ broken \in Nat /\ RetryLimit \in Nat
      /\ retries \in [Ranges -> 0 .. RetryLimit]
      /\ load \in [Ranges -> {"none", "fetch", "done", "failed"}]
  BY ConstantsAssumption DEF IInv, TypeOK
<1>2. ASSUME UNCHANGED <<retries, broken>>, failures' \in Nat, failures' >= failures,
             \A r \in Ranges : load'[r] = "failed" => load[r] = "failed"
      PROVE  LostInv'
  BY <1>1, <1>2 DEF LostInv
<1>3. ASSUME NEW R \in SUBSET Ranges, StartLoad(R), UNCHANGED <<retries, failures, broken>>
      PROVE  LostInv'
  <2>1. \A r \in Ranges : load'[r] = "failed" => load[r] = "failed"
    BY <1>3 DEF StartLoad
  <2> QED BY <1>1, <1>2, <1>3, <2>1
<1>4. CASE Mount \/ NextBatch
  <2>1. PICK R \in SUBSET (queue \ loaded) : StartLoad(R)
    BY <1>4 DEF Mount, NextBatch, LoadFromQueue
  <2>2. R \in SUBSET Ranges
    BY <2>1 DEF IInv, TypeOK
  <2> QED BY <1>3, <1>4, <2>1, <2>2 DEF Mount, NextBatch
<1>5. ASSUME NEW r \in Ranges, NEW o \in Offsets, ReadMiss(r, o) PROVE LostInv'
  BY <1>3, <1>5 DEF ReadMiss
<1>6. ASSUME NEW r \in Ranges, FetchFail(r) PROVE LostInv'
  <2>1. /\ failures' = failures + 1 /\ broken' = broken
        /\ retries' = [retries EXCEPT ![r] = @ - 1] /\ load[r] = "fetch"
        /\ \/ retries[r] > 1 /\ load' = load
           \/ retries[r] <= 1 /\ load' = [load EXCEPT ![r] = "failed"]
    BY <1>1, <1>6 DEF FetchFail
  <2>2. retries[r] >= 1
    BY <1>1, <2>1 DEF IInv, LoadsInv
  <2>3. ASSUME NEW x \in Ranges
        PROVE  /\ retries'[x] + failures' >= RetryLimit
               /\ load'[x] = "failed" => retries'[x] = 0 \/ broken' > 0
    <3>1. CASE x = r
      BY <1>1, <2>1, <2>2, <3>1 DEF LostInv
    <3>2. CASE x # r
      BY <1>1, <2>1, <3>2 DEF LostInv
    <3> QED BY <3>1, <3>2
  <2> QED BY <2>3 DEF LostInv
<1>7. ASSUME NEW r \in Ranges, FetchBreaks(r) PROVE LostInv'
  BY <1>1, <1>7 DEF FetchBreaks, LostInv
<1>8. ASSUME NEW r \in Ranges, FetchOk(r) PROVE LostInv'
  BY <1>1, <1>2, <1>8 DEF FetchOk
<1>9. CASE SessionEnd
  BY <1>1, <1>9 DEF SessionEnd, LostInv
<1>10. CASE \/ OpenRequest \/ OpenDone \/ OpenFail \/ Close \/ Persist \/ DiscardChanges
            \/ UNCHANGED vars
  BY <1>1, <1>2, <1>10 DEF OpenRequest, OpenDone, OpenFail, Close, Persist, DiscardChanges, vars,
                           jsVars, nativeVars
<1>11. ASSUME NEW r \in Ranges, NEW o \in Offsets,
              ReadHit(r, o) \/ ReadWake(r, o) \/ \E v \in GuestWrites[r] : Write(r, o, v)
       PROVE  LostInv'
  BY <1>1, <1>2, <1>11 DEF ReadHit, ReadWake, Write, jsVars
<1> QED BY <1>4, <1>5, <1>6, <1>7, <1>8, <1>9, <1>10, <1>11
        DEF Next, JsNext, GuestNext, ClientNext

\* Unless so many requests fail that one load can have had them all, or the body of
\* an answer breaks off, the guest only ever waits for a range that is under way or
\* in its cache.
WaitsForArrival ==
  failures < RetryLimit /\ broken = 0 /\ reader # NoData =>
    \E r \in Ranges, o \in Offsets : reader = <<r, o>> /\ (load[r] = "fetch" \/ cache[r] # NoData)

\* The core of ReadReturns: no order of failures, retries, preloading and sessions
\* makes a range unreachable with fewer failures than one load has tries.
THEOREM WaitsAreJustified == Spec => []WaitsForArrival
<1>1. Init => LostInv
  BY ConstantsAssumption DEF Init, Blank, LostInv
<1>2. Spec => [](IInv /\ LostInv)
  BY <1>1, InitInv, StepInv, LostStep, PTL DEF Spec
<1>3. ASSUME IInv, LostInv, NoLostRequest PROVE WaitsForArrival
  <2> SUFFICES ASSUME failures < RetryLimit, broken = 0, reader # NoData
               PROVE  \E r \in Ranges, o \in Offsets :
                        reader = <<r, o>> /\ (load[r] = "fetch" \/ cache[r] # NoData)
    BY DEF WaitsForArrival
  <2>1. PICK r \in Ranges, o \in Offsets :
          reader = <<r, o>> /\ (load[r] \in {"fetch", "failed"} \/ cache[r] # NoData)
    BY <1>3 DEF NoLostRequest
  <2>2. load[r] # "failed"
    BY <1>3, ConstantsAssumption DEF LostInv, IInv, TypeOK
  <2> QED BY <2>1, <2>2
<1>4. IInv /\ LostInv /\ NoLostRequest => WaitsForArrival
  BY <1>3
<1> QED BY <1>2, <1>4, RequestsAreNotLost, PTL

----------------------------------------------------------------------------
(* Refinement: the disk that BlockDevice promises.                           *)

DiskImage == [s \in Ranges \X Offsets |-> Current(s[1], s[2])]
SavedImage == [s \in Ranges \X Offsets |-> Overlay(changes, s[1], s[2])]

\* Steps that the guest cannot tell from none.
LEMMA Unseen ==
  ASSUME UNCHANGED <<changes, stored, answer>>,
         (phase \in {"opened", "mounted"}) = (phase' \in {"opened", "mounted"})
  PROVE  UNCHANGED <<DiskImage, SavedImage, answer>>
BY DEF DiskImage, SavedImage, Current, Overlay

\* What a read answers is the sector of the disk.
LEMMA ReadIsRead ==
  ASSUME IInv, NEW r \in Ranges, NEW o \in Offsets, ReadHit(r, o) \/ ReadWake(r, o)
  PROVE  BD!Read(<<r, o>>)
<1>1. phase = "mounted" /\ phase' = phase /\ UNCHANGED <<changes, stored>>
  BY DEF ReadHit, ReadWake, jsVars
<1>2. answer' = [sector |-> <<r, o>>, value |-> Current(r, o)]
  <2>1. CASE ReadHit(r, o)
    <3>1. CASE written[r][o] # NoData
      BY <1>1, <2>1, <3>1 DEF IInv, ReadHit, Answer, WrittenInv, Current, Overlay
    <3>2. CASE written[r][o] = NoData /\ r \in empty
      <4>1. stored[r][o] = NoData /\ Base[r][o] = Zero
        BY <1>1, <3>2, ConstantsAssumption DEF IInv, WrittenInv, TypeOK
      <4> QED BY <1>1, <2>1, <3>2, <4>1 DEF ReadHit, Answer, Current, Overlay
    <3>3. CASE written[r][o] = NoData /\ r \notin empty
      BY <1>1, <2>1, <3>3 DEF IInv, ReadHit, Answer, CacheIsCurrent, Current, Overlay
    <3> QED BY <3>1, <3>2, <3>3
  <2>2. CASE ReadWake(r, o)
    BY <1>1, <2>2 DEF IInv, ReadWake, Answer, DeliveryInv, CacheIsCurrent, Current, Overlay
  <2> QED BY <2>1, <2>2
<1>3. DiskImage[<<r, o>>] = Current(r, o)
  BY DEF DiskImage
<1>4. DiskImage' = DiskImage /\ SavedImage' = SavedImage
  BY <1>1 DEF DiskImage, SavedImage, Current, Overlay
<1> QED BY <1>2, <1>3, <1>4 DEF BD!Read, DiskImage, SavedImage

LEMMA WriteIsWrite ==
  ASSUME IInv, NEW r \in Ranges, NEW o \in Offsets, NEW v \in Values, Write(r, o, v)
  PROVE  BD!Write(<<r, o>>, v)
<1>1. phase = "mounted" /\ phase' = phase /\ UNCHANGED <<changes, answer>>
  BY DEF Write
<1>2. \A x \in Ranges, y \in Offsets :
        stored'[x][y] = IF <<x, y>> = <<r, o>> THEN v ELSE stored[x][y]
  BY DEF IInv, Write, TypeOK, SectorMaps
<1>3. v # NoData
  BY ConstantsAssumption
<1>4. DiskImage' = [DiskImage EXCEPT ![<<r, o>>] = v]
  <2>1. \A x \in Ranges, y \in Offsets :
          Current(x, y)' = IF <<x, y>> = <<r, o>> THEN v ELSE Current(x, y)
    BY <1>1, <1>2, <1>3 DEF Current, Overlay
  <2>2. \A s \in Ranges \X Offsets :
          DiskImage'[s] = IF s = <<r, o>> THEN v ELSE DiskImage[s]
    BY <2>1 DEF DiskImage
  <2> QED BY <2>2 DEF DiskImage
<1>5. SavedImage' = SavedImage
  BY <1>1 DEF SavedImage, Overlay
<1> QED BY <1>1, <1>4, <1>5 DEF BD!Write, DiskImage, SavedImage

LEMMA PersistIsPersist == Persist => BD!Persist
BY DEF Persist, jsVars, nativeVars, BD!Persist, Current, Overlay

LEMMA RevertIsRevert == IInv /\ (SessionEnd \/ Close) => BD!Revert
BY DEF IInv, NativeInv, SessionEnd, Close, jsVars, BD!Revert, Current, Overlay

LEMMA DiscardIsDiscard == DiscardChanges => BD!Discard
<1> SUFFICES ASSUME DiscardChanges PROVE BD!Discard
  OBVIOUS
<1>1. \A r \in Ranges, o \in Offsets : changes'[r][o] = NoData
  BY DEF DiscardChanges, NoSectors
<1>2. \A r \in Ranges, o \in Offsets : Current(r, o)' = Base[r][o] /\ Overlay(changes', r, o) = Base[r][o]
  BY <1>1 DEF DiscardChanges, Current, Overlay
<1> QED BY <1>2 DEF DiscardChanges, nativeVars, BD!Discard, Current, Overlay

LEMMA InitIsInit == Init => BD!Init
<1> SUFFICES ASSUME Init PROVE BD!Init
  OBVIOUS
<1>1. \A r \in Ranges, o \in Offsets : Current(r, o) = Base[r][o] /\ Overlay(changes, r, o) = Base[r][o]
  BY DEF Init, NoSectors, Current, Overlay
<1> QED BY <1>1 DEF Init, Blank, BD!Init

\* Loading, preloading and failing are invisible, and so is opening, because
\* the session starts with the changes the client kept.
LEMMA LoadingIsUnseen ==
  ASSUME IInv,
         \/ OpenRequest \/ OpenDone \/ OpenFail \/ Mount \/ NextBatch
         \/ \E r \in Ranges : FetchOk(r) \/ FetchFail(r) \/ FetchBreaks(r)
         \/ \E r \in Ranges, o \in Offsets : ReadMiss(r, o)
  PROVE  UNCHANGED <<DiskImage, SavedImage, answer>>
<1>1. CASE OpenDone
  BY <1>1 DEF OpenDone, DiskImage, SavedImage, Current, Overlay
<1>2. CASE OpenRequest \/ OpenFail
  BY <1>2, Unseen DEF OpenRequest, OpenFail, jsVars, nativeVars
<1>3. CASE Mount \/ NextBatch
  BY <1>3, Unseen DEF Mount, NextBatch
<1>4. ASSUME NEW r \in Ranges, FetchOk(r) \/ FetchFail(r) \/ FetchBreaks(r)
      PROVE  UNCHANGED <<DiskImage, SavedImage, answer>>
  BY <1>4, Unseen DEF FetchOk, FetchFail, FetchBreaks
<1>5. ASSUME NEW r \in Ranges, NEW o \in Offsets, ReadMiss(r, o)
      PROVE  UNCHANGED <<DiskImage, SavedImage, answer>>
  BY <1>5, Unseen DEF ReadMiss
<1> QED BY <1>1, <1>2, <1>3, <1>4, <1>5

LEMMA StepIsStep == IInv /\ [Next]_vars => [BD!Next]_(BD!dvars)
<1> SUFFICES ASSUME IInv, [Next]_vars PROVE [BD!Next]_(BD!dvars)
  OBVIOUS
<1>1. ASSUME UNCHANGED <<DiskImage, SavedImage, answer>>
      PROVE  [BD!Next]_(BD!dvars)
  BY <1>1 DEF BD!dvars, DiskImage, SavedImage
<1>2. CASE UNCHANGED vars
  BY <1>1, <1>2, Unseen DEF vars
<1>3. CASE JsNext
  BY <1>1, <1>3, LoadingIsUnseen DEF JsNext
<1>4. CASE GuestNext
  <2>1. ASSUME NEW r \in Ranges, NEW o \in Offsets, ReadHit(r, o) \/ ReadWake(r, o)
        PROVE  BD!Next
    BY <2>1, ReadIsRead DEF BD!Next
  <2>2. ASSUME NEW r \in Ranges, NEW o \in Offsets, NEW v \in GuestWrites[r], Write(r, o, v)
        PROVE  BD!Next
    BY <2>2, WriteIsWrite, ConstantsAssumption DEF BD!Next
  <2>3. CASE Close
    BY <2>3, RevertIsRevert DEF BD!Next
  <2> QED BY <1>1, <1>4, <2>1, <2>2, <2>3, LoadingIsUnseen DEF GuestNext
<1>5. CASE ClientNext
  BY <1>5, PersistIsPersist, RevertIsRevert, DiscardIsDiscard DEF ClientNext, BD!Next
<1> QED BY <1>2, <1>3, <1>4, <1>5 DEF Next

\* The guest sees a disk: for every image and every interleaving of guest,
\* loader, client and failures, Sockdrive implements BlockDevice.
THEOREM Refinement == Spec => IsBlockDevice
BY InitIsInit, StepIsStep, Invariance, PTL DEF Spec, IsBlockDevice, BD!Spec

----------------------------------------------------------------------------
(* The store: the drive relies on RangeStore, which OpfsStore implements, and  *)
(* on nothing else.                                                          *)

\* Putting some ranges is a put of the store.
LEMMA WrittenIsPut ==
  ASSUME NEW K \in SUBSET Ranges, RS!Written(K, Base), phase # "off", phase' # "off"
  PROVE  RS!Put
<1>1. PICK done \in SUBSET K :
        store' = [k \in Ranges |-> IF k \in done THEN Base[k] ELSE store[k]]
  BY DEF RS!Written
<1>2. done \in SUBSET Ranges
  OBVIOUS
<1> QED BY <1>1, <1>2 DEF RS!Put, RS!Written

LEMMA StoreStep == IInv /\ [Next]_vars => [RS!Next]_(RS!svars)
<1> SUFFICES ASSUME IInv, [Next]_vars PROVE [RS!Next]_(RS!svars)
  OBVIOUS
<1>1. CASE OpenRequest
  BY <1>1 DEF OpenRequest, RS!Next, RS!Open
<1>2. CASE OpenDone
  <2>1. PICK K \in SUBSET Ranges : RS!Written(K, Base)
    BY <1>2, ConstantsAssumption DEF OpenDone
  <2> QED BY <1>2, <2>1, WrittenIsPut DEF OpenDone, RS!Next
<1>3. ASSUME NEW r \in Ranges, FetchOk(r) PROVE RS!Next
  <2>1. phase # "off" /\ phase' = phase
    BY <1>3 DEF FetchOk, IInv, LoadsInv
  <2> QED BY <1>3, <2>1, WrittenIsPut DEF FetchOk, RS!Next
<1>4. CASE OpenFail \/ SessionEnd
  BY <1>4 DEF OpenFail, SessionEnd, RS!Next, RS!Close
<1>5. ASSUME store' = store, (phase' # "off") = (phase # "off")
      PROVE  UNCHANGED RS!svars
  BY <1>5 DEF RS!svars
<1>6. CASE NextBatch \/ Mount \/ Close \/ Persist \/ DiscardChanges \/ UNCHANGED vars
  BY <1>5, <1>6 DEF NextBatch, Mount, Close, Persist, DiscardChanges, vars
<1>7. ASSUME NEW r \in Ranges, FetchFail(r) \/ FetchBreaks(r) PROVE UNCHANGED RS!svars
  BY <1>5, <1>7 DEF FetchFail, FetchBreaks
<1>8. ASSUME NEW r \in Ranges, NEW o \in Offsets,
             ReadHit(r, o) \/ ReadMiss(r, o) \/ ReadWake(r, o) \/ \E v \in GuestWrites[r] : Write(r, o, v)
      PROVE  UNCHANGED RS!svars
  BY <1>5, <1>8 DEF ReadHit, ReadMiss, ReadWake, Write
<1> QED BY <1>1, <1>2, <1>3, <1>4, <1>6, <1>7, <1>8 DEF Next, JsNext, GuestNext, ClientNext

\* A drive puts only published ranges, in a session, and expects nothing of the
\* store but what RangeStore says: every behaviour of the drive is one of that
\* store, whose ranges may be gone when a session opens and whose puts may fail.
THEOREM DriveUsesStore == Spec => RS!Spec
<1>1. Init => RS!Init
  BY DEF Init, RS!Init
<1> QED BY <1>1, StoreStep, Invariance, PTL DEF Spec, RS!Spec

----------------------------------------------------------------------------
(* Progress: the bytes counted when the drive is opened and those counted by *)
(* the loads are the same ones.                                              *)

\* The loads that are over, and the ranges that are loaded without a load,
\* being known to be zeros.  Of the latter the native half has a copy as long
\* as it has the drive.
Settled == {r \in Ranges : load[r] \in {"done", "failed"}}
Sealed == {r \in loaded : load[r] = "none"}

\* Every load is counted when it is over, and once; what was expected of the
\* session is still what it would be if it were counted now.
ProgressInv ==
  /\ readCount = Cardinality(Settled)
  /\ phase \notin {"off", "opening"} => total = TotalOf(Sealed)
  /\ phase \in {"opened", "mounted"} => empty = Sealed

\* What is expected: every range that is not sealed, and in mode "all" twice.
LEMMA TotalCounts ==
  ASSUME NEW done, done \subseteq Ranges
  PROVE  TotalOf(done) = IF PreloadMode = "all" THEN 2 * Cardinality(Ranges \ done)
                         ELSE Cardinality(Ranges \ done)
<1>1. \A S \in SUBSET Ranges : IsFiniteSet(S) /\ Cardinality(S) \in Nat
  BY ConstantsAssumption, FS_Subset, FS_CardinalityType
<1>2. CASE PreloadMode = "all"
  <2>1. QueueOf(done) = Ranges \ done /\ PreloadMode # "default"
    BY <1>2 DEF QueueOf
  <2>2. TotalOf(done) = Cardinality(Ranges \ done) + Cardinality(Ranges \ (done \cup {}))
    BY <2>1 DEF TotalOf
  <2>3. Ranges \ (done \cup {}) = Ranges \ done /\ Cardinality(Ranges \ done) \in Nat
    BY <1>1
  <2> QED BY <1>2, <2>2, <2>3
<1>3. CASE PreloadMode = "default"
  <2> DEFINE listed == PreloadList \ done
             rest == Ranges \ (done \cup listed)
  <2>1. QueueOf(done) = listed
    BY <1>3, ConstantsAssumption DEF QueueOf
  <2>2. TotalOf(done) = Cardinality(listed) + Cardinality(rest)
    BY <1>3, <2>1 DEF TotalOf
  <2>3. listed \in SUBSET Ranges /\ rest \in SUBSET Ranges
    BY ConstantsAssumption
  <2>4. listed \cup rest = Ranges \ done /\ listed \cap rest = {}
    BY ConstantsAssumption
  <2>5. Cardinality(listed \cup rest) = Cardinality(listed) + Cardinality(rest) - Cardinality({})
    BY <1>1, <2>3, <2>4, FS_Union
  <2>6. Cardinality(listed) \in Nat /\ Cardinality(rest) \in Nat
    BY <1>1, <2>3
  <2>7. Cardinality(Ranges \ done) = Cardinality(listed) + Cardinality(rest) - 0
    BY <2>4, <2>5, FS_EmptySet
  <2>8. Cardinality(Ranges \ done) = Cardinality(listed) + Cardinality(rest)
    <3> HIDE DEF listed, rest
    <3> QED BY <2>6, <2>7
  <2> QED BY <1>3, <2>2, <2>8
<1>4. CASE PreloadMode \notin {"all", "default"}
  <2>1. QueueOf(done) = {}
    BY <1>4 DEF QueueOf
  <2>2. TotalOf(done) = Cardinality({}) + Cardinality(Ranges \ (done \cup {}))
    BY <1>4, <2>1 DEF TotalOf
  <2>3. Ranges \ (done \cup {}) = Ranges \ done /\ Cardinality(Ranges \ done) \in Nat
    BY <1>1
  <2> QED BY <1>4, <2>2, <2>3, FS_EmptySet
<1> QED BY <1>2, <1>3, <1>4

\* One more load is over.
LEMMA SettledGrows ==
  ASSUME IInv, NEW r \in Ranges, load[r] = "fetch", NEW s \in {"done", "failed"},
         load' = [load EXCEPT ![r] = s], loaded' = loaded
  PROVE  Cardinality(Settled') = Cardinality(Settled) + 1 /\ Sealed' = Sealed
<1>1. \A x \in Ranges : load'[x] = IF x = r THEN s ELSE load[x]
  BY DEF IInv, TypeOK
<1>2. Settled' = Settled \cup {r} /\ r \notin Settled
  BY <1>1 DEF Settled
<1>3. Sealed' = Sealed
  <2>1. \A x \in loaded : x \in Ranges
    BY DEF IInv, TypeOK
  <2> QED BY <1>1, <2>1 DEF Sealed
<1>4. IsFiniteSet(Settled)
  BY ConstantsAssumption, FS_Subset DEF Settled
<1> QED BY <1>2, <1>3, <1>4, FS_AddElement

\* Loads of ranges that were not loaded are started.
LEMMA ProgressOfStart ==
  ASSUME IInv, ProgressInv, NEW R \in SUBSET (Ranges \ loaded), StartLoad(R),
         UNCHANGED <<total, empty>>,
         phase \in {"opened", "mounted", "closed"}, phase' \in {"mounted", "closed"},
         phase' = "mounted" => phase \in {"opened", "mounted"}
  PROVE  ProgressInv'
<1> DEFINE now == {r \in R : AtHand(r)}
<1>1. /\ loaded' = loaded \cup R
      /\ readCount' = readCount + Cardinality(now)
      /\ \A r \in Ranges : load'[r] = IF r \in now THEN "done"
                                      ELSE IF r \in R THEN "fetch" ELSE load[r]
  BY DEF StartLoad
<1>2. \A r \in R : load[r] = "none"
  BY DEF IInv, LoadsInv
<1>3. Settled' = Settled \cup now /\ Settled \cap now = {}
  <2>1. \A r \in Ranges : r \in Settled' <=> r \in Settled \/ r \in now
    BY <1>1, <1>2 DEF Settled
  <2> QED BY <1>2, <2>1 DEF Settled
<1>4. Sealed' = Sealed
  <2>1. \A r : r \in Sealed' <=> r \in Sealed
    BY <1>1 DEF Sealed, IInv, TypeOK
  <2> QED BY <2>1
<1>5. IsFiniteSet(Settled) /\ IsFiniteSet(now)
  BY ConstantsAssumption, FS_Subset DEF Settled
<1>6. Cardinality(Settled') = Cardinality(Settled) + Cardinality(now)
  <2>1. Cardinality(Settled) \in Nat /\ Cardinality(now) \in Nat
    BY <1>5, FS_CardinalityType
  <2>2. Cardinality(Settled \cup now) = Cardinality(Settled) + Cardinality(now) - Cardinality({})
    BY <1>3, <1>5, FS_Union
  <2> QED BY <1>3, <2>1, <2>2, FS_EmptySet
<1> QED BY <1>1, <1>4, <1>6 DEF ProgressInv

LEMMA ProgressInit == Init => ProgressInv
<1> SUFFICES ASSUME Init PROVE ProgressInv
  OBVIOUS
<1>1. Settled = {}
  BY DEF Init, Blank, Settled
<1> QED BY <1>1, FS_EmptySet DEF Init, Blank, ProgressInv

LEMMA ProgressStep == IInv /\ ProgressInv /\ [Next]_vars => ProgressInv'
<1> SUFFICES ASSUME IInv, ProgressInv, [Next]_vars PROVE ProgressInv'
  OBVIOUS
<1>1. ASSUME UNCHANGED <<load, loaded, readCount, total, empty>>,
             phase' \notin {"off", "opening"} => phase \notin {"off", "opening"},
             phase' \in {"opened", "mounted"} => phase \in {"opened", "mounted"}
      PROVE  ProgressInv'
  BY <1>1 DEF ProgressInv, Settled, Sealed
<1>2. CASE OpenDone
  <2> DEFINE sealed == {r \in Dropped : ~ HasSectors(changes, r)}
  <2>1. /\ loaded' = sealed /\ empty' = sealed /\ total' = TotalOf(sealed)
        /\ UNCHANGED <<load, readCount>>
    BY <1>2 DEF OpenDone
  <2>2. \A r \in Ranges : load[r] = "none"
    BY <1>2 DEF OpenDone, IInv, OpeningInv, LoadsInv
  <2>3. sealed \subseteq Ranges
    BY ConstantsAssumption
  <2>4. Sealed' = sealed /\ Settled' = Settled
    BY <2>1, <2>2, <2>3 DEF Sealed, Settled
  <2> QED BY <2>1, <2>4 DEF ProgressInv
<1>3. CASE NextBatch
  <2>1. PICK R \in SUBSET (queue \ loaded) : StartLoad(R)
    BY <1>3 DEF NextBatch, LoadFromQueue
  <2>2. R \in SUBSET (Ranges \ loaded)
    BY <2>1 DEF IInv, TypeOK
  <2> QED BY <1>3, <2>1, <2>2, ProgressOfStart DEF NextBatch
<1>4. CASE Mount
  <2>1. PICK R \in SUBSET (queue \ loaded) : StartLoad(R)
    BY <1>4 DEF Mount, LoadFromQueue
  <2>2. R \in SUBSET (Ranges \ loaded)
    BY <2>1 DEF IInv, TypeOK
  <2> QED BY <1>4, <2>1, <2>2, ProgressOfStart DEF Mount
<1>5. ASSUME NEW r \in Ranges, NEW o \in Offsets, ReadMiss(r, o)
      PROVE  ProgressInv'
  <2>1. {r} \ loaded \in SUBSET (Ranges \ loaded)
    OBVIOUS
  <2> QED BY <1>5, <2>1, ProgressOfStart DEF ReadMiss
<1>6. ASSUME NEW r \in Ranges, FetchOk(r) \/ FetchFail(r) \/ FetchBreaks(r)
      PROVE  ProgressInv'
  <2>1. CASE UNCHANGED load
    BY <1>1, <1>6, <2>1 DEF FetchOk, FetchFail, FetchBreaks, IInv, TypeOK
  <2>2. CASE ~ UNCHANGED load
    <3>1. PICK s \in {"done", "failed"} : load' = [load EXCEPT ![r] = s]
      BY <1>6, <2>2 DEF FetchOk, FetchFail, FetchBreaks
    <3>2. /\ load[r] = "fetch" /\ readCount' = readCount + 1
          /\ UNCHANGED <<phase, loaded, empty, total>>
      BY <1>6, <2>2 DEF FetchOk, FetchFail, FetchBreaks
    <3> QED BY <3>1, <3>2, SettledGrows DEF ProgressInv
  <2> QED BY <2>1, <2>2
<1>7. CASE SessionEnd
  <2>1. Settled' = {}
    BY <1>7 DEF SessionEnd, Settled
  <2> QED BY <1>7, <2>1, FS_EmptySet DEF SessionEnd, ProgressInv
<1>8. CASE Close
  BY <1>8 DEF Close, jsVars, ProgressInv, Settled, Sealed
<1>9. CASE OpenRequest \/ OpenFail \/ Persist \/ DiscardChanges \/ UNCHANGED vars
  BY <1>1, <1>9 DEF OpenRequest, OpenFail, Persist, DiscardChanges, vars, jsVars, nativeVars
<1>10. ASSUME NEW r \in Ranges, NEW o \in Offsets,
              ReadHit(r, o) \/ ReadWake(r, o) \/ \E v \in GuestWrites[r] : Write(r, o, v)
       PROVE  ProgressInv'
  BY <1>1, <1>10 DEF ReadHit, ReadWake, Write, jsVars
<1> QED BY <1>2, <1>3, <1>4, <1>5, <1>6, <1>7, <1>8, <1>9, <1>10
        DEF Next, JsNext, GuestNext, ClientNext

\* The counting invariant, in every session and every preload mode.
THEOREM ProgressInvariance == Spec => [](IInv /\ ProgressInv)
BY InitInv, StepInv, ProgressInit, ProgressStep, PTL DEF Spec

\* What was read is a part of what is not sealed, and all of it in the end.
LEMMA SettledCount ==
  ASSUME IInv, ProgressInv
  PROVE  /\ readCount \in Nat
         /\ Cardinality(Ranges \ Sealed) \in Nat
         /\ readCount <= Cardinality(Ranges \ Sealed)
         /\ phase \in {"off", "opening"} => readCount = 0
         /\ phase = "mounted" /\ (\A r \in Ranges \ empty : load[r] \in {"done", "failed"})
              => readCount = Cardinality(Ranges \ Sealed)
<1>1. IsFiniteSet(Ranges \ Sealed) /\ Settled \in SUBSET (Ranges \ Sealed)
  BY ConstantsAssumption, FS_Subset DEF Settled, Sealed
<1>2. readCount <= Cardinality(Ranges \ Sealed)
  BY <1>1, FS_Subset DEF ProgressInv
<1>3. readCount \in Nat /\ Cardinality(Ranges \ Sealed) \in Nat
  BY <1>1, FS_CardinalityType DEF IInv, TypeOK
<1>4. phase \in {"off", "opening"} => Settled = {}
  BY DEF IInv, OpeningInv, LoadsInv, Settled
<1>5. phase = "mounted" /\ (\A r \in Ranges \ empty : load[r] \in {"done", "failed"})
        => Settled = Ranges \ Sealed
  BY <1>1 DEF ProgressInv, Settled
<1> QED BY <1>2, <1>3, <1>4, <1>5, FS_EmptySet DEF ProgressInv

\* The progress of opening a drive never passes 100% and reaches it when every
\* range that has to be loaded settled, whoever asked for it first, unless
\* everything is preloaded.
THEOREM ProgressStaysTrue == PreloadMode # "all" => (Spec => []ProgressIsTrue)
<1> SUFFICES ASSUME PreloadMode # "all" PROVE Spec => []ProgressIsTrue
  OBVIOUS
<1>1. ASSUME IInv, ProgressInv PROVE ProgressIsTrue
  <2>1. Sealed \subseteq Ranges
    BY <1>1 DEF Sealed, IInv, TypeOK
  <2>2. phase \notin {"off", "opening"} => total = Cardinality(Ranges \ Sealed)
    BY <1>1, <2>1, TotalCounts DEF ProgressInv
  <2>3. total \in Nat
    BY <1>1 DEF IInv, TypeOK
  <2> QED BY <1>1, <2>2, <2>3, SettledCount DEF ProgressIsTrue
<1>2. IInv /\ ProgressInv => ProgressIsTrue
  BY <1>1
<1> QED BY <1>2, ProgressInvariance, PTL

\* In mode "all", which counts every range twice, the progress never passes
\* half of what is expected and stops exactly there.
ProgressIsHalf ==
  /\ 2 * readCount <= total
  /\ phase = "mounted" /\ (\A r \in Ranges \ empty : load[r] \in {"done", "failed"})
       => 2 * readCount = total

THEOREM ProgressEndsAtHalf == PreloadMode = "all" => (Spec => []ProgressIsHalf)
<1> SUFFICES ASSUME PreloadMode = "all" PROVE Spec => []ProgressIsHalf
  OBVIOUS
<1>1. ASSUME IInv, ProgressInv PROVE ProgressIsHalf
  <2>1. Sealed \subseteq Ranges
    BY <1>1 DEF Sealed, IInv, TypeOK
  <2>2. phase \notin {"off", "opening"} => total = 2 * Cardinality(Ranges \ Sealed)
    BY <1>1, <2>1, TotalCounts DEF ProgressInv
  <2>3. total \in Nat
    BY <1>1 DEF IInv, TypeOK
  <2> QED BY <1>1, <2>2, <2>3, SettledCount DEF ProgressIsHalf
<1>2. IInv /\ ProgressInv => ProgressIsHalf
  BY <1>1
<1> QED BY <1>2, ProgressInvariance, PTL

============================================================================
