----------------------------- MODULE OpfsStore -----------------------------
(***************************************************************************)
(* The persistent store of fetched ranges (OpfsStore of                     *)
(* src/sockdrive/sockdrive-store.ts): an append-only file of blocks         *)
(* (_block), an append-only file of entries (_meta) that says which range   *)
(* each block holds, and an index in memory.  A session may end between any *)
(* two writes; the next one rebuilds the index from what the files hold.    *)
(*                                                                         *)
(* Sizes and offsets count blocks, and entries, rather than bytes: the code *)
(* moves both files on together, by one block and one entry.  The content   *)
(* of a block is named by the range it belongs to.                          *)
(***************************************************************************)
EXTENDS Naturals, Sequences, FiniteSets, SequencesExt

CONSTANTS
  Key,         \* the ranges that can be stored
  First,       \* range 0, which an entry of zeros names
  Small,       \* info.small_ranges of the drive that uses the store
  Modes,       \* {"sync"}: in a worker; {"async"}: on the main thread; or both
  NoOffset,    \* no entry in the index
  Idle,        \* no put is writing (asyncOpPromise is null)
  Hole         \* a block nobody wrote

ASSUME OpfsAssumption ==
  /\ IsFiniteSet(Key)
  /\ First \in Key
  /\ Small \subseteq Key
  /\ Modes \subseteq {"sync", "async"}
  /\ NoOffset \notin Nat
  /\ Hole \notin Key
  /\ Idle \notin [key : Key, at : Nat, block : BOOLEAN, entry : BOOLEAN]

VARIABLES
  blocks,      \* the file _block: the range each block holds
  meta,        \* the file _meta: entries [key, offset]
  mode,        \* "closed", or how this session accesses the files
  index,       \* index
  size,        \* blockSize and metaSize, in blocks and in entries
  waiting,     \* puts that wait for asyncOpPromise, in the order of their calls
  op,          \* the put that is writing, or Idle
  finished,    \* history: ranges put since the files were last emptied
  faulted      \* history: did an asynchronous write fail, or end with its session?

vars == <<blocks, meta, mode, index, size, waiting, op, finished, faulted>>

Busy == op # Idle

NoIndex == [k \in Key |-> NoOffset]
Indexed == {k \in Key : index[k] # NoOffset}

Init ==
  /\ blocks = <<>>
  /\ meta = <<>>
  /\ mode = "closed"
  /\ index = NoIndex
  /\ size = 0
  /\ waiting = <<>>
  /\ op = Idle
  /\ finished = {}
  /\ faulted = FALSE

----------------------------------------------------------------------------

\* The number of blocks of the file that have an entry.
Complete == IF Len(meta) < Len(blocks) THEN Len(meta) ELSE Len(blocks)

\* loadIndex: entries are read in order, so the last one of a range counts.
LoadIndex ==
  [k \in Key |->
    LET places == {i \in 1 .. Complete : meta[i].key = k}
    IN  IF places = {} THEN NoOffset
        ELSE meta[CHOOSE i \in places : \A j \in places : j <= i].offset]

\* Mutant: only files that match exactly are used.
KeepsMatching == meta # <<>> /\ Len(blocks) > 1 /\ Len(blocks) = Len(meta)

\* init() empties the files when it cannot use them, and also when they hold a
\* single block: the size of _block has to exceed one block.
Keeps == meta # <<>> /\ Len(blocks) > 1

\* Mutant: blockSize and metaSize are not restored.
LoadedSizeForgotten(idx) == 0

\* Mutant: the next block goes after the last one of the file.
LoadedSizeOfBlocks(idx) == IF Keeps THEN Len(blocks) ELSE 0

\* Where loadIndex lets the files end: the number of ranges in the index.
LoadedSize(idx) == Cardinality({k \in Key : idx[k] # NoOffset})

\* The drive stores the small ranges together unless it finds all of them.
Refill(idx) == IF \A k \in Small : idx[k] # NoOffset THEN <<>> ELSE SetToSeq(Small)

Open(m) ==
  LET idx == IF Keeps THEN LoadIndex ELSE NoIndex
  IN  /\ mode = "closed"
      /\ mode' = m
      /\ index' = idx
      /\ size' = LoadedSize(idx)
      /\ waiting' = Refill(idx)
      /\ IF Keeps THEN UNCHANGED <<blocks, meta, finished>>
         ELSE blocks' = <<>> /\ meta' = <<>> /\ finished' = {}
      /\ UNCHANGED <<op, faulted>>

\* A drive fetched a range it did not find in the store and calls put.
PutCall(k) ==
  /\ mode # "closed"
  /\ index[k] = NoOffset
  /\ k \notin Range(waiting)
  /\ mode = "sync" => ~ Busy /\ waiting = <<>>
  /\ waiting' = Append(waiting, k)
  /\ UNCHANGED <<blocks, meta, mode, index, size, op, finished, faulted>>

\* blockSize, metaSize and the index after a put of k.
Extend(k) ==
  /\ index' = [index EXCEPT ![k] = size]
  /\ size' = size + 1

\* Mutant: a put does not wait for the one before it.
PutStartAtOnce ==
  /\ waiting # <<>>
  /\ op' = [key |-> Head(waiting), at |-> size, block |-> FALSE, entry |-> FALSE]
  /\ IF mode = "async" THEN Extend(Head(waiting)) ELSE UNCHANGED <<index, size>>
  /\ waiting' = Tail(waiting)
  /\ UNCHANGED <<blocks, meta, mode, finished, faulted>>

\* put gets past the wait for asyncOpPromise.  An asynchronous put claims the
\* end of the files before it has written anything.
PutStart ==
  /\ waiting # <<>>
  /\ ~ Busy
  /\ op' = [key |-> Head(waiting), at |-> size, block |-> FALSE, entry |-> FALSE]
  /\ IF mode = "async" THEN Extend(Head(waiting)) ELSE UNCHANGED <<index, size>>
  /\ waiting' = Tail(waiting)
  /\ UNCHANGED <<blocks, meta, mode, finished, faulted>>

\* A file after x was written at the 0-based position at; what a shorter file
\* lacks before that position reads as zeros.
WriteAt(file, at, x, zeros) ==
  [i \in 1 .. (IF Len(file) > at THEN Len(file) ELSE at + 1) |->
     IF i = at + 1 THEN x ELSE IF i <= Len(file) THEN file[i] ELSE zeros]

WriteBlock ==
  /\ Busy
  /\ ~ op.block
  /\ blocks' = WriteAt(blocks, op.at, op.key, Hole)
  /\ op' = [op EXCEPT !.block = TRUE]
  /\ UNCHANGED <<meta, mode, index, size, waiting, finished, faulted>>

\* Synchronous access writes the block first; asynchronous access writes both
\* files at the same time.
WriteEntry ==
  /\ Busy
  /\ ~ op.entry
  /\ mode = "sync" => op.block
  /\ meta' = WriteAt(meta, op.at, [key |-> op.key, offset |-> op.at], [key |-> First, offset |-> 0])
  /\ op' = [op EXCEPT !.entry = TRUE]
  /\ UNCHANGED <<blocks, mode, index, size, waiting, finished, faulted>>

\* Mutant: the size is moved on although the block or its entry is missing.
SyncWriteFailsExtended ==
  /\ Busy
  /\ mode = "sync"
  /\ ~ op.entry
  /\ Extend(op.key)
  /\ op' = Idle
  /\ UNCHANGED <<blocks, meta, mode, waiting, finished, faulted>>

\* The storage is full: a synchronous write throws out of put.
SyncWriteFails ==
  /\ Busy
  /\ mode = "sync"
  /\ ~ op.entry
  /\ op' = Idle
  /\ UNCHANGED <<blocks, meta, mode, index, size, waiting, finished, faulted>>

\* An asynchronous write fails: the failure is logged and the put goes on.
AsyncWriteFails ==
  /\ Busy
  /\ mode = "async"
  /\ \/ ~ op.block /\ op' = [op EXCEPT !.block = TRUE]
     \/ ~ op.entry /\ op' = [op EXCEPT !.entry = TRUE]
  /\ faulted' = TRUE
  /\ UNCHANGED <<blocks, meta, mode, index, size, waiting, finished>>

\* Mutant: asyncOpPromise is not cleared.
PutDoneUncleared ==
  /\ Busy
  /\ op.block
  /\ op.entry
  /\ finished' = finished \cup {op.key}
  /\ UNCHANGED <<blocks, meta, mode, index, size, waiting, op, faulted>>

\* Both files are written.
PutDone ==
  /\ Busy
  /\ op.block
  /\ op.entry
  /\ IF mode = "sync" THEN Extend(op.key) ELSE UNCHANGED <<index, size>>
  /\ op' = Idle
  /\ finished' = finished \cup {op.key}
  /\ UNCHANGED <<blocks, meta, mode, waiting, faulted>>

\* Mutant: a put goes on without the session.
SessionEndBusy ==
  /\ mode # "closed"
  /\ faulted' = (faulted \/ (mode = "async" /\ Busy))
  /\ mode' = "closed"
  /\ index' = NoIndex
  /\ size' = 0
  /\ waiting' = <<>>
  /\ UNCHANGED <<blocks, meta, op, finished>>

\* The worker is terminated or the page is left: only the files remain.
SessionEnd ==
  /\ mode # "closed"
  /\ faulted' = (faulted \/ (mode = "async" /\ Busy))
  /\ mode' = "closed"
  /\ index' = NoIndex
  /\ size' = 0
  /\ waiting' = <<>>
  /\ op' = Idle
  /\ UNCHANGED <<blocks, meta, finished>>

Write == PutStart \/ WriteBlock \/ WriteEntry \/ SyncWriteFails \/ AsyncWriteFails \/ PutDone

Next ==
  \/ \E m \in Modes : Open(m)
  \/ \E k \in Key : PutCall(k)
  \/ PutStart
  \/ WriteBlock
  \/ WriteEntry
  \/ SyncWriteFails
  \/ AsyncWriteFails
  \/ PutDone
  \/ SessionEnd

\* The event loop runs what is due; nobody has to open, put or leave.
Spec == Init /\ [][Next]_vars
LiveSpec == Spec /\ WF_vars(Write)

----------------------------------------------------------------------------
(* Properties.                                                              *)

Entry == [key : Key, offset : Nat]

\* The type invariant; between sessions nothing waits and nothing is written.
TypeOK ==
  /\ blocks \in Seq(Key \cup {Hole})
  /\ meta \in Seq(Entry)
  /\ mode \in Modes \cup {"closed"}
  /\ index \in [Key -> Nat \cup {NoOffset}]
  /\ size \in Nat
  /\ waiting \in Seq(Key)
  /\ mode = "closed" => index = NoIndex /\ waiting = <<>> /\ op = Idle
  /\ op \in {Idle} \cup [key : Key, at : Nat, block : BOOLEAN, entry : BOOLEAN]
  /\ finished \subseteq Key
  /\ faulted \in BOOLEAN

\* getSync and getAsync give the bytes of the range they were asked for: every
\* entry of the index points at a block of that range, whatever earlier
\* sessions left behind half written and whatever is being appended.  The drive
\* serves the block to the guest as disk content without any checksum.
IndexedBlocksAreOwn ==
  ~ faulted => \A k \in Indexed :
    \/ Busy /\ op.key = k
    \/ index[k] < Len(blocks) /\ blocks[index[k] + 1] = k

\* A range whose put finished is found again by every later session, up to the
\* one that empties the files.
FinishedPutsSurvive == mode # "closed" /\ ~ faulted => finished \subseteq Indexed

\* Emptying the files costs at most one range: torn writes of the last session
\* are no reason to fetch everything again.
LosesAtMostOne == [][faulted \/ finished \subseteq finished' \/ Cardinality(finished) <= 1]_finished

\* A put that waits for another one gets its turn unless the session ends,
\* though every waiting put is woken by the same promise and most sleep again.
PutsGetTheirTurn == \A k \in Key : k \in Range(waiting) ~> k \notin Range(waiting)

\* What the store holds of each range: what a session would find if it was opened
\* now, without the range that is being put.
Stored ==
  [k \in Key |-> IF LoadIndex[k] = NoOffset \/ (Busy /\ op.key = k /\ ~ (op.block /\ op.entry))
                   THEN Hole ELSE blocks[LoadIndex[k] + 1]]

RS == INSTANCE RangeStore WITH
  Image <- [k \in Key |-> k], Nothing <- Hole, store <- Stored, open <- mode # "closed"

\* Both files, with an index that is kept up to date in memory and rebuilt by the
\* next session, are the store that the drive was promised, up to an asynchronous
\* write that fails.
IsRangeStore == RS!Init /\ [][faulted' \/ RS!Next]_RS!svars

\* What get gives in a session is what the store holds.
GetsWhatIsStored ==
  ~ faulted /\ mode # "closed" => \A k \in Key :
    \/ Busy /\ op.key = k
    \/ Stored[k] = IF index[k] = NoOffset THEN Hole ELSE blocks[index[k] + 1]

\* sockdrive-store.ts:127 says init() validates that the size of the block file
\* matches the number of entries: what it takes for the end of the files is
\* where the last complete entry and its block end.
SizeMatchesEntries ==
  mode # "closed" /\ ~ faulted /\ waiting = <<>> /\ ~ Busy => size = Complete

============================================================================
