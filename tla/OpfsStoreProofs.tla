-------------------------- MODULE OpfsStoreProofs --------------------------
(* Theorems about OpfsStore, for any number of ranges and of sessions.       *)
EXTENDS OpfsStore, FiniteSetTheorems, TLAPS

----------------------------------------------------------------------------
(* The inductive invariant.                                                  *)

\* The number of puts that are complete: all that have an entry, but for the one
\* that is writing.
Done == IF mode = "closed" THEN Len(meta) ELSE IF Busy THEN op.at ELSE size

\* The first n blocks and entries belong together, each to a range of its own.
Files(n) ==
  /\ n <= Len(meta) /\ n <= Len(blocks) /\ Len(blocks) <= n + 1
  /\ \A i \in 1 .. n : meta[i].offset = i - 1 /\ blocks[i] = meta[i].key
  /\ \A i, j \in 1 .. n : meta[i].key = meta[j].key => i = j

\* The ranges whose puts finished are among the first n.
Kept(n) == \A k \in finished : \E i \in 1 .. n : meta[i].key = k

\* The index says of a range where its entry is.
Found(k, n) ==
  /\ \A i \in 1 .. n : meta[i].key = k <=> index[k] = i - 1
  /\ index[k] # NoOffset => index[k] + 1 \in 1 .. n

IndexInv(n) == mode # "closed" => \A k \in Key : (Busy /\ op.key = k) \/ Found(k, n)

\* The put that writes goes on at the end, with a range that is not there yet.
PutInv(n) ==
  Busy =>
    /\ \A i \in 1 .. n : meta[i].key # op.key
    /\ op.block => Len(blocks) = n + 1 /\ blocks[n + 1] = op.key
    /\ op.entry => Len(meta) = n + 1 /\ meta[n + 1] = [key |-> op.key, offset |-> n]
    /\ ~ op.entry => Len(meta) = n
    /\ mode = "sync" => (op.entry => op.block) /\ size = n /\ index[op.key] = NoOffset /\ waiting = <<>>
    /\ mode = "async" => size = n + 1 /\ index[op.key] = n

\* Those that wait are not there yet, and each waits once.
WaitInv ==
  /\ \A i \in DOMAIN waiting : index[waiting[i]] = NoOffset
  /\ \A i, j \in DOMAIN waiting : waiting[i] = waiting[j] => i = j
  /\ mode = "sync" => Len(waiting) <= 1

Ordered(n) ==
  /\ Files(n) /\ Kept(n) /\ IndexInv(n) /\ PutInv(n) /\ WaitInv
  /\ ~ Busy => Len(meta) = n

IInv == TypeOK /\ (~ faulted => \E n \in {Done} : Ordered(n))

\* The case that the theorems about the content are for; with two small ranges
\* the size of the files can be restored too small.
AtMostOneSmall == \A a, b \in Small : a = b

----------------------------------------------------------------------------
(* The invariant implies what the runs check.                                *)

LEMMA DoneType == TypeOK => Done \in Nat
BY DEF TypeOK, Done, Busy

LEMMA Implied ==
  ASSUME OpfsAssumption, IInv
  PROVE  TypeOK /\ IndexedBlocksAreOwn /\ FinishedPutsSurvive
<1>1. TypeOK /\ Done \in Nat
  BY DoneType DEF IInv
<1> PICK n \in Nat : ~ faulted => Ordered(n)
  BY <1>1 DEF IInv
<1>2. n \in Nat
  OBVIOUS
<1>3. ~ faulted => Ordered(n)
  OBVIOUS
<1>4. ASSUME ~ faulted, NEW k \in Indexed, ~ (Busy /\ op.key = k)
      PROVE  index[k] < Len(blocks) /\ blocks[index[k] + 1] = k
  <2>1. k \in Key /\ index[k] # NoOffset /\ index[k] \in Nat /\ mode # "closed"
    BY <1>1 DEF Indexed, TypeOK, NoIndex
  <2>2. Found(k, n) /\ Files(n)
    BY <1>3, <1>4, <2>1 DEF Ordered, IndexInv
  <2>3. index[k] + 1 \in 1 .. n /\ index[k] = (index[k] + 1) - 1
    BY <2>1, <2>2 DEF Found
  <2>4. meta[index[k] + 1].key = k
    BY <2>2, <2>3 DEF Found
  <2>5. blocks[index[k] + 1] = k /\ n <= Len(blocks)
    BY <2>2, <2>3, <2>4 DEF Files
  <2>6. Len(blocks) \in Nat
    BY <1>1 DEF TypeOK
  <2> QED BY <2>1, <2>3, <2>5, <2>6, <1>2
<1>5. ASSUME ~ faulted, mode # "closed", NEW k \in finished
      PROVE  k \in Indexed
  <2>1. PICK i \in 1 .. n : meta[i].key = k
    BY <1>3, <1>5 DEF Ordered, Kept
  <2>2. k \in Key
    BY <1>1 DEF TypeOK
  <2>3. ~ (Busy /\ op.key = k)
    BY <1>3, <1>5, <2>1 DEF Ordered, PutInv
  <2>4. Found(k, n)
    BY <1>3, <1>5, <2>2, <2>3 DEF Ordered, IndexInv
  <2>5. index[k] = i - 1 /\ i - 1 \in Nat
    BY <2>1, <2>4, <1>2 DEF Found
  <2> QED BY <2>2, <2>5 DEF Indexed, OpfsAssumption
<1>6. IndexedBlocksAreOwn
  BY <1>4 DEF IndexedBlocksAreOwn
<1>7. FinishedPutsSurvive
  BY <1>5 DEF FinishedPutsSurvive
<1> QED BY <1>1, <1>6, <1>7

----------------------------------------------------------------------------
(* The operators.                                                            *)

\* A file that was written to is a file, at least as long as it was.
LEMMA WriteAtIs ==
  ASSUME NEW S, NEW file \in Seq(S), NEW at \in Nat, NEW x \in S, NEW zeros \in S
  PROVE  /\ WriteAt(file, at, x, zeros) \in Seq(S)
         /\ Len(WriteAt(file, at, x, zeros)) = (IF Len(file) > at THEN Len(file) ELSE at + 1)
         /\ WriteAt(file, at, x, zeros)[at + 1] = x
         /\ \A i \in 1 .. Len(file) : i # at + 1 => WriteAt(file, at, x, zeros)[i] = file[i]
<1> DEFINE m == IF Len(file) > at THEN Len(file) ELSE at + 1
           w == [i \in 1 .. m |-> IF i = at + 1 THEN x ELSE IF i <= Len(file) THEN file[i] ELSE zeros]
<1>1. m \in Nat /\ Len(file) \in Nat /\ Len(file) <= m /\ at + 1 \in 1 .. m /\ at + 1 <= m
  OBVIOUS
<1>2. \A i \in 1 .. m : (IF i = at + 1 THEN x ELSE IF i <= Len(file) THEN file[i] ELSE zeros) \in S
  <2> SUFFICES ASSUME NEW i \in 1 .. m, i # at + 1, i <= Len(file)
               PROVE  file[i] \in S
    OBVIOUS
  <2>1. i \in 1 .. Len(file)
    BY <1>1
  <2> QED BY <2>1
<1> HIDE DEF m
<1>3. w \in Seq(S) /\ Len(w) = m
  BY <1>1, <1>2
<1>4. w[at + 1] = x /\ \A i \in 1 .. Len(file) : i # at + 1 => w[i] = file[i]
  BY <1>1
<1>5. WriteAt(file, at, x, zeros) = w
  BY DEF WriteAt, m
<1> QED BY <1>3, <1>4, <1>5 DEF m

\* A file that ends at n, or one place behind, ends behind that place then.
LEMMA WriteAtEnd ==
  ASSUME NEW n \in Nat, NEW file, Len(file) \in Nat, n <= Len(file), Len(file) <= n + 1,
         NEW x, NEW zeros, NEW w, w = WriteAt(file, n, x, zeros)
  PROVE  Len(w) = n + 1 /\ w[n + 1] = x /\ \A i \in 1 .. n : w[i] = file[i]
<1> DEFINE S == {w[i] : i \in 1 .. n + 1}
<1>1. (IF Len(file) > n THEN Len(file) ELSE n + 1) = n + 1
  OBVIOUS
<1>2. w = [i \in 1 .. n + 1 |-> IF i = n + 1 THEN x ELSE IF i <= Len(file) THEN file[i] ELSE zeros]
  BY <1>1 DEF WriteAt
<1>3. w \in [1 .. n + 1 -> S]
  BY <1>2
<1>4. w \in Seq(S) /\ Len(w) = n + 1
  <2> HIDE DEF S
  <2>1. n + 1 \in Nat
    OBVIOUS
  <2> QED BY <1>3, <2>1
<1>5. w[n + 1] = x
  BY <1>2
<1>6. ASSUME NEW i \in 1 .. n PROVE w[i] = file[i]
  BY <1>2
<1> QED BY <1>4, <1>5, <1>6

\* The drive's puts of the small ranges are small ranges, each once.
LEMMA RefillIs ==
  ASSUME OpfsAssumption, NEW idx
  PROVE  /\ Refill(idx) \in Seq(Small)
         /\ \A i, j \in DOMAIN Refill(idx) : Refill(idx)[i] = Refill(idx)[j] => i = j
         /\ Refill(idx) # <<>> => \E k \in Small : idx[k] = NoOffset
<1>1. IsFiniteSet(Small)
  BY FS_Subset DEF OpfsAssumption
<1> DEFINE c == Cardinality(Small)
<1>2. c \in Nat /\ ExistsBijection(1 .. c, Small)
  BY <1>1, FS_CardinalityType
<1>3. \E f \in [1 .. c -> Small] : IsInjective(f)
  BY <1>2 DEF ExistsBijection, Bijection, Injection
<1>4. SetToSeq(Small) \in [1 .. c -> Small] /\ IsInjective(SetToSeq(Small))
  BY <1>3 DEF SetToSeq
<1> HIDE DEF c
<1>5. SetToSeq(Small) \in Seq(Small)
  BY <1>2, <1>4
<1> QED BY <1>4, <1>5 DEF Refill, IsInjective

\* Of some places in a file one is the last.
LEMMA LastPlace ==
  ASSUME NEW m \in Nat, NEW T \in SUBSET (1 .. m), T # {}
  PROVE  \E i \in T : \A j \in T : j <= i
<1> DEFINE R == {ss \in Nat \X Nat : ss[1] < ss[2]}
           U == {n \in Nat : n <= m /\ m - n \in T}
<1>1. IsWellFoundedOn(R, Nat)
  BY NatLessThanWellFounded DEF OpToRel
<1>2. U \subseteq Nat /\ U # {}
  <2>1. PICK t \in T : TRUE
    OBVIOUS
  <2>2. m - t \in Nat /\ m - t <= m /\ m - (m - t) = t
    BY <2>1
  <2>3. m - t \in U
    BY <2>1, <2>2
  <2> QED BY <2>3
<1>3. PICK u \in U : \A y \in U : ~ (<<y, u>> \in R)
  <2> HIDE DEF R, U
  <2> QED BY <1>1, <1>2, WFMin
<1>4. u \in Nat /\ u <= m /\ m - u \in T
  BY <1>3
<1>5. ASSUME NEW j \in T PROVE j <= m - u
  <2>1. m - j \in Nat /\ m - j <= m /\ m - (m - j) = j
    OBVIOUS
  <2>2. m - j \in U
    BY <2>1
  <2>3. ~ (m - j < u)
    BY <1>3, <1>4, <2>1, <2>2
  <2> QED BY <1>4, <2>1, <2>3
<1> QED BY <1>4, <1>5

\* loadIndex gives numbers of blocks, whatever the files hold.
LEMMA LoadIndexType ==
  ASSUME TypeOK
  PROVE  LoadIndex \in [Key -> Nat \cup {NoOffset}]
<1>1. /\ meta \in Seq(Entry) /\ Len(meta) \in Nat /\ Len(blocks) \in Nat
      /\ Complete \in Nat /\ Complete <= Len(meta)
  BY DEF TypeOK, Complete
<1>2. ASSUME NEW k \in Key
      PROVE  LoadIndex[k] \in Nat \cup {NoOffset}
  <2> DEFINE places == {i \in 1 .. Complete : meta[i].key = k}
             last == CHOOSE i \in places : \A j \in places : j <= i
  <2>1. LoadIndex[k] = IF places = {} THEN NoOffset ELSE meta[last].offset
    BY DEF LoadIndex
  <2>2. ASSUME places # {} PROVE meta[last].offset \in Nat
    <3>1. places \in SUBSET (1 .. Complete)
      OBVIOUS
    <3>2. \E i \in places : \A j \in places : j <= i
      BY <1>1, <2>2, <3>1, LastPlace
    <3>3. last \in places
      BY <3>2
    <3>4. last \in 1 .. Len(meta)
      BY <3>3, <1>1
    <3>5. meta[last] \in Entry
      BY <3>4, <1>1
    <3> QED BY <3>5 DEF Entry
  <2> HIDE DEF places, last
  <2> QED BY <2>1, <2>2
<1> QED BY <1>2 DEF LoadIndex

\* loadIndex finds every range where its entry is, when the files are in order.
LEMMA LoadIndexIs ==
  ASSUME TypeOK, NEW n, n = Len(meta), Files(n)
  PROVE  /\ Complete = n
         /\ \A k \in Key :
              /\ \A i \in 1 .. n : meta[i].key = k <=> LoadIndex[k] = i - 1
              /\ LoadIndex[k] # NoOffset => LoadIndex[k] + 1 \in 1 .. n
<1>1. n \in Nat /\ Len(blocks) \in Nat /\ n <= Len(blocks)
  BY DEF TypeOK, Files
<1>2. Complete = n
  BY <1>1 DEF Complete
<1>3. NoOffset \notin Nat
  BY OpfsAssumption DEF OpfsAssumption
<1>4. ASSUME NEW k \in Key
      PROVE  /\ \A i \in 1 .. n : meta[i].key = k <=> LoadIndex[k] = i - 1
             /\ LoadIndex[k] # NoOffset => LoadIndex[k] + 1 \in 1 .. n
  <2> DEFINE places == {i \in 1 .. Complete : meta[i].key = k}
             last == CHOOSE i \in places : \A j \in places : j <= i
  <2>1. LoadIndex[k] = IF places = {} THEN NoOffset ELSE meta[last].offset
    BY DEF LoadIndex
  <2>2. CASE places = {}
    <3>1. \A i \in 1 .. n : meta[i].key # k
      BY <1>2, <2>2
    <3>2. LoadIndex[k] = NoOffset
      BY <2>1, <2>2
    <3>3. \A i \in 1 .. n : i - 1 \in Nat
      BY <1>1
    <3> QED BY <3>1, <3>2, <3>3, <1>3
  <2>3. CASE places # {}
    <3>1. PICK p \in 1 .. n : meta[p].key = k
      BY <1>2, <2>3
    <3>2. places = {p}
      BY <1>2, <3>1 DEF Files
    <3>3. last = p
      <4> HIDE DEF places
      <4> QED BY <3>2, <1>1
    <3>4. LoadIndex[k] = p - 1
      <4>1. LoadIndex[k] = meta[p].offset
        BY <2>1, <2>3, <3>3
      <4> QED BY <4>1, <3>1 DEF Files
    <3>5. \A i \in 1 .. n : meta[i].key = k <=> i = p
      BY <3>1 DEF Files
    <3>6. (p - 1) + 1 = p /\ \A i \in 1 .. n : i - 1 = p - 1 <=> i = p
      BY <1>1
    <3> QED BY <3>1, <3>4, <3>5, <3>6
  <2> HIDE DEF places, last
  <2> QED BY <2>2, <2>3
<1> QED BY <1>2, <1>4

\* The number of ranges that loadIndex finds.
LEMMA LoadedSizeType ==
  ASSUME OpfsAssumption, NEW idx
  PROVE  LoadedSize(idx) \in Nat
BY FS_Subset, FS_CardinalityType, {k \in Key : idx[k] # NoOffset} \subseteq Key
   DEF LoadedSize, OpfsAssumption

\* Of an empty store nothing is found.
LEMMA NoIndexSize == LoadedSize(NoIndex) = 0
<1>1. {k \in Key : NoIndex[k] # NoOffset} = {}
  BY DEF NoIndex
<1> QED BY <1>1, FS_EmptySet DEF LoadedSize

\* Files in order hold as many ranges as entries.
LEMMA LoadedSizeIs ==
  ASSUME OpfsAssumption, TypeOK, NEW n, n = Len(meta), Files(n)
  PROVE  LoadedSize(LoadIndex) = n
<1> DEFINE S == {k \in Key : LoadIndex[k] # NoOffset}
           f == [i \in 1 .. n |-> meta[i].key]
<1>1. n \in Nat /\ \A i \in 1 .. n : meta[i].key \in Key /\ i - 1 \in Nat
  <2>1. meta \in Seq(Entry)
    BY DEF TypeOK
  <2>2. n \in Nat /\ \A i \in 1 .. n : meta[i] \in Entry /\ i - 1 \in Nat
    BY <2>1
  <2> QED BY <2>2 DEF Entry
<1>2. \A k \in Key :
        /\ \A i \in 1 .. n : meta[i].key = k <=> LoadIndex[k] = i - 1
        /\ LoadIndex[k] # NoOffset => LoadIndex[k] + 1 \in 1 .. n
  BY LoadIndexIs
<1>3. NoOffset \notin Nat
  BY DEF OpfsAssumption
<1>4. \A i \in 1 .. n : f[i] \in S
  BY <1>1, <1>2, <1>3
<1>5. \A i, j \in 1 .. n : f[i] = f[j] => i = j
  BY DEF Files
<1>6. ASSUME NEW k \in S PROVE \E i \in 1 .. n : f[i] = k
  <2>1. k \in Key /\ LoadIndex[k] # NoOffset /\ LoadIndex[k] \in Nat
    BY LoadIndexType
  <2>2. LoadIndex[k] + 1 \in 1 .. n /\ LoadIndex[k] = (LoadIndex[k] + 1) - 1
    BY <2>1, <1>2
  <2>3. meta[LoadIndex[k] + 1].key = k
    BY <2>1, <2>2, <1>2
  <2> QED BY <2>2, <2>3
<1>7. f \in Bijection(1 .. n, S)
  <2>1. f \in [1 .. n -> S]
    BY <1>4
  <2> HIDE DEF S
  <2>2. f \in Injection(1 .. n, S)
    BY <2>1, <1>5 DEF Injection, IsInjective
  <2>3. f \in Surjection(1 .. n, S)
    BY <2>1, <1>6 DEF Surjection
  <2> QED BY <2>2, <2>3 DEF Bijection
<1>8. Cardinality(S) = n
  <2> HIDE DEF S, f
  <2> QED BY <1>1, <1>7, FS_CountingElements DEF ExistsBijection
<1> QED BY <1>8 DEF LoadedSize

----------------------------------------------------------------------------
(* The types, which need no assumption on the small ranges.                  *)

LEMMA InitType == ASSUME OpfsAssumption, Init PROVE TypeOK
<1>1. blocks \in Seq(Key \cup {Hole}) /\ meta \in Seq(Entry) /\ waiting \in Seq(Key)
  BY DEF Init
<1>2. index \in [Key -> Nat \cup {NoOffset}]
  BY DEF Init, NoIndex
<1> QED BY <1>1, <1>2 DEF Init, TypeOK

LEMMA StepType == ASSUME OpfsAssumption, TypeOK, [Next]_vars PROVE TypeOK'
<1> USE DEF TypeOK
<1> DEFINE Op == [key : Key, at : Nat, block : BOOLEAN, entry : BOOLEAN]
<1>1. /\ meta \in Seq(Entry) /\ blocks \in Seq(Key \cup {Hole}) /\ waiting \in Seq(Key)
      /\ "closed" \notin Modes
  BY DEF OpfsAssumption
<1>2. ASSUME NEW m \in Modes, Open(m) PROVE TypeOK'
  <2>1. index' \in [Key -> Nat \cup {NoOffset}]
    BY <1>2, LoadIndexType DEF Open, NoIndex
  <2>2. size' \in Nat
    BY <1>2, LoadedSizeType DEF Open
  <2>3. waiting' \in Seq(Key)
    <3>1. \A idx : Refill(idx) \in Seq(Small)
      BY RefillIs
    <3>2. Seq(Small) \subseteq Seq(Key)
      BY DEF OpfsAssumption
    <3> QED BY <1>2, <3>1, <3>2 DEF Open
  <2>4. blocks' \in Seq(Key \cup {Hole}) /\ meta' \in Seq(Entry) /\ finished' \subseteq Key
    <3>1. CASE Keeps
      BY <1>2, <3>1 DEF Open
    <3>2. CASE ~ Keeps
      <4>1. blocks' = <<>> /\ meta' = <<>> /\ finished' = {}
        BY <1>2, <3>2 DEF Open
      <4> QED BY <4>1
    <3> QED BY <3>1, <3>2
  <2> QED BY <1>1, <1>2, <2>1, <2>2, <2>3, <2>4 DEF Open
<1>3. ASSUME NEW k \in Key, PutCall(k) PROVE TypeOK'
  <2>1. waiting' \in Seq(Key)
    BY <1>3 DEF PutCall
  <2> QED BY <1>3, <2>1 DEF PutCall
<1>4. CASE PutStart
  <2>1. Head(waiting) \in Key /\ waiting' \in Seq(Key) /\ mode # "closed"
    BY <1>4 DEF PutStart
  <2>2. op' \in Op
    BY <1>4, <2>1 DEF PutStart
  <2>3. index' \in [Key -> Nat \cup {NoOffset}] /\ size' \in Nat
    BY <1>4 DEF PutStart, Extend
  <2> QED BY <1>4, <2>1, <2>2, <2>3 DEF PutStart
<1>5. CASE WriteBlock
  <2>1. Busy /\ op \in Op /\ mode # "closed"
    BY <1>5 DEF WriteBlock, Busy
  <2>2. blocks' \in Seq(Key \cup {Hole})
    BY <1>5, <2>1, WriteAtIs DEF WriteBlock
  <2>3. op' \in Op
    BY <1>5, <2>1 DEF WriteBlock
  <2> QED BY <1>5, <2>1, <2>2, <2>3 DEF WriteBlock
<1>6. CASE WriteEntry
  <2>1. Busy /\ op \in Op /\ mode # "closed"
    BY <1>6 DEF WriteEntry, Busy
  <2>2. /\ [key |-> op.key, offset |-> op.at] \in Entry
        /\ [key |-> First, offset |-> 0] \in Entry
    BY <2>1 DEF Entry, OpfsAssumption
  <2>3. meta' \in Seq(Entry)
    <3>1. op.at \in Nat
      BY <2>1
    <3> QED BY <1>1, <1>6, <2>2, <3>1, WriteAtIs DEF WriteEntry
  <2>4. op' \in Op
    BY <1>6, <2>1 DEF WriteEntry
  <2> QED BY <1>6, <2>1, <2>3, <2>4 DEF WriteEntry
<1>7. CASE SyncWriteFails
  BY <1>7 DEF SyncWriteFails
<1>8. CASE AsyncWriteFails
  <2>1. op \in Op /\ mode # "closed"
    BY <1>8 DEF AsyncWriteFails, Busy
  <2>2. op' \in Op
    BY <1>8, <2>1 DEF AsyncWriteFails
  <2> QED BY <1>8, <2>1, <2>2 DEF AsyncWriteFails
<1>9. CASE PutDone
  <2>1. op \in Op
    BY <1>9 DEF PutDone, Busy
  <2>2. index' \in [Key -> Nat \cup {NoOffset}] /\ size' \in Nat
    BY <1>9 DEF PutDone, Extend
  <2> QED BY <1>9, <2>1, <2>2 DEF PutDone
<1>10. CASE SessionEnd
  BY <1>10 DEF SessionEnd, NoIndex
<1>11. CASE UNCHANGED vars
  BY <1>11 DEF vars, NoIndex
<1> QED BY <1>2, <1>3, <1>4, <1>5, <1>6, <1>7, <1>8, <1>9, <1>10, <1>11 DEF Next

\* The types are an invariant of every run of the store.
THEOREM StoreTypeCorrect == Spec => []TypeOK
<1> USE OpfsAssumption
<1>1. Init => TypeOK
  BY InitType
<1>2. TypeOK /\ [Next]_vars => TypeOK'
  BY StepType
<1> QED BY <1>1, <1>2, PTL DEF Spec

----------------------------------------------------------------------------
(* The order of the files, step by step.                                     *)

\* With one small range at most, the drive refills the store with at most that
\* one, and only when it is missing.
LEMMA RefillWaits ==
  ASSUME OpfsAssumption, AtMostOneSmall, NEW idx
  PROVE  /\ \A i \in DOMAIN Refill(idx) : idx[Refill(idx)[i]] = NoOffset
         /\ \A i, j \in DOMAIN Refill(idx) : Refill(idx)[i] = Refill(idx)[j] => i = j
         /\ Len(Refill(idx)) <= 1
<1> DEFINE w == Refill(idx)
<1>1. /\ w \in Seq(Small)
      /\ \A i, j \in DOMAIN w : w[i] = w[j] => i = j
      /\ w # <<>> => \E k \in Small : idx[k] = NoOffset
  BY RefillIs
<1> HIDE DEF w
<1>2. Len(w) \in Nat /\ DOMAIN w = 1 .. Len(w) /\ \A i \in 1 .. Len(w) : w[i] \in Small
  BY <1>1
<1>3. ASSUME NEW i \in DOMAIN w PROVE idx[w[i]] = NoOffset
  <2>1. w # <<>> /\ w[i] \in Small
    BY <1>2
  <2> QED BY <1>1, <2>1 DEF AtMostOneSmall
<1>4. Len(w) <= 1
  <2> SUFFICES ASSUME Len(w) > 1 PROVE FALSE
    BY <1>2
  <2>1. 1 \in DOMAIN w /\ 2 \in DOMAIN w
    BY <1>2
  <2>2. w[1] = w[2]
    BY <1>2, <2>1 DEF AtMostOneSmall
  <2> QED BY <1>1, <2>1, <2>2
<1> QED BY <1>1, <1>3, <1>4 DEF w

\* What the types say of the files and of the put that writes.
LEMMA Shapes ==
  ASSUME TypeOK
  PROVE  /\ Len(meta) \in Nat /\ Len(blocks) \in Nat
         /\ Len(waiting) \in Nat /\ DOMAIN waiting = 1 .. Len(waiting)
         /\ \A i \in 1 .. Len(meta) : meta[i].key \in Key
         /\ Busy => op.key \in Key /\ op.at \in Nat /\ mode # "closed"
         /\ mode = "closed" => ~ Busy
<1>1. /\ meta \in Seq(Entry) /\ blocks \in Seq(Key \cup {Hole}) /\ waiting \in Seq(Key)
      /\ op \in {Idle} \cup [key : Key, at : Nat, block : BOOLEAN, entry : BOOLEAN]
  BY DEF TypeOK
<1>2. Len(meta) \in Nat /\ Len(blocks) \in Nat /\ Len(waiting) \in Nat /\ DOMAIN waiting = 1 .. Len(waiting)
  BY <1>1
<1>3. \A i \in 1 .. Len(meta) : meta[i] \in Entry
  BY <1>1
<1>4. \A i \in 1 .. Len(meta) : meta[i].key \in Key
  BY <1>3 DEF Entry
<1>5. Busy => op.key \in Key /\ op.at \in Nat /\ mode # "closed"
  BY <1>1 DEF Busy, TypeOK
<1>6. mode = "closed" => ~ Busy
  BY DEF Busy, TypeOK
<1> QED BY <1>2, <1>4, <1>5, <1>6

\* An opened store is in order when the files were.
LEMMA OpenStep ==
  ASSUME OpfsAssumption, AtMostOneSmall, TypeOK, NEW n \in Nat, n = Done, Ordered(n),
         NEW m \in Modes, Open(m)
  PROVE  \E p \in Nat : p = Done' /\ Ordered(p)'
<1>1. mode = "closed" /\ ~ Busy /\ op = Idle /\ n = Len(meta)
  BY DEF Open, TypeOK, Busy, Done
<1>2. mode' = m /\ m # "closed" /\ op' = Idle /\ ~ Busy' /\ Done' = size'
  BY <1>1 DEF Open, OpfsAssumption, Busy, Done
<1>3. WaitInv'
  <2>1. PICK idx : waiting' = Refill(idx) /\ index' = idx
    BY DEF Open
  <2>2. /\ \A i \in DOMAIN waiting' : index'[waiting'[i]] = NoOffset
        /\ \A i, j \in DOMAIN waiting' : waiting'[i] = waiting'[j] => i = j
        /\ Len(waiting') <= 1
    BY <2>1, RefillWaits
  <2> QED BY <2>2 DEF WaitInv
<1>4. CASE Keeps
  <2>1. /\ index' = LoadIndex /\ size' = LoadedSize(LoadIndex)
        /\ blocks' = blocks /\ meta' = meta /\ finished' = finished
    BY <1>4 DEF Open
  <2>2. size' = n
    BY <1>1, <2>1, LoadedSizeIs DEF Ordered
  <2>3. Files(n)' /\ Kept(n)' /\ Len(meta)' = n
    BY <1>1, <2>1 DEF Ordered, Files, Kept
  <2>4. IndexInv(n)'
    BY <1>1, <2>1, LoadIndexIs DEF Ordered, IndexInv, Found
  <2>5. PutInv(n)'
    BY <1>2 DEF PutInv
  <2> QED BY <1>2, <1>3, <2>2, <2>3, <2>4, <2>5 DEF Ordered
<1>5. CASE ~ Keeps
  <2>1. index' = NoIndex /\ size' = 0 /\ blocks' = <<>> /\ meta' = <<>> /\ finished' = {}
    BY <1>5, NoIndexSize DEF Open
  <2>2. Files(0)' /\ Kept(0)' /\ Len(meta)' = 0
    BY <2>1 DEF Files, Kept
  <2>3. IndexInv(0)'
    BY <2>1 DEF IndexInv, Found, NoIndex
  <2>4. PutInv(0)'
    BY <1>2 DEF PutInv
  <2> QED BY <1>2, <1>3, <2>1, <2>2, <2>3, <2>4 DEF Ordered
<1> QED BY <1>4, <1>5

\* A call of put waits, and disturbs no other.
LEMMA PutCallStep ==
  ASSUME OpfsAssumption, TypeOK, NEW n \in Nat, n = Done, Ordered(n),
         NEW k \in Key, PutCall(k)
  PROVE  \E p \in Nat : p = Done' /\ Ordered(p)'
<1>1. UNCHANGED <<blocks, meta, mode, index, size, op, finished>> /\ Busy' = Busy
  BY DEF PutCall, Busy
<1>2. Done' = n
  BY <1>1 DEF Done
<1>3. Files(n)' /\ Kept(n)' /\ IndexInv(n)' /\ (~ Busy' => Len(meta)' = n)
  BY <1>1 DEF Ordered, Files, Kept, IndexInv, Found
<1>4. PutInv(n)'
  <2>1. mode = "sync" => ~ Busy
    BY DEF PutCall
  <2> QED BY <1>1, <2>1 DEF Ordered, PutInv
<1>5. WaitInv'
  <2> DEFINE q == waiting
  <2>1. /\ q \in Seq(Key) /\ waiting' = Append(q, k)
        /\ index[k] = NoOffset /\ (mode = "sync" => q = <<>>)
        /\ \A i \in DOMAIN q : q[i] # k
    BY DEF PutCall, TypeOK, Range
  <2>2. WaitInv
    BY DEF Ordered
  <2>3. /\ \A i \in DOMAIN q : index[q[i]] = NoOffset
        /\ \A i, j \in DOMAIN q : q[i] = q[j] => i = j
    BY <2>2 DEF WaitInv
  <2> HIDE DEF q
  <2>4. /\ Len(q) \in Nat /\ DOMAIN q = 1 .. Len(q) /\ Len(waiting') = Len(q) + 1
        /\ DOMAIN waiting' = 1 .. Len(q) + 1
        /\ \A i \in 1 .. Len(q) : waiting'[i] = q[i]
        /\ waiting'[Len(q) + 1] = k
    BY <2>1
  <2>5. \A i \in DOMAIN waiting' : i \in 1 .. Len(q) \/ i = Len(q) + 1
    BY <2>4
  <2>6. \A i \in DOMAIN waiting' : index'[waiting'[i]] = NoOffset
    BY <1>1, <2>1, <2>3, <2>4, <2>5
  <2>7. \A i, j \in DOMAIN waiting' : waiting'[i] = waiting'[j] => i = j
    BY <2>1, <2>3, <2>4, <2>5
  <2>8. mode' = "sync" => Len(waiting') <= 1
    BY <1>1, <2>1, <2>4
  <2> QED BY <2>6, <2>7, <2>8 DEF WaitInv
<1> QED BY <1>2, <1>3, <1>4, <1>5 DEF Ordered

\* The put that starts takes the end of the files.
LEMMA PutStartStep ==
  ASSUME OpfsAssumption, TypeOK, NEW n \in Nat, n = Done, Ordered(n), PutStart
  PROVE  \E p \in Nat : p = Done' /\ Ordered(p)'
<1> DEFINE q == waiting
           h == Head(waiting)
<1>1. q \in Seq(Key) /\ q # <<>> /\ ~ Busy /\ mode # "closed" /\ size = n /\ Len(meta) = n
  BY DEF PutStart, TypeOK, Done, Ordered
<1>2. /\ blocks' = blocks /\ meta' = meta /\ mode' = mode /\ finished' = finished
      /\ op' = [key |-> h, at |-> n, block |-> FALSE, entry |-> FALSE]
      /\ waiting' = Tail(q)
  BY <1>1 DEF PutStart
<1>3. /\ mode = "async" => index' = [index EXCEPT ![h] = n] /\ size' = n + 1
      /\ mode # "async" => index' = index /\ size' = n
  BY <1>1 DEF PutStart, Extend
<1>4. /\ \A i \in DOMAIN q : index[q[i]] = NoOffset
      /\ \A i, j \in DOMAIN q : q[i] = q[j] => i = j
      /\ mode = "sync" => Len(q) <= 1
  BY DEF Ordered, WaitInv
<1>5. h = q[1] /\ h \in Key
  BY <1>1
<1>6. index \in [Key -> Nat \cup {NoOffset}]
  BY DEF TypeOK
<1> HIDE DEF q, h
<1>7. /\ Len(q) \in Nat /\ Len(q) >= 1 /\ DOMAIN q = 1 .. Len(q) /\ 1 \in DOMAIN q
      /\ DOMAIN Tail(q) = 1 .. Len(q) - 1 /\ Len(Tail(q)) = Len(q) - 1
      /\ \A i \in 1 .. Len(q) - 1 : Tail(q)[i] = q[i + 1] /\ i + 1 \in DOMAIN q /\ q[i + 1] \in Key
  BY <1>1
<1>8. Busy' /\ op'.key = h /\ op'.at = n /\ ~ op'.block /\ ~ op'.entry
  <2>1. op' \in [key : Key, at : Nat, block : BOOLEAN, entry : BOOLEAN]
    BY <1>2, <1>5
  <2>2. Busy'
    BY <2>1 DEF Busy, OpfsAssumption
  <2> QED BY <1>2, <2>2
<1>9. Done' = n
  BY <1>1, <1>2, <1>8 DEF Done
<1>10. index[h] = NoOffset /\ \A i \in 1 .. n : meta[i].key # h
  <2>1. index[h] = NoOffset
    BY <1>4, <1>5, <1>7
  <2>2. Found(h, n)
    BY <1>1, <1>5 DEF Ordered, IndexInv
  <2>3. \A i \in 1 .. n : i - 1 \in Nat
    OBVIOUS
  <2> QED BY <2>1, <2>2, <2>3 DEF Found, OpfsAssumption
<1>11. Files(n)' /\ Kept(n)' /\ Len(meta)' = n
  BY <1>1, <1>2 DEF Ordered, Files, Kept
<1>12. IndexInv(n)'
  <2>1. ASSUME NEW k \in Key, k # h PROVE Found(k, n)'
    <3>1. Found(k, n)
      BY <1>1 DEF Ordered, IndexInv
    <3>2. index'[k] = index[k]
      BY <1>3, <1>6, <2>1
    <3> QED BY <1>2, <3>1, <3>2 DEF Found
  <2> QED BY <1>8, <2>1 DEF IndexInv
<1>13. PutInv(n)'
  <2>1. \A i \in 1 .. n : meta'[i].key # op'.key
    BY <1>2, <1>8, <1>10
  <2>2. mode = "sync" => waiting' = <<>>
    <3> SUFFICES ASSUME mode = "sync" PROVE waiting' = <<>>
      OBVIOUS
    <3>1. Tail(q) \in Seq(Key) /\ Len(Tail(q)) = 0
      BY <1>1, <1>4, <1>7
    <3> QED BY <1>2, <3>1
  <2>3. mode' = "async" => size' = n + 1 /\ index'[op'.key] = n
    BY <1>2, <1>3, <1>5, <1>6, <1>8
  <2>4. mode' = "sync" => size' = n /\ index'[op'.key] = NoOffset
    BY <1>2, <1>3, <1>8, <1>10
  <2> QED BY <1>2, <1>8, <1>11, <2>1, <2>2, <2>3, <2>4 DEF PutInv
<1>14. WaitInv'
  <2>1. ASSUME NEW i \in 1 .. Len(q) - 1
        PROVE  index'[waiting'[i]] = NoOffset
    <3>1. waiting'[i] = q[i + 1] /\ i + 1 \in DOMAIN q /\ q[i + 1] \in Key
      BY <1>2, <1>7
    <3>0. i + 1 # 1
      OBVIOUS
    <3>2. q[i + 1] # h
      BY <1>4, <1>5, <1>7, <3>0, <3>1
    <3> QED BY <1>3, <1>4, <1>6, <3>1, <3>2
  <2>2. ASSUME NEW i \in 1 .. Len(q) - 1, NEW j \in 1 .. Len(q) - 1, waiting'[i] = waiting'[j]
        PROVE  i = j
    <3>1. i + 1 = j + 1
      BY <1>2, <1>4, <1>7, <2>2
    <3> QED BY <3>1, <1>7
  <2>3. mode' = "sync" => Len(waiting') <= 1
    BY <1>2, <1>4, <1>7
  <2> QED BY <1>2, <1>7, <2>1, <2>2, <2>3 DEF WaitInv
<1> QED BY <1>8, <1>9, <1>11, <1>12, <1>13, <1>14 DEF Ordered

\* The block goes to the end of its file.
LEMMA WriteBlockStep ==
  ASSUME OpfsAssumption, TypeOK, NEW n \in Nat, n = Done, Ordered(n), WriteBlock
  PROVE  \E p \in Nat : p = Done' /\ Ordered(p)'
<1>1. /\ Busy /\ mode # "closed" /\ op.at = n /\ op.key \in Key
      /\ op \in [key : Key, at : Nat, block : BOOLEAN, entry : BOOLEAN]
  BY DEF WriteBlock, Done, TypeOK, Busy
<1>2. /\ UNCHANGED <<meta, mode, index, size, waiting, finished>>
      /\ op' = [op EXCEPT !.block = TRUE]
      /\ blocks' = WriteAt(blocks, n, op.key, Hole)
  BY <1>1 DEF WriteBlock
<1>3. op'.key = op.key /\ op'.at = n /\ op'.entry = op.entry /\ op'.block
  BY <1>1, <1>2
<1>4. Busy'
  BY <1>1, <1>2 DEF Busy, OpfsAssumption
<1>5. Done' = n
  BY <1>1, <1>2, <1>3, <1>4 DEF Done
<1>6. Len(blocks) \in Nat /\ n <= Len(blocks) /\ Len(blocks) <= n + 1
  BY DEF TypeOK, Ordered, Files
<1>7. Len(blocks') = n + 1 /\ blocks'[n + 1] = op.key /\ \A i \in 1 .. n : blocks'[i] = blocks[i]
  BY <1>2, <1>6, WriteAtEnd
<1>8. Files(n)'
  <2>1. Len(meta) \in Nat /\ n <= Len(meta)
    BY Shapes DEF Ordered, Files
  <2> QED BY <1>2, <1>7, <2>1 DEF Ordered, Files
<1>9. Kept(n)' /\ IndexInv(n)' /\ WaitInv'
  BY <1>1, <1>2, <1>3, <1>4 DEF Ordered, Kept, IndexInv, Found, WaitInv
<1>10. PutInv(n)'
  <2>1. PutInv(n)
    BY DEF Ordered
  <2> QED BY <2>1, <1>1, <1>2, <1>3, <1>7 DEF PutInv
<1> QED BY <1>4, <1>5, <1>8, <1>9, <1>10 DEF Ordered

\* The entry goes to the end of its file.
LEMMA WriteEntryStep ==
  ASSUME OpfsAssumption, TypeOK, NEW n \in Nat, n = Done, Ordered(n), WriteEntry
  PROVE  \E p \in Nat : p = Done' /\ Ordered(p)'
<1> DEFINE e == [key |-> op.key, offset |-> n]
<1>1. /\ Busy /\ mode # "closed" /\ op.at = n /\ op.key \in Key /\ ~ op.entry
      /\ op \in [key : Key, at : Nat, block : BOOLEAN, entry : BOOLEAN]
  BY DEF WriteEntry, Done, TypeOK, Busy
<1>2. /\ UNCHANGED <<blocks, mode, index, size, waiting, finished>>
      /\ op' = [op EXCEPT !.entry = TRUE]
      /\ meta' = WriteAt(meta, n, e, [key |-> First, offset |-> 0])
      /\ mode = "sync" => op.block
  BY <1>1 DEF WriteEntry
<1>3. op'.key = op.key /\ op'.at = n /\ op'.block = op.block /\ op'.entry
  BY <1>1, <1>2
<1>4. Busy'
  BY <1>1, <1>2 DEF Busy, OpfsAssumption
<1>5. Done' = n
  BY <1>1, <1>2, <1>3, <1>4 DEF Done
<1>6. PutInv(n) /\ Len(meta) = n
  BY <1>1 DEF Ordered, PutInv
<1>7. Len(meta') = n + 1 /\ meta'[n + 1] = e /\ \A i \in 1 .. n : meta'[i] = meta[i]
  <2>1. Len(meta) \in Nat /\ n <= Len(meta) /\ Len(meta) <= n + 1
    BY <1>6
  <2> HIDE DEF e
  <2> QED BY <1>2, <2>1, WriteAtEnd
<1>8. Files(n)'
  <2>1. Files(n)
    BY DEF Ordered
  <2> HIDE DEF e
  <2>2. n <= Len(meta') /\ \A i \in 1 .. n : meta'[i] = meta[i]
    BY <1>7
  <2>3. \A i \in 1 .. n : meta'[i].offset = i - 1 /\ blocks'[i] = meta'[i].key
    BY <1>2, <2>1, <2>2 DEF Files
  <2>4. \A i, j \in 1 .. n : meta'[i].key = meta'[j].key => i = j
    BY <2>1, <2>2 DEF Files
  <2> QED BY <1>2, <2>1, <2>2, <2>3, <2>4 DEF Files
<1>9. Kept(n)' /\ IndexInv(n)' /\ WaitInv'
  <2>1. \A i \in 1 .. n : meta'[i] = meta[i]
    BY <1>7
  <2>2. Kept(n)'
    BY <1>2, <2>1 DEF Ordered, Kept
  <2>3. IndexInv(n)'
    BY <1>1, <1>2, <1>3, <1>4, <2>1 DEF Ordered, IndexInv, Found
  <2>4. WaitInv'
    BY <1>2 DEF Ordered, WaitInv
  <2> QED BY <2>2, <2>3, <2>4
<1>10. PutInv(n)'
  BY <1>1, <1>2, <1>3, <1>6, <1>7 DEF PutInv
<1> QED BY <1>4, <1>5, <1>8, <1>9, <1>10 DEF Ordered

\* A write that throws leaves a block without an entry at most.
LEMMA SyncWriteFailsStep ==
  ASSUME OpfsAssumption, TypeOK, NEW n \in Nat, n = Done, Ordered(n), SyncWriteFails
  PROVE  \E p \in Nat : p = Done' /\ Ordered(p)'
<1>1. /\ Busy /\ mode = "sync" /\ ~ op.entry /\ op' = Idle /\ ~ Busy'
      /\ UNCHANGED <<blocks, meta, mode, index, size, waiting, finished>>
  BY DEF SyncWriteFails, Busy
<1>2. /\ size = n /\ Len(meta) = n /\ index[op.key] = NoOffset
      /\ \A i \in 1 .. n : meta[i].key # op.key
  BY <1>1 DEF Ordered, PutInv
<1>3. Done' = n
  BY <1>1, <1>2 DEF Done
<1>4. Found(op.key, n)
  <2>1. \A i \in 1 .. n : i - 1 \in Nat
    OBVIOUS
  <2> QED BY <1>2, <2>1 DEF Found, OpfsAssumption
<1>5. IndexInv(n)'
  BY <1>1, <1>4 DEF Ordered, IndexInv, Found
<1>6. Files(n)' /\ Kept(n)' /\ WaitInv' /\ PutInv(n)'
  BY <1>1 DEF Ordered, Files, Kept, WaitInv, PutInv
<1> QED BY <1>1, <1>2, <1>3, <1>5, <1>6 DEF Ordered

\* A put that wrote its block and its entry made the files one longer, whether
\* or not the session gets to see it.
LEMMA Grown ==
  ASSUME OpfsAssumption, TypeOK, NEW n \in Nat, Ordered(n), Busy, op.block, op.entry
  PROVE  /\ Files(n + 1) /\ Kept(n + 1) /\ Len(meta) = n + 1
         /\ meta[n + 1].key = op.key
<1>1. /\ Files(n) /\ Kept(n)
      /\ Len(blocks) = n + 1 /\ blocks[n + 1] = op.key
      /\ Len(meta) = n + 1 /\ meta[n + 1] = [key |-> op.key, offset |-> n]
      /\ \A i \in 1 .. n : meta[i].key # op.key
  BY DEF Ordered, PutInv
<1>2. n + 1 \in Nat /\ n = (n + 1) - 1 /\ \A i \in 1 .. n + 1 : i \in 1 .. n \/ i = n + 1
  OBVIOUS
<1>3. meta[n + 1].key = op.key /\ meta[n + 1].offset = n
  BY <1>1
<1>4. \A i \in 1 .. n + 1 : meta[i].offset = i - 1 /\ blocks[i] = meta[i].key
  BY <1>1, <1>2, <1>3 DEF Files
<1>5. \A i, j \in 1 .. n + 1 : meta[i].key = meta[j].key => i = j
  BY <1>1, <1>2, <1>3 DEF Files
<1>6. Files(n + 1)
  BY <1>1, <1>4, <1>5 DEF Files
<1>7. Kept(n + 1)
  <2>1. \A i \in 1 .. n : i \in 1 .. n + 1
    OBVIOUS
  <2> QED BY <1>1, <2>1 DEF Kept
<1> QED BY <1>1, <1>3, <1>6, <1>7

\* A put that is done counts.
LEMMA PutDoneStep ==
  ASSUME OpfsAssumption, TypeOK, NEW n \in Nat, n = Done, Ordered(n), PutDone
  PROVE  \E p \in Nat : p = Done' /\ Ordered(p)'
<1>1. /\ Busy /\ mode # "closed" /\ op.block /\ op.entry /\ op.key \in Key
      /\ op' = Idle /\ ~ Busy' /\ finished' = finished \cup {op.key}
      /\ UNCHANGED <<blocks, meta, mode, waiting>>
  BY Shapes DEF PutDone, Busy
<1>2. mode = "sync" \/ mode = "async"
  BY <1>1 DEF TypeOK, OpfsAssumption
<1>3. index \in [Key -> Nat \cup {NoOffset}]
  BY DEF TypeOK
<1>4. size' = n + 1
  BY <1>1, <1>2 DEF PutDone, Extend, Ordered, PutInv
<1>5. index'[op.key] = n /\ \A k \in Key : k # op.key => index'[k] = index[k]
  <2>1. CASE mode = "sync"
    <3>1. size = n
      BY <1>1, <2>1 DEF Ordered, PutInv
    <3>2. index' = [index EXCEPT ![op.key] = n]
      BY <2>1, <3>1 DEF PutDone, Extend
    <3> QED BY <1>1, <1>3, <3>2
  <2>2. CASE mode = "async"
    <3>1. index' = index
      BY <2>2 DEF PutDone
    <3> QED BY <1>1, <2>2, <3>1 DEF Ordered, PutInv
  <2> QED BY <1>2, <2>1, <2>2
<1>6. Done' = n + 1
  BY <1>1, <1>4 DEF Done
<1>7. Files(n + 1) /\ Kept(n + 1) /\ Len(meta) = n + 1 /\ meta[n + 1].key = op.key
  BY <1>1, Grown
<1>8. Files(n + 1)' /\ Len(meta)' = n + 1
  BY <1>1, <1>7 DEF Files
<1>9. Kept(n + 1)'
  <2>1. n + 1 \in 1 .. n + 1
    OBVIOUS
  <2> QED BY <1>1, <1>7, <2>1 DEF Kept
<1>10. /\ \A i \in 1 .. n : meta[i].key # op.key
       /\ \A i \in 1 .. n + 1 : i \in 1 .. n \/ i = n + 1
       /\ \A i \in 1 .. n : i \in 1 .. n + 1 /\ i - 1 # n
       /\ n + 1 \in 1 .. n + 1 /\ n = (n + 1) - 1
  BY <1>1 DEF Ordered, PutInv
<1>11. IndexInv(n + 1)'
  <2> SUFFICES ASSUME NEW k \in Key PROVE Found(k, n + 1)'
    BY DEF IndexInv
  <2>1. CASE k = op.key
    <3>1. \A i \in 1 .. n + 1 : meta[i].key = k <=> i = n + 1
      BY <1>7, <1>10, <2>1
    <3>2. \A i \in 1 .. n + 1 : n = i - 1 <=> i = n + 1
      OBVIOUS
    <3> QED BY <1>1, <1>5, <1>10, <2>1, <3>1, <3>2 DEF Found
  <2>2. CASE k # op.key
    <3>1. Found(k, n)
      BY <1>1, <2>2 DEF Ordered, IndexInv
    <3>2. index'[k] = index[k] /\ meta[n + 1].key # k
      BY <1>5, <1>7, <2>2
    <3>3. index[k] # n
      <4> SUFFICES ASSUME index[k] = n PROVE FALSE
        OBVIOUS
      <4>1. n # NoOffset
        BY DEF OpfsAssumption
      <4>2. n + 1 \in 1 .. n
        BY <3>1, <4>1 DEF Found
      <4> QED BY <4>2
    <3>4. \A i \in 1 .. n + 1 : meta[i].key = k <=> index[k] = i - 1
      BY <1>10, <3>1, <3>2, <3>3 DEF Found
    <3>5. index[k] # NoOffset => index[k] + 1 \in 1 .. n + 1
      BY <1>10, <3>1 DEF Found
    <3> QED BY <1>1, <3>2, <3>4, <3>5 DEF Found
  <2> QED BY <2>1, <2>2
<1>12. PutInv(n + 1)'
  BY <1>1 DEF PutInv
<1>13. WaitInv'
  <2>1. WaitInv /\ IndexInv(n) /\ Files(n)
    BY DEF Ordered
  <2>2. ASSUME NEW i \in DOMAIN waiting PROVE index'[waiting[i]] = NoOffset
    <3>1. CASE mode = "sync"
      <4>1. waiting = <<>>
        BY <1>1, <3>1 DEF Ordered, PutInv
      <4> QED BY <2>2, <4>1
    <3>2. CASE mode = "async"
      <4>1. index' = index
        BY <3>2 DEF PutDone
      <4> QED BY <2>1, <4>1 DEF WaitInv
    <3> QED BY <1>2, <3>1, <3>2
  <2> QED BY <1>1, <2>1, <2>2 DEF WaitInv
<1>14. n + 1 \in Nat
  OBVIOUS
<1> QED BY <1>1, <1>6, <1>8, <1>9, <1>11, <1>12, <1>13, <1>14 DEF Ordered

\* A session that ends leaves files in order, unless an asynchronous put was cut.
LEMMA SessionEndStep ==
  ASSUME OpfsAssumption, TypeOK, NEW n \in Nat, n = Done, Ordered(n), SessionEnd, ~ faulted'
  PROVE  \E p \in Nat : p = Done' /\ Ordered(p)'
<1>1. /\ mode # "closed" /\ mode' = "closed" /\ waiting' = <<>> /\ op' = Idle
      /\ ~ (mode = "async" /\ Busy) /\ ~ Busy'
      /\ UNCHANGED <<blocks, meta, finished>>
  BY DEF SessionEnd, Busy
<1>2. Done' = Len(meta)
  BY <1>1 DEF Done
<1>3. \E p \in Nat : p = Len(meta) /\ Files(p) /\ Kept(p)
  <2>1. CASE Busy /\ op.entry
    <3>1. mode = "sync"
      BY <1>1, <2>1 DEF TypeOK, OpfsAssumption
    <3>2. op.block
      BY <2>1, <3>1 DEF Ordered, PutInv
    <3>3. Files(n + 1) /\ Kept(n + 1) /\ Len(meta) = n + 1 /\ n + 1 \in Nat
      BY <2>1, <3>2, Grown
    <3> QED BY <3>3
  <2>2. CASE ~ (Busy /\ op.entry)
    <3>1. Len(meta) = n
      BY <2>2 DEF Ordered, PutInv
    <3> QED BY <3>1 DEF Ordered
  <2> QED BY <2>1, <2>2
<1>4. PICK p \in Nat : p = Len(meta) /\ Files(p) /\ Kept(p)
  BY <1>3
<1>5. Files(p)' /\ Kept(p)' /\ Len(meta)' = p
  BY <1>1, <1>4 DEF Files, Kept
<1>6. IndexInv(p)' /\ PutInv(p)' /\ WaitInv'
  BY <1>1 DEF IndexInv, PutInv, WaitInv
<1> QED BY <1>1, <1>2, <1>4, <1>5, <1>6 DEF Ordered

----------------------------------------------------------------------------
(* The theorems.                                                             *)

LEMMA InitOrdered == ASSUME OpfsAssumption, Init PROVE IInv
<1>1. TypeOK
  BY InitType
<1>2. Done = 0
  BY DEF Init, Done
<1>3. Ordered(0)
  BY DEF Init, Ordered, Files, Kept, IndexInv, PutInv, WaitInv, Busy
<1> QED BY <1>1, <1>2, <1>3 DEF IInv

LEMMA StepOrdered ==
  ASSUME OpfsAssumption, AtMostOneSmall, IInv, [Next]_vars
  PROVE  IInv'
<1>1. TypeOK /\ TypeOK'
  BY StepType DEF IInv
<1> SUFFICES ASSUME ~ faulted' PROVE \E p \in Nat : p = Done' /\ Ordered(p)'
  BY <1>1 DEF IInv
<1>2. ~ faulted
  BY DEF Next, Open, PutCall, PutStart, WriteBlock, WriteEntry, SyncWriteFails,
         AsyncWriteFails, PutDone, SessionEnd, vars
<1>3. PICK n \in Nat : n = Done /\ Ordered(n)
  BY <1>1, <1>2, DoneType DEF IInv
<1>4. ASSUME NEW m \in Modes, Open(m) PROVE \E p \in Nat : p = Done' /\ Ordered(p)'
  BY <1>1, <1>3, <1>4, OpenStep
<1>5. ASSUME NEW k \in Key, PutCall(k) PROVE \E p \in Nat : p = Done' /\ Ordered(p)'
  BY <1>1, <1>3, <1>5, PutCallStep
<1>6. CASE PutStart
  BY <1>1, <1>3, <1>6, PutStartStep
<1>7. CASE WriteBlock
  BY <1>1, <1>3, <1>7, WriteBlockStep
<1>8. CASE WriteEntry
  BY <1>1, <1>3, <1>8, WriteEntryStep
<1>9. CASE SyncWriteFails
  BY <1>1, <1>3, <1>9, SyncWriteFailsStep
<1>10. CASE AsyncWriteFails
  BY <1>10 DEF AsyncWriteFails
<1>11. CASE PutDone
  BY <1>1, <1>3, <1>11, PutDoneStep
<1>12. CASE SessionEnd
  BY <1>1, <1>3, <1>12, SessionEndStep
<1>13. CASE UNCHANGED vars
  <2>1. Done' = n
    BY <1>3, <1>13 DEF vars, Done, Busy
  <2>2. Ordered(n)'
    BY <1>3, <1>13 DEF vars, Ordered, Files, Kept, IndexInv, Found, PutInv, WaitInv, Busy
  <2> QED BY <2>1, <2>2
<1> QED BY <1>4, <1>5, <1>6, <1>7, <1>8, <1>9, <1>10, <1>11, <1>12, <1>13 DEF Next

\* Only opening takes puts back, and only when there was one entry at most.
LEMMA StepLoses ==
  ASSUME OpfsAssumption, IInv, [Next]_vars
  PROVE  [faulted \/ finished \subseteq finished' \/ Cardinality(finished) <= 1]_finished
<1>1. TypeOK
  BY DEF IInv
<1> SUFFICES ASSUME ~ faulted, ~ (finished \subseteq finished')
             PROVE  Cardinality(finished) <= 1
  OBVIOUS
<1>2. PICK m \in Modes : Open(m) /\ ~ Keeps
  BY DEF Next, Open, PutCall, PutStart, WriteBlock, WriteEntry, SyncWriteFails,
         AsyncWriteFails, PutDone, SessionEnd, vars
<1>3. PICK n \in Nat : n = Done /\ Ordered(n)
  BY <1>1, DoneType DEF IInv
<1>4. n = Len(meta) /\ Files(n) /\ Kept(n) /\ Len(blocks) \in Nat
  BY <1>1, <1>2, <1>3 DEF Open, Done, Ordered, TypeOK
<1>5. n <= 1
  <2>1. CASE meta = <<>>
    BY <1>4, <2>1
  <2>2. CASE ~ (Len(blocks) > 1)
    <3>1. n <= Len(blocks)
      BY <1>4 DEF Files
    <3> QED BY <1>4, <2>2, <3>1
  <2> QED BY <1>2, <2>1, <2>2 DEF Keeps
<1>6. finished \subseteq {meta[1].key}
  <2>1. \A i \in 1 .. n : i = 1
    BY <1>5
  <2> QED BY <1>4, <2>1 DEF Kept
<1>7. IsFiniteSet({meta[1].key}) /\ Cardinality({meta[1].key}) = 1
  BY FS_Singleton
<1> QED BY <1>6, <1>7, FS_Subset

\* The files stay in order: the invariant the theorems below rest on.
THEOREM StoreInvariant == AtMostOneSmall => (Spec => []IInv)
<1> SUFFICES ASSUME AtMostOneSmall PROVE Spec => []IInv
  OBVIOUS
<1> USE OpfsAssumption
<1>1. Init => IInv
  BY InitOrdered
<1>2. IInv /\ [Next]_vars => IInv'
  BY StepOrdered
<1> QED BY <1>1, <1>2, PTL DEF Spec

\* What get serves is the range it was asked for, after any number of sessions
\* that ended between any two writes, as long as no asynchronous write failed.
THEOREM StoredBlocksAreOwn == AtMostOneSmall => (Spec => []IndexedBlocksAreOwn)
<1> SUFFICES ASSUME AtMostOneSmall PROVE Spec => []IndexedBlocksAreOwn
  OBVIOUS
<1>1. IInv => IndexedBlocksAreOwn
  BY Implied, OpfsAssumption
<1> QED BY <1>1, StoreInvariant, PTL

\* What a put finished is found by every later session.
THEOREM StoredPutsSurvive == AtMostOneSmall => (Spec => []FinishedPutsSurvive)
<1> SUFFICES ASSUME AtMostOneSmall PROVE Spec => []FinishedPutsSurvive
  OBVIOUS
<1>1. IInv => FinishedPutsSurvive
  BY Implied, OpfsAssumption
<1> QED BY <1>1, StoreInvariant, PTL

\* Emptying the files takes one range at most.
THEOREM StoreLosesAtMostOne == AtMostOneSmall => (Spec => LosesAtMostOne)
<1> SUFFICES ASSUME AtMostOneSmall PROVE Spec => LosesAtMostOne
  OBVIOUS
<1> USE OpfsAssumption
<1>1. IInv /\ [Next]_vars
      => [faulted \/ finished \subseteq finished' \/ Cardinality(finished) <= 1]_finished
  BY StepLoses
<1> QED BY <1>1, StoreInvariant, PTL DEF Spec, LosesAtMostOne

----------------------------------------------------------------------------
(* Refinement: the store that RangeStore promises.                           *)

\* Does the store hold range k, with n puts complete?  A put that wrote both files
\* counts, for the next session will find it.
Holds(n, k) ==
  \/ \E i \in 1 .. n : meta[i].key = k
  \/ Busy /\ op.block /\ op.entry /\ op.key = k

HeldSet == {k \in Key : Holds(Done, k)}

\* Where loadIndex would find a range that is not just being put.
LEMMA LoadIndexAt ==
  ASSUME OpfsAssumption, TypeOK, NEW n \in Nat, Ordered(n), NEW k \in Key,
         ~ (Busy /\ op.key = k /\ ~ (op.block /\ op.entry))
  PROVE  \/ \E p \in 1 .. n : meta[p].key = k /\ LoadIndex[k] = p - 1 /\ blocks[p] = k
         \/ /\ Busy /\ op.block /\ op.entry /\ op.key = k
            /\ LoadIndex[k] = n /\ blocks[n + 1] = k
         \/ LoadIndex[k] = NoOffset /\ ~ Holds(n, k)
<1> DEFINE places == {i \in 1 .. Complete : meta[i].key = k}
           last == CHOOSE i \in places : \A j \in places : j <= i
<1>1. LoadIndex[k] = IF places = {} THEN NoOffset ELSE meta[last].offset
  BY DEF LoadIndex
<1>2. ASSUME NEW p \in Nat, places = {p} PROVE LoadIndex[k] = meta[p].offset
  <2>1. last = p
    <3> HIDE DEF places
    <3> QED BY <1>2
  <2> QED BY <1>1, <1>2, <2>1
<1>3. /\ Complete \in Nat /\ n <= Complete /\ Complete <= n + 1
      /\ Complete = n + 1 => Len(meta) >= n + 1
  BY Shapes DEF Ordered, Files, Complete
<1>4. Complete = n + 1 => Busy /\ op.entry /\ meta[n + 1] = [key |-> op.key, offset |-> n]
  BY <1>3, Shapes DEF Ordered, PutInv
<1>5. \A i \in 1 .. Complete : i \in 1 .. n \/ (i = n + 1 /\ Complete = n + 1)
  BY <1>3
<1>6. /\ \A i \in 1 .. n : meta[i].offset = i - 1 /\ blocks[i] = meta[i].key
      /\ \A i, j \in 1 .. n : meta[i].key = meta[j].key => i = j
      /\ \A i \in 1 .. n : i \in 1 .. Complete /\ i \in Nat
  BY <1>3 DEF Ordered, Files
<1>7. Busy => \A i \in 1 .. n : meta[i].key # op.key
  BY DEF Ordered, PutInv
<1>8. CASE \E i \in 1 .. n : meta[i].key = k
  <2>1. PICK p \in 1 .. n : meta[p].key = k
    BY <1>8
  <2>2. Busy => op.key # k
    BY <1>7, <2>1
  <2>3. \A i \in places : i = p
    BY <1>4, <1>5, <1>6, <2>1, <2>2
  <2>4. p \in places
    BY <1>6, <2>1
  <2>5. LoadIndex[k] = meta[p].offset
    <3>1. places = {p}
      BY <2>3, <2>4
    <3> HIDE DEF places
    <3> QED BY <1>2, <1>6, <3>1
  <2> QED BY <1>6, <2>1, <2>5
<1>9. CASE /\ \A i \in 1 .. n : meta[i].key # k
           /\ Busy /\ op.block /\ op.entry /\ op.key = k
  <2>1. /\ Len(blocks) = n + 1 /\ blocks[n + 1] = k
        /\ Len(meta) = n + 1 /\ meta[n + 1] = [key |-> k, offset |-> n]
    BY <1>9 DEF Ordered, PutInv
  <2>2. Complete = n + 1 /\ n + 1 \in Nat
    BY <2>1 DEF Complete
  <2>3. \A i \in places : i = n + 1
    BY <1>5, <1>9
  <2>4. n + 1 \in places
    BY <2>1, <2>2
  <2>5. LoadIndex[k] = meta[n + 1].offset
    <3>1. places = {n + 1}
      BY <2>3, <2>4
    <3> HIDE DEF places
    <3> QED BY <1>2, <2>2, <3>1
  <2> QED BY <1>9, <2>1, <2>5
<1>10. CASE /\ \A i \in 1 .. n : meta[i].key # k
            /\ ~ (Busy /\ op.block /\ op.entry /\ op.key = k)
  <2>1. ~ (Busy /\ op.key = k)
    BY <1>10
  <2>2. places = {}
    BY <1>4, <1>5, <1>10, <2>1
  <2>3. ~ Holds(n, k)
    BY <1>10 DEF Holds
  <2> HIDE DEF places
  <2> QED BY <1>1, <2>2, <2>3
<1> QED BY <1>8, <1>9, <1>10

\* Whatever the store holds of a range is that range.
LEMMA StoredIs ==
  ASSUME OpfsAssumption, TypeOK, NEW n \in Nat, Ordered(n), NEW k \in Key
  PROVE  Stored[k] = IF Holds(n, k) THEN k ELSE Hole
<1>1. Stored[k] = IF LoadIndex[k] = NoOffset \/ (Busy /\ op.key = k /\ ~ (op.block /\ op.entry))
                   THEN Hole ELSE blocks[LoadIndex[k] + 1]
  BY DEF Stored
<1>2. CASE Busy /\ op.key = k /\ ~ (op.block /\ op.entry)
  <2>1. ~ Holds(n, k)
    BY <1>2 DEF Holds, Ordered, PutInv
  <2> QED BY <1>1, <1>2, <2>1
<1>3. CASE ~ (Busy /\ op.key = k /\ ~ (op.block /\ op.entry))
  <2>1. NoOffset \notin Nat
    BY DEF OpfsAssumption
  <2>2. ASSUME NEW p \in 1 .. n, meta[p].key = k, LoadIndex[k] = p - 1, blocks[p] = k
        PROVE  Stored[k] = IF Holds(n, k) THEN k ELSE Hole
    <3>1. p - 1 \in Nat /\ (p - 1) + 1 = p
      OBVIOUS
    <3>2. Holds(n, k)
      BY <2>2 DEF Holds
    <3>3. LoadIndex[k] # NoOffset /\ blocks[LoadIndex[k] + 1] = k
      BY <2>1, <2>2, <3>1
    <3> QED BY <1>1, <1>3, <3>2, <3>3
  <2>3. CASE /\ Busy /\ op.block /\ op.entry /\ op.key = k
             /\ LoadIndex[k] = n /\ blocks[n + 1] = k
    <3>1. Holds(n, k)
      BY <2>3 DEF Holds
    <3>2. LoadIndex[k] # NoOffset
      BY <2>1, <2>3
    <3> QED BY <1>1, <1>3, <2>3, <3>1, <3>2
  <2>4. CASE LoadIndex[k] = NoOffset /\ ~ Holds(n, k)
    BY <1>1, <2>4
  <2> QED BY <1>3, <2>2, <2>3, <2>4, LoadIndexAt
<1> QED BY <1>2, <1>3

\* What a session reads, through the index it keeps up to date, is what a session
\* that is opened now would find in the files.
LEMMA ReadsWhatIsStored ==
  ASSUME OpfsAssumption, IInv
  PROVE  GetsWhatIsStored
<1>1. TypeOK /\ Done \in Nat
  BY DoneType DEF IInv
<1> SUFFICES ASSUME ~ faulted, mode # "closed", NEW k \in Key, ~ (Busy /\ op.key = k)
             PROVE  Stored[k] = IF index[k] = NoOffset THEN Hole ELSE blocks[index[k] + 1]
  BY DEF GetsWhatIsStored
<1> PICK n \in Nat : Ordered(n)
  BY <1>1 DEF IInv
<1>2. Stored[k] = IF Holds(n, k) THEN k ELSE Hole
  BY <1>1, StoredIs
<1>3. Found(k, n)
  BY DEF Ordered, IndexInv
<1>4. index[k] \in Nat \cup {NoOffset} /\ NoOffset \notin Nat
  BY <1>1 DEF TypeOK, OpfsAssumption
<1>5. CASE index[k] = NoOffset
  <2>1. \A i \in 1 .. n : i - 1 \in Nat
    OBVIOUS
  <2>2. ~ Holds(n, k)
    BY <1>3, <1>4, <1>5, <2>1 DEF Found, Holds
  <2> QED BY <1>2, <1>5, <2>2
<1>6. CASE index[k] # NoOffset
  <2>1. index[k] + 1 \in 1 .. n /\ index[k] = (index[k] + 1) - 1
    BY <1>3, <1>4, <1>6 DEF Found
  <2>2. meta[index[k] + 1].key = k
    BY <1>3, <2>1 DEF Found
  <2>3. Holds(n, k) /\ blocks[index[k] + 1] = k
    BY <2>1, <2>2 DEF Holds, Ordered, Files
  <2> QED BY <1>2, <1>6, <2>3
<1> QED BY <1>5, <1>6

\* What the store holds decides which step of RangeStore a step is.
LEMMA StoredMap ==
  TypeOK /\ Done \in Nat /\ Ordered(Done)
    => Stored = [k \in Key |-> IF k \in HeldSet THEN k ELSE Hole]
<1> SUFFICES ASSUME TypeOK, Done \in Nat, Ordered(Done)
             PROVE  Stored = [k \in Key |-> IF k \in HeldSet THEN k ELSE Hole]
  OBVIOUS
<1>1. \A k \in Key : Stored[k] = IF k \in HeldSet THEN k ELSE Hole
  BY StoredIs, OpfsAssumption DEF HeldSet
<1> HIDE DEF HeldSet
<1> QED BY <1>1 DEF Stored

\* The step of one operation: in a session ranges come, opening takes ranges away,
\* and the end of a session changes nothing.
LEMMA HeldStep ==
  ASSUME OpfsAssumption, AtMostOneSmall, TypeOK, NEW n \in Nat, n = Done, Ordered(n),
         [Next]_vars, ~ faulted'
  PROVE  \/ HeldSet \subseteq HeldSet' /\ mode # "closed" /\ mode' # "closed"
         \/ HeldSet' \subseteq HeldSet /\ mode = "closed" /\ mode' # "closed"
         \/ HeldSet' = HeldSet /\ mode # "closed" /\ mode' = "closed"
         \/ HeldSet' = HeldSet /\ mode' = mode
<1>1. \A k \in Key : k \in HeldSet <=> Holds(n, k)
  BY DEF HeldSet
<1>2. ASSUME \A k \in Key : Holds(Done, k)' <=> Holds(n, k)
      PROVE  HeldSet' = HeldSet
  BY <1>1, <1>2 DEF HeldSet
<1>3. ASSUME NEW m \in Modes, Open(m)
      PROVE  HeldSet' \subseteq HeldSet /\ mode = "closed" /\ mode' # "closed"
  <2>1. mode = "closed" /\ ~ Busy /\ n = Len(meta) /\ op' = op
    BY <1>3 DEF Open, TypeOK, Busy, Done
  <2>2. mode' # "closed" /\ ~ Busy' /\ Done' = size'
    BY <1>3, <2>1 DEF Open, OpfsAssumption, Busy, Done
  <2>3. CASE Keeps
    <3>1. size' = LoadedSize(LoadIndex) /\ meta' = meta
      BY <1>3, <2>3 DEF Open
    <3>2. size' = n
      BY <2>1, <3>1, LoadedSizeIs DEF Ordered
    <3>3. \A k \in Key : Holds(Done, k)' <=> Holds(n, k)
      BY <2>1, <2>2, <3>1, <3>2 DEF Holds
    <3> QED BY <1>2, <2>1, <2>2, <3>3
  <2>4. CASE ~ Keeps
    <3>1. size' = 0
      BY <1>3, <2>4, NoIndexSize DEF Open
    <3>2. HeldSet' = {}
      BY <2>2, <3>1 DEF HeldSet, Holds
    <3> QED BY <2>1, <2>2, <3>2
  <2> QED BY <2>3, <2>4
<1>4. ASSUME NEW k \in Key, PutCall(k) PROVE HeldSet' = HeldSet /\ mode' = mode
  BY <1>4 DEF PutCall, HeldSet, Holds, Done, Busy
<1>5. CASE PutStart
  <2>1. /\ ~ Busy /\ mode # "closed" /\ mode' = mode /\ meta' = meta /\ size = n
        /\ op' = [key |-> Head(waiting), at |-> n, block |-> FALSE, entry |-> FALSE]
    BY <1>5 DEF PutStart, TypeOK, Done
  <2>2. Head(waiting) \in Key
    BY <1>5 DEF PutStart, TypeOK
  <2>3. Busy' /\ ~ op'.block
    <3> DEFINE h == Head(waiting)
    <3>1. /\ h \in Key
          /\ op' = [key |-> h, at |-> n, block |-> FALSE, entry |-> FALSE]
      BY <2>1, <2>2
    <3> HIDE DEF h
    <3>2. op' \in [key : Key, at : Nat, block : BOOLEAN, entry : BOOLEAN] /\ op'.block = FALSE
      BY <3>1
    <3>3. op' # Idle
      BY <3>2 DEF OpfsAssumption
    <3> QED BY <3>2, <3>3 DEF Busy
  <2>4. Done' = n
    BY <2>1, <2>3 DEF Done
  <2>5. \A k \in Key : Holds(Done, k)' <=> Holds(n, k)
    BY <2>1, <2>3, <2>4 DEF Holds
  <2> QED BY <1>2, <2>1, <2>5
<1>6. CASE WriteBlock
  <2>1. /\ Busy /\ mode # "closed" /\ mode' = mode /\ meta' = meta /\ op.at = n
        /\ op \in [key : Key, at : Nat, block : BOOLEAN, entry : BOOLEAN]
        /\ op' = [op EXCEPT !.block = TRUE] /\ ~ op.block
    BY <1>6 DEF WriteBlock, Done, TypeOK, Busy
  <2>2. Busy' /\ op'.at = n /\ Done' = n
    BY <2>1 DEF Busy, OpfsAssumption, Done
  <2>3. \A k \in Key : Holds(n, k) => Holds(Done, k)'
    BY <2>1, <2>2 DEF Holds
  <2> QED BY <1>1, <2>1, <2>3 DEF HeldSet
<1>7. CASE WriteEntry
  <2> DEFINE e == [key |-> op.key, offset |-> n]
  <2>1. /\ Busy /\ mode # "closed" /\ mode' = mode /\ op.at = n /\ ~ op.entry
        /\ op \in [key : Key, at : Nat, block : BOOLEAN, entry : BOOLEAN]
        /\ op' = [op EXCEPT !.entry = TRUE]
    BY <1>7 DEF WriteEntry, Done, TypeOK, Busy
  <2>2. meta' = WriteAt(meta, n, e, [key |-> First, offset |-> 0])
    BY <1>7, <2>1 DEF WriteEntry
  <2>3. Len(meta) = n
    BY <2>1 DEF Ordered, PutInv
  <2>4. \A i \in 1 .. n : meta'[i] = meta[i]
    <3>1. Len(meta) \in Nat /\ n <= Len(meta) /\ Len(meta) <= n + 1
      BY <2>3
    <3> HIDE DEF e
    <3> QED BY <2>2, <3>1, WriteAtEnd
  <2>5. Busy' /\ Done' = n
    BY <2>1 DEF Busy, OpfsAssumption, Done
  <2>6. \A k \in Key : Holds(n, k) => Holds(Done, k)'
    BY <2>1, <2>4, <2>5 DEF Holds
  <2> QED BY <1>1, <2>1, <2>6 DEF HeldSet
<1>8. CASE SyncWriteFails
  <2>1. /\ Busy /\ mode = "sync" /\ mode' = mode /\ ~ op.entry /\ ~ Busy'
        /\ meta' = meta /\ size' = size
    BY <1>8 DEF SyncWriteFails, Busy
  <2>2. size = n /\ Done' = n
    BY <2>1 DEF Ordered, PutInv, Done
  <2>3. \A k \in Key : Holds(Done, k)' <=> Holds(n, k)
    BY <2>1, <2>2 DEF Holds
  <2> QED BY <1>2, <2>1, <2>3
<1>9. CASE AsyncWriteFails
  BY <1>9 DEF AsyncWriteFails
\* A put that is done, or cut by the end of its session, is an entry from then on.
<1>10. ASSUME Busy, op.block, op.entry, ~ Busy', meta' = meta, Done' = n + 1
       PROVE  HeldSet' = HeldSet
  <2>1. meta[n + 1].key = op.key
    BY <1>10, Grown
  <2>2. \A i \in 1 .. n + 1 : i \in 1 .. n \/ i = n + 1
    OBVIOUS
  <2>3. n + 1 \in 1 .. n + 1 /\ \A i \in 1 .. n : i \in 1 .. n + 1
    OBVIOUS
  <2>4. \A k \in Key : Holds(Done, k)' <=> Holds(n, k)
    BY <1>10, <2>1, <2>2, <2>3 DEF Holds
  <2> QED BY <1>2, <2>4
<1>11. CASE PutDone
  <2>1. /\ Busy /\ mode # "closed" /\ mode' = mode /\ op.block /\ op.entry /\ ~ Busy' /\ meta' = meta
    BY <1>11, Shapes DEF PutDone, Busy
  <2>2. size' = n + 1
    <3>1. mode = "sync" \/ mode = "async"
      BY <2>1 DEF TypeOK, OpfsAssumption
    <3> QED BY <1>11, <2>1, <3>1 DEF PutDone, Extend, Ordered, PutInv
  <2>3. Done' = n + 1
    BY <2>1, <2>2 DEF Done
  <2> QED BY <1>10, <2>1, <2>3
<1>12. CASE SessionEnd
  <2>1. /\ mode # "closed" /\ mode' = "closed" /\ ~ Busy' /\ meta' = meta
        /\ ~ (mode = "async" /\ Busy) /\ Done' = Len(meta)
    BY <1>12 DEF SessionEnd, Busy, Done
  <2>2. CASE Busy /\ op.entry
    <3>1. mode = "sync"
      BY <2>1, <2>2 DEF TypeOK, OpfsAssumption
    <3>2. op.block /\ Len(meta) = n + 1
      BY <2>2, <3>1 DEF Ordered, PutInv
    <3> QED BY <1>10, <2>1, <2>2, <3>2
  <2>3. CASE ~ (Busy /\ op.entry)
    <3>1. Len(meta) = n
      BY <2>3 DEF Ordered, PutInv
    <3>2. \A k \in Key : Holds(Done, k)' <=> Holds(n, k)
      BY <2>1, <2>3, <3>1 DEF Holds
    <3> QED BY <1>2, <2>1, <3>2
  <2> QED BY <2>2, <2>3
<1>13. CASE UNCHANGED vars
  BY <1>13 DEF vars, HeldSet, Holds, Done, Busy
<1> QED BY <1>3, <1>4, <1>5, <1>6, <1>7, <1>8, <1>9, <1>11, <1>12, <1>13 DEF Next

\* Every step is one of the abstract store, or none.
LEMMA StepRefines ==
  ASSUME OpfsAssumption, AtMostOneSmall, IInv, IInv', [Next]_vars
  PROVE  [faulted' \/ RS!Next]_RS!svars
<1>1. TypeOK /\ TypeOK' /\ Done \in Nat /\ Done' \in Nat
  BY DoneType, StepType DEF IInv, TypeOK, Done, Busy
<1> SUFFICES ASSUME ~ faulted' PROVE RS!Next \/ UNCHANGED RS!svars
  OBVIOUS
<1>2. ~ faulted
  BY DEF Next, Open, PutCall, PutStart, WriteBlock, WriteEntry, SyncWriteFails,
         AsyncWriteFails, PutDone, SessionEnd, vars
<1>3. PICK n \in Nat : n = Done /\ Ordered(n)
  BY <1>1, <1>2 DEF IInv
<1>4. Stored = [k \in Key |-> IF k \in HeldSet THEN k ELSE Hole]
  BY <1>1, <1>3, StoredMap
<1>5. Stored' = [k \in Key |-> IF k \in HeldSet' THEN k ELSE Hole]
  <2>1. (TypeOK /\ Done \in Nat /\ Ordered(Done) =>
           Stored = [k \in Key |-> IF k \in HeldSet THEN k ELSE Hole])'
    BY StoredMap, PTL
  <2>2. Ordered(Done)'
    BY <1>1 DEF IInv
  <2> QED BY <1>1, <2>1, <2>2
<1> DEFINE a == HeldSet
           b == HeldSet'
<1>6. a \subseteq Key /\ b \subseteq Key
  BY DEF HeldSet
<1>7. ASSUME a \subseteq b
      PROVE  Stored' = [k \in Key |-> IF k \in b THEN [x \in Key |-> x][k] ELSE Stored[k]]
  <2> HIDE DEF a, b
  <2> QED BY <1>4, <1>5, <1>7 DEF a, b
<1>8. ASSUME b \subseteq a
      PROVE  Stored' = [k \in Key |-> IF k \in b THEN Stored[k] ELSE Hole]
  BY <1>4, <1>5, <1>8
<1>9. a = b => Stored' = Stored
  BY <1>4, <1>5
<1> HIDE DEF a, b
<1>10. CASE a \subseteq b /\ mode # "closed" /\ mode' # "closed"
  BY <1>6, <1>7, <1>10 DEF RS!Next, RS!Put, RS!Written
<1>11. CASE b \subseteq a /\ mode = "closed" /\ mode' # "closed"
  BY <1>6, <1>8, <1>11 DEF RS!Next, RS!Open, RS!Found
<1>12. CASE a = b /\ mode # "closed" /\ mode' = "closed"
  BY <1>9, <1>12 DEF RS!Next, RS!Close
<1>13. CASE a = b /\ mode' = mode
  BY <1>9, <1>13 DEF RS!svars
<1> QED BY <1>1, <1>3, <1>10, <1>11, <1>12, <1>13, HeldStep DEF a, b

\* Two append-only files with an index beside them, in sessions that end between
\* any two writes, are a store in which every range is stored whole or not at all.
THEOREM StoreRefinement == AtMostOneSmall => (Spec => IsRangeStore)
<1> SUFFICES ASSUME AtMostOneSmall PROVE Spec => IsRangeStore
  OBVIOUS
<1> USE OpfsAssumption
<1>1. Init => RS!Init
  <2> SUFFICES ASSUME Init PROVE RS!Init
    OBVIOUS
  <2>1. Complete = 0 /\ mode = "closed"
    BY DEF Init, Complete
  <2>2. \A k \in Key : LoadIndex[k] = NoOffset
    BY <2>1 DEF LoadIndex
  <2> QED BY <2>1, <2>2 DEF RS!Init, Stored
<1>2. IInv /\ IInv' /\ [Next]_vars => [faulted' \/ RS!Next]_RS!svars
  BY StepRefines
<1> QED BY <1>1, <1>2, StoreInvariant, PTL DEF Spec, IsRangeStore

\* And what its sessions read is what that store holds.
THEOREM ReadsAreOfTheStore == AtMostOneSmall => (Spec => []GetsWhatIsStored)
<1> SUFFICES ASSUME AtMostOneSmall PROVE Spec => []GetsWhatIsStored
  OBVIOUS
<1>1. IInv => GetsWhatIsStored
  BY ReadsWhatIsStored, OpfsAssumption
<1> QED BY <1>1, StoreInvariant, PTL

============================================================================
