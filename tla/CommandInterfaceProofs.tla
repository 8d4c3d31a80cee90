----------------------- MODULE CommandInterfaceProofs -----------------------
(* Theorems about CommandInterface, for any number of callers and requests,  *)
(* and queues of any length.                                                 *)
EXTENDS CommandInterface, FiniteSetTheorems, TLAPS

----------------------------------------------------------------------------
(* How often a message is in a queue.                                        *)

Places(queue, m) == {i \in DOMAIN queue : queue[i] = m}

\* There are finitely many places.
LEMMA CountType ==
  ASSUME NEW S, NEW q \in Seq(S), NEW m
  PROVE  /\ IsFiniteSet(Places(q, m))
         /\ Count(q, m) = Cardinality(Places(q, m))
         /\ Count(q, m) \in Nat
<1>1. DOMAIN q = 1 .. Len(q) /\ Len(q) \in Nat
  OBVIOUS
<1>2. IsFiniteSet(1 .. Len(q))
  BY <1>1, FS_Interval
<1>3. Places(q, m) \in SUBSET (1 .. Len(q))
  BY <1>1 DEF Places
<1>4. IsFiniteSet(Places(q, m))
  BY <1>2, <1>3, FS_Subset
<1>5. Cardinality(Places(q, m)) \in Nat
  BY <1>4, FS_CardinalityType
<1> QED BY <1>4, <1>5 DEF Count, Places

\* No message is in an empty queue.
LEMMA CountEmpty ==
  ASSUME NEW m
  PROVE  Count(<<>>, m) = 0
<1>1. {i \in DOMAIN <<>> : <<>>[i] = m} = {}
  OBVIOUS
<1> QED BY <1>1, FS_EmptySet DEF Count

\* A message at the end is one more of its kind.
LEMMA CountAppend ==
  ASSUME NEW S, NEW q \in Seq(S), NEW x \in S, NEW m
  PROVE  Count(Append(q, x), m) = Count(q, m) + (IF x = m THEN 1 ELSE 0)
<1>1. /\ DOMAIN Append(q, x) = 1 .. Len(q) + 1
      /\ DOMAIN q = 1 .. Len(q) /\ Len(q) \in Nat
      /\ \A i \in 1 .. Len(q) : Append(q, x)[i] = q[i]
      /\ Append(q, x)[Len(q) + 1] = x
      /\ Append(q, x) \in Seq(S)
  OBVIOUS
<1>2. Count(Append(q, x), m) = Cardinality(Places(Append(q, x), m))
  BY <1>1, CountType
<1>3. IsFiniteSet(Places(q, m)) /\ Count(q, m) = Cardinality(Places(q, m)) /\ Count(q, m) \in Nat
  BY CountType
<1>4. CASE x = m
  <2>1. Places(Append(q, x), m) = Places(q, m) \cup {Len(q) + 1}
    BY <1>1, <1>4 DEF Places
  <2>2. Len(q) + 1 \notin Places(q, m)
    BY <1>1 DEF Places
  <2> QED BY ZenonT(30), <1>2, <1>3, <1>4, <2>1, <2>2, FS_AddElement
<1>5. CASE x # m
  <2>1. Places(Append(q, x), m) = Places(q, m)
    BY <1>1, <1>5 DEF Places
  <2> QED BY <1>2, <1>3, <1>5, <2>1
<1> QED BY <1>4, <1>5

\* A message taken from the head is one less of its kind.
LEMMA CountTail ==
  ASSUME NEW S, NEW q \in Seq(S), q # <<>>, NEW m
  PROVE  Count(q, m) = Count(Tail(q), m) + (IF Head(q) = m THEN 1 ELSE 0)
<1>1. /\ Tail(q) \in Seq(S)
      /\ DOMAIN Tail(q) = 1 .. Len(q) - 1
      /\ DOMAIN q = 1 .. Len(q) /\ Len(q) \in Nat /\ Len(q) >= 1
      /\ \A i \in 1 .. Len(q) - 1 : Tail(q)[i] = q[i + 1]
      /\ Head(q) = q[1]
  OBVIOUS
<1> DEFINE rest == Places(q, m) \ {1}
           f == [i \in Places(Tail(q), m) |-> i + 1]
<1>2. /\ IsFiniteSet(Places(q, m)) /\ Count(q, m) = Cardinality(Places(q, m)) /\ Count(q, m) \in Nat
      /\ IsFiniteSet(Places(Tail(q), m)) /\ Count(Tail(q), m) = Cardinality(Places(Tail(q), m))
      /\ Count(Tail(q), m) \in Nat
  BY <1>1, CountType
<1>3. f \in Bijection(Places(Tail(q), m), rest)
  <2>1. \A i \in Places(Tail(q), m) : i \in Nat /\ i + 1 \in rest
    BY <1>1 DEF Places
  <2>2. f \in [Places(Tail(q), m) -> rest]
    BY <2>1
  <2>3. \A a, b \in Places(Tail(q), m) : f[a] = f[b] => a = b
    BY <2>1
  <2>4. \A y \in rest : y - 1 \in Places(Tail(q), m) /\ f[y - 1] = y
    <3> SUFFICES ASSUME NEW y \in rest
                 PROVE  y - 1 \in Places(Tail(q), m) /\ f[y - 1] = y
      OBVIOUS
    <3>1. y \in 1 .. Len(q) /\ y # 1 /\ q[y] = m
      BY <1>1 DEF Places
    <3>2. y - 1 \in 1 .. Len(q) - 1 /\ (y - 1) + 1 = y
      BY <3>1, <1>1
    <3>3. y - 1 \in Places(Tail(q), m)
      BY <3>1, <3>2, <1>1 DEF Places
    <3> QED BY <3>2, <3>3
  <2> QED BY <2>2, <2>3, <2>4 DEF Bijection, Injection, IsInjective, Surjection
<1> HIDE DEF f
<1>4. ExistsBijection(Places(Tail(q), m), rest)
  BY <1>3 DEF ExistsBijection
<1>5. Cardinality(rest) = Count(Tail(q), m)
  BY <1>2, <1>4, FS_Bijection
<1>6. Cardinality(rest) = IF 1 \in Places(q, m) THEN Cardinality(Places(q, m)) - 1 ELSE Cardinality(Places(q, m))
  BY <1>2, FS_RemoveElement
<1>7. 1 \in Places(q, m) <=> Head(q) = m
  BY <1>1 DEF Places
<1> HIDE DEF rest
<1> QED BY <1>2, <1>5, <1>6, <1>7

\* Other messages at the end change nothing.
LEMMA CountMore ==
  ASSUME NEW S, NEW q \in Seq(S), NEW p \in Seq(S), NEW m, \A i \in DOMAIN p : p[i] # m
  PROVE  Count(q \o p, m) = Count(q, m)
<1>1. /\ DOMAIN (q \o p) = 1 .. Len(q) + Len(p)
      /\ DOMAIN q = 1 .. Len(q) /\ DOMAIN p = 1 .. Len(p)
      /\ Len(q) \in Nat /\ Len(p) \in Nat
      /\ \A i \in 1 .. Len(q) : (q \o p)[i] = q[i]
      /\ \A i \in 1 .. Len(p) : (q \o p)[i + Len(q)] = p[i]
  OBVIOUS
<1>2. \A i \in DOMAIN (q \o p) : i \in DOMAIN q \/ (i - Len(q) \in DOMAIN p /\ (q \o p)[i] = p[i - Len(q)])
  <2> SUFFICES ASSUME NEW i \in DOMAIN (q \o p), i \notin DOMAIN q
               PROVE  i - Len(q) \in DOMAIN p /\ (q \o p)[i] = p[i - Len(q)]
    OBVIOUS
  <2>1. i - Len(q) \in 1 .. Len(p) /\ (i - Len(q)) + Len(q) = i
    BY <1>1
  <2> QED BY <2>1, <1>1
<1>3. Places(q \o p, m) = Places(q, m)
  BY <1>1, <1>2 DEF Places
<1> QED BY <1>3 DEF Count, Places

\* A message that is in a queue is counted.
LEMMA CountHead ==
  ASSUME NEW S, NEW q \in Seq(S), q # <<>>
  PROVE  Count(q, Head(q)) >= 1
<1>1. Tail(q) \in Seq(S)
  OBVIOUS
<1>2. Count(Tail(q), Head(q)) \in Nat
  BY <1>1, CountType
<1> QED BY <1>2, CountTail

----------------------------------------------------------------------------
(* The inductive invariant.                                                  *)

\* The promises of the client and those who wait for them.
ClientInv ==
  /\ client \in {"starting", "ready", "failed", "exited"}
  /\ pending \subseteq Slot
  /\ holders \in [Slot -> SUBSET Caller]
  /\ \A s \in Slot : s \in pending <=> holders[s] # {}
  /\ call \in [Caller -> [wait : Slot \cup {"idle"}, full : BOOLEAN]]
  /\ pausedLate \in BOOLEAN
  /\ NobodyIsForgotten

MachineInv ==
  /\ machine \in {"off", "running", "asleep", "done"}
  /\ paused \in BOOLEAN
  /\ ticking \in BOOLEAN
  /\ exitRequested \in BOOLEAN
  /\ aborted \in BOOLEAN
  /\ errors \in 0 .. MaxErrors

QueueInv ==
  /\ toWorker \in Seq(ToWorkerMessage)
  /\ toClient \in Seq(ToClientMessage)

Single == Joined \cup {"fs-delete-file"}
Alive == client \in {"starting", "ready"}

\* The machine is started once; a sleep has one wake-up, or none after an abort; a
\* request has one answer.
CountInv ==
  Alive =>
    /\ Count(toWorker, "run") = (IF machine = "off" THEN 1 ELSE 0)
    /\ WakeUps <= (IF machine = "asleep" THEN 1 ELSE 0)
    /\ machine = "asleep" /\ ~ Dead => WakeUps = 1
    /\ \A s \in Single : Count(toWorker, s) + Count(toClient, s) = (IF s \in pending THEN 1 ELSE 0)

IInv == ClientInv /\ MachineInv /\ QueueInv /\ CountInv

LEMMA Implied ==
  ASSUME IInv
  PROVE  TypeOK /\ OneWakeUp /\ OneAnswerPerPromise /\ NobodyIsForgotten
<1>1. TypeOK
  BY DEF IInv, ClientInv, MachineInv, QueueInv, TypeOK
<1>2. OneWakeUp /\ OneAnswerPerPromise
  BY DEF IInv, CountInv, Alive, Single, OneWakeUp, OneAnswerPerPromise
<1>3. NobodyIsForgotten
  BY DEF IInv, ClientInv
<1> QED BY <1>1, <1>2, <1>3

\* What may happen to a queue, counted.
LEMMA QueueCounts ==
  ASSUME NEW S, NEW q \in Seq(S)
  PROVE  /\ \A m : Count(q, m) \in Nat
         /\ \A x \in S : /\ Append(q, x) \in Seq(S)
                         /\ \A m : Count(Append(q, x), m) = Count(q, m) + (IF x = m THEN 1 ELSE 0)
         /\ q # <<>> => /\ Tail(q) \in Seq(S) /\ Head(q) \in S
                        /\ \A m : Count(Tail(q), m) \in Nat
                        /\ \A m : Count(q, m) = Count(Tail(q), m) + (IF Head(q) = m THEN 1 ELSE 0)
<1>1. \A m : Count(q, m) \in Nat
  BY CountType
<1>2. ASSUME NEW x \in S
      PROVE  /\ Append(q, x) \in Seq(S)
             /\ \A m : Count(Append(q, x), m) = Count(q, m) + (IF x = m THEN 1 ELSE 0)
  BY CountAppend
<1>3. ASSUME q # <<>>
      PROVE  /\ Tail(q) \in Seq(S) /\ Head(q) \in S
             /\ \A m : Count(Tail(q), m) \in Nat
             /\ \A m : Count(q, m) = Count(Tail(q), m) + (IF Head(q) = m THEN 1 ELSE 0)
  <2>1. Tail(q) \in Seq(S) /\ Head(q) \in S
    BY <1>3
  <2>2. \A m : Count(Tail(q), m) \in Nat
    BY <2>1, CountType
  <2>3. \A m : Count(q, m) = Count(Tail(q), m) + (IF Head(q) = m THEN 1 ELSE 0)
    BY <1>3, CountTail
  <2> QED BY <2>1, <2>2, <2>3
<1> QED BY <1>1, <1>2, <1>3

\* Messages to the worker that nobody's promise stands for.
Quiet == {"resume", "exit", "pause", "pack", "pack-full"}

LEMMA SingleOther ==
  \A x \in Single : x \notin {"run", "sync-sleep", "server-ready", "panic-ready", "exit",
                           "resume", "pause", "drives", "pack", "pack-full", "drives-null", "drives-changes"}
BY DEF Single, Joined

LEMMA ClientSame ==
  ASSUME ClientInv, UNCHANGED clientVars
  PROVE  ClientInv' /\ Alive' = Alive
BY DEF ClientInv, clientVars, NobodyIsForgotten, Alive

----------------------------------------------------------------------------
(* The worker's actions.                                                     *)

\* A handler takes one message.
LEMMA HandleStep ==
  ASSUME IInv, NEW m, Handle(m)
  PROVE  /\ toWorker' \in Seq(ToWorkerMessage)
         /\ m \in ToWorkerMessage
         /\ \A x : /\ Count(toWorker, x) \in Nat /\ Count(toWorker', x) \in Nat
                  /\ Count(toClient, x) \in Nat
                  /\ Count(toWorker, x) = Count(toWorker', x) + (IF x = m THEN 1 ELSE 0)
         /\ toClient \in Seq(ToClientMessage)
         /\ \A y \in ToClientMessage :
              /\ Append(toClient, y) \in Seq(ToClientMessage)
              /\ \A x : Count(Append(toClient, y), x) = Count(toClient, x) + (IF x = y THEN 1 ELSE 0)
<1>1. toWorker \in Seq(ToWorkerMessage) /\ toClient \in Seq(ToClientMessage)
  BY DEF IInv, QueueInv
<1>2. toWorker # <<>> /\ Head(toWorker) = m /\ toWorker' = Tail(toWorker)
  BY DEF Handle
<1>3. /\ \A x : Count(toWorker, x) \in Nat
      /\ Tail(toWorker) \in Seq(ToWorkerMessage) /\ Head(toWorker) \in ToWorkerMessage
      /\ \A x : Count(Tail(toWorker), x) \in Nat
      /\ \A x : Count(toWorker, x) = Count(Tail(toWorker), x) + (IF Head(toWorker) = x THEN 1 ELSE 0)
  BY <1>1, <1>2, QueueCounts
<1>4. /\ \A x : Count(toClient, x) \in Nat
      /\ \A y \in ToClientMessage :
           /\ Append(toClient, y) \in Seq(ToClientMessage)
           /\ \A x : Count(Append(toClient, y), x) = Count(toClient, x) + (IF y = x THEN 1 ELSE 0)
  BY <1>1, QueueCounts
<1> QED BY <1>1, <1>2, <1>3, <1>4

\* Handlers of messages that are neither counted nor answered.
LEMMA QuietStep ==
  ASSUME IInv, NEW m \in {"resume", "pause", "exit", "drives", "pack", "pack-full"}, Handle(m),
         UNCHANGED clientVars, UNCHANGED <<machine, ticking>>, Dead => Dead', MachineInv',
         \/ toClient' = toClient
         \/ \E y \in {"pack", "drives-null", "drives-changes"} : toClient' = Append(toClient, y)
  PROVE  IInv'
<1>1. /\ toWorker' \in Seq(ToWorkerMessage)
      /\ \A x : Count(toWorker, x) \in Nat /\ Count(toWorker', x) \in Nat /\ Count(toClient, x) \in Nat
      /\ \A x : x # m => Count(toWorker, x) = Count(toWorker', x)
      /\ toClient \in Seq(ToClientMessage)
      /\ \A y \in ToClientMessage :
           /\ Append(toClient, y) \in Seq(ToClientMessage)
           /\ \A x : Count(Append(toClient, y), x) = Count(toClient, x) + (IF x = y THEN 1 ELSE 0)
  BY HandleStep
<1>2. ClientInv' /\ Alive' = Alive /\ pending' = pending
  BY ClientSame DEF IInv, clientVars
<1>3. /\ toClient' \in Seq(ToClientMessage)
      /\ \A x : x \notin {"pack", "drives-null", "drives-changes"} => Count(toClient', x) = Count(toClient, x)
  <2>1. CASE toClient' = toClient
    BY <2>1, <1>1
  <2>2. ASSUME NEW y \in {"pack", "drives-null", "drives-changes"}, toClient' = Append(toClient, y)
        PROVE  /\ toClient' \in Seq(ToClientMessage)
               /\ \A x : x # y => Count(toClient', x) = Count(toClient, x)
    BY <2>2, <1>1 DEF ToClientMessage
  <2> QED BY <2>1, <2>2
<1>4. \A x \in Single \cup {"sync-sleep"} : Count(toWorker', x) = Count(toWorker, x) /\ Count(toClient', x) = Count(toClient, x)
  BY <1>1, <1>3 DEF Single, Joined
<1>5. Count(toWorker', "run") = Count(toWorker, "run")
  BY <1>1
<1>6. CountInv'
  BY <1>2, <1>4, <1>5 DEF IInv, CountInv, WakeUps, Dead
<1>7. QueueInv'
  BY <1>1, <1>3 DEF QueueInv
<1> QED BY <1>2, <1>6, <1>7 DEF IInv

LEMMA HandleQuietStep ==
  ASSUME InterfaceAssumption, IInv, HandleResume \/ HandlePause \/ HandleExit \/ HandlePackFails
  PROVE  IInv'
<1>1. MachineInv
  BY DEF IInv
<1>2. CASE HandleResume
  <2>1. Handle("resume") /\ UNCHANGED clientVars /\ UNCHANGED <<machine, ticking, aborted>> /\ toClient' = toClient
    BY <1>2 DEF HandleResume
  <2>2. MachineInv'
    BY <1>1, <1>2 DEF HandleResume, MachineInv
  <2> QED BY <2>1, <2>2, QuietStep DEF Dead
<1>3. CASE HandlePause
  <2>1. Handle("pause") /\ UNCHANGED clientVars /\ UNCHANGED <<machine, ticking, aborted>> /\ toClient' = toClient
    BY <1>3 DEF HandlePause
  <2>2. MachineInv'
    BY <1>1, <1>3 DEF HandlePause, MachineInv
  <2> QED BY <2>1, <2>2, QuietStep DEF Dead
<1>4. CASE HandleExit
  <2>1. Handle("exit") /\ UNCHANGED clientVars /\ UNCHANGED <<machine, ticking, aborted>> /\ toClient' = toClient
    BY <1>4 DEF HandleExit
  <2>2. MachineInv'
    BY <1>1, <1>4 DEF HandleExit, MachineInv
  <2> QED BY <2>1, <2>2, QuietStep DEF Dead
<1>5. CASE HandlePackFails
  <2>1. /\ Handle("pack-full") /\ UNCHANGED clientVars /\ UNCHANGED <<machine, ticking>>
        /\ toClient' = toClient /\ aborted' = TRUE
    BY <1>5 DEF HandlePackFails
  <2>2. MachineInv'
    BY <1>1, <1>5 DEF HandlePackFails, MachineInv, InterfaceAssumption
  <2> QED BY <2>1, <2>2, QuietStep DEF Dead
<1> QED BY <1>2, <1>3, <1>4, <1>5

\* A request that has a promise of its own is answered: one message for one.
LEMMA HandleRequestStep ==
  ASSUME IInv, NEW s \in Requests, HandleRequest(s)
  PROVE  IInv'
<1>1. Handle(s) /\ UNCHANGED clientVars /\ UNCHANGED workerVars
      /\ \E y \in Answer(s) : toClient' = Append(toClient, y)
  BY DEF HandleRequest
<1>2. MachineInv' /\ UNCHANGED <<machine, ticking, aborted>>
  BY <1>1 DEF IInv, MachineInv, workerVars
<1>3. CASE s \in {"drives", "pack", "pack-full"}
  <2>1. \E y \in {"pack", "drives-null", "drives-changes"} : toClient' = Append(toClient, y)
    BY <1>1, <1>3 DEF Answer
  <2> QED BY <1>1, <1>2, <1>3, <2>1, QuietStep DEF Dead
<1>4. CASE s \in Single
  <2>1. toClient' = Append(toClient, s) /\ s \in ToClientMessage
    BY <1>1, <1>4 DEF Answer, Single, Joined, ToClientMessage
  <2>2. /\ toWorker' \in Seq(ToWorkerMessage)
        /\ \A x : /\ Count(toWorker, x) \in Nat /\ Count(toWorker', x) \in Nat
                 /\ Count(toClient, x) \in Nat
                 /\ Count(toWorker, x) = Count(toWorker', x) + (IF x = s THEN 1 ELSE 0)
        /\ toClient' \in Seq(ToClientMessage)
        /\ \A x : Count(toClient', x) = Count(toClient, x) + (IF x = s THEN 1 ELSE 0)
    BY <1>1, <2>1, HandleStep
  <2>3. ClientInv' /\ Alive' = Alive /\ pending' = pending
    BY <1>1, ClientSame DEF IInv, clientVars
  <2>4. \A x : Count(toWorker', x) + Count(toClient', x) = Count(toWorker, x) + Count(toClient, x)
    <3> SUFFICES ASSUME NEW x
                 PROVE  Count(toWorker', x) + Count(toClient', x) = Count(toWorker, x) + Count(toClient, x)
      OBVIOUS
    <3>1. CASE x = s
      BY <2>2, <3>1
    <3>2. CASE x # s
      BY <2>2, <3>2
    <3> QED BY <3>1, <3>2
  <2>5. s # "run" /\ Count(toWorker', "run") = Count(toWorker, "run")
    BY <2>2, <1>4 DEF Single, Joined
  <2>6. CountInv'
    BY <1>2, <2>3, <2>4, <2>5 DEF IInv, CountInv, WakeUps, Dead
  <2> QED BY <1>2, <2>2, <2>3, <2>6 DEF IInv, QueueInv
<1> QED BY <1>3, <1>4 DEF Requests, Single

\* A machine that is started was off; its first sleep has its wake-up.
LEMMA HandleRunStep ==
  ASSUME IInv, HandleRun
  PROVE  IInv'
<1>1. PICK ready \in {"server-ready", "panic-ready"} :
        toClient' = toClient \o <<"sync-sleep", ready>>
  BY DEF HandleRun
<1>2. /\ Handle("run") /\ machine' = "asleep"
      /\ UNCHANGED clientVars /\ UNCHANGED <<paused, ticking, exitRequested, aborted, errors>>
  BY DEF HandleRun
<1>3. /\ toWorker' \in Seq(ToWorkerMessage)
      /\ \A x : /\ Count(toWorker, x) \in Nat /\ Count(toWorker', x) \in Nat
               /\ Count(toClient, x) \in Nat
               /\ Count(toWorker, x) = Count(toWorker', x) + (IF x = "run" THEN 1 ELSE 0)
      /\ toClient \in Seq(ToClientMessage)
      /\ \A y \in ToClientMessage :
           /\ Append(toClient, y) \in Seq(ToClientMessage)
           /\ \A x : Count(Append(toClient, y), x) = Count(toClient, x) + (IF x = y THEN 1 ELSE 0)
  BY <1>2, HandleStep
<1>4. "sync-sleep" \in ToClientMessage /\ ready \in ToClientMessage
  BY DEF ToClientMessage
<1> DEFINE mid == Append(toClient, "sync-sleep")
<1>5. toClient' = Append(mid, ready)
  BY <1>1, <1>3
<1>6. mid \in Seq(ToClientMessage) /\ \A x : Count(mid, x) = Count(toClient, x) + (IF x = "sync-sleep" THEN 1 ELSE 0)
  BY <1>3, <1>4
<1> HIDE DEF mid
<1>7. toClient' \in Seq(ToClientMessage) /\ \A x : Count(toClient', x) = Count(mid, x) + (IF ready = x THEN 1 ELSE 0)
  BY <1>4, <1>5, <1>6, QueueCounts
<1>8. /\ Count(toClient', "sync-sleep") = Count(toClient, "sync-sleep") + 1
      /\ \A x \in Single : Count(toClient', x) = Count(toClient, x)
  <2>1. Count(mid, "sync-sleep") = Count(toClient, "sync-sleep") + 1
    BY <1>6
  <2>2. Count(toClient', "sync-sleep") = Count(mid, "sync-sleep")
    <3>1. ready # "sync-sleep" /\ Count(mid, "sync-sleep") \in Nat
      BY <2>1, <1>3
    <3> QED BY <3>1, <1>7
  <2>3. ASSUME NEW x \in Single PROVE Count(toClient', x) = Count(toClient, x)
    <3>1. x # "sync-sleep" /\ x # ready
      BY SingleOther
    <3>2. Count(mid, x) = Count(toClient, x) /\ Count(toClient, x) \in Nat
      BY <3>1, <1>3, <1>6
    <3> QED BY <3>1, <3>2, <1>7
  <2> QED BY <2>1, <2>2, <2>3
<1>9. /\ Count(toWorker', "sync-sleep") = Count(toWorker, "sync-sleep")
      /\ \A x \in Single : Count(toWorker', x) = Count(toWorker, x)
      /\ Count(toWorker, "run") = Count(toWorker', "run") + 1
  <2>1. Count(toWorker', "sync-sleep") = Count(toWorker, "sync-sleep")
    BY <1>3
  <2>2. ASSUME NEW x \in Single PROVE Count(toWorker', x) = Count(toWorker, x)
    BY <1>3, SingleOther
  <2>3. Count(toWorker, "run") = Count(toWorker', "run") + 1
    BY <1>3
  <2> QED BY <2>1, <2>2, <2>3
<1>10. ClientInv' /\ Alive' = Alive /\ pending' = pending
  BY <1>2, ClientSame DEF IInv, clientVars
<1>11. MachineInv'
  BY <1>2 DEF IInv, MachineInv
<1>12. ASSUME Alive
       PROVE  /\ Count(toWorker', "run") = 0
              /\ Count(toWorker', "sync-sleep") + Count(toClient', "sync-sleep") + (IF ticking THEN 1 ELSE 0) = 1
              /\ \A x \in Single : Count(toWorker', x) + Count(toClient', x) = (IF x \in pending THEN 1 ELSE 0)
  <2>1. /\ Count(toWorker, "run") = (IF machine = "off" THEN 1 ELSE 0)
        /\ Count(toWorker, "sync-sleep") + Count(toClient, "sync-sleep") + (IF ticking THEN 1 ELSE 0)
             <= (IF machine = "asleep" THEN 1 ELSE 0)
        /\ \A x \in Single : Count(toWorker, x) + Count(toClient, x) = (IF x \in pending THEN 1 ELSE 0)
    BY <1>12 DEF IInv, CountInv, WakeUps, Dead
  <2>2. machine = "off" /\ Count(toWorker', "run") = 0
    BY <2>1, <1>3, <1>9
  <2>3. Count(toWorker', "sync-sleep") + Count(toClient', "sync-sleep") + (IF ticking THEN 1 ELSE 0) = 1
    BY <2>1, <2>2, <1>3, <1>8, <1>9
  <2> QED BY <2>1, <2>2, <2>3, <1>8, <1>9
<1>13. CountInv'
  BY <1>2, <1>10, <1>12 DEF CountInv, WakeUps, Dead
<1> QED BY <1>3, <1>7, <1>10, <1>11, <1>13 DEF IInv, QueueInv

\* A wake-up arrives: the machine wakes, or asks for another.
LEMMA HandleSyncSleepStep ==
  ASSUME IInv, HandleSyncSleep
  PROVE  IInv'
<1>1. /\ Handle("sync-sleep")
      /\ UNCHANGED clientVars /\ UNCHANGED <<paused, ticking, exitRequested, aborted, errors>>
  BY DEF HandleSyncSleep
<1>2. /\ toWorker' \in Seq(ToWorkerMessage)
      /\ \A x : /\ Count(toWorker, x) \in Nat /\ Count(toWorker', x) \in Nat
               /\ Count(toClient, x) \in Nat
               /\ Count(toWorker, x) = Count(toWorker', x) + (IF x = "sync-sleep" THEN 1 ELSE 0)
      /\ toClient \in Seq(ToClientMessage)
      /\ \A y \in ToClientMessage :
           /\ Append(toClient, y) \in Seq(ToClientMessage)
           /\ \A x : Count(Append(toClient, y), x) = Count(toClient, x) + (IF x = y THEN 1 ELSE 0)
  BY <1>1, HandleStep
<1>3. ClientInv' /\ Alive' = Alive /\ pending' = pending
  BY <1>1, ClientSame DEF IInv, clientVars
<1>4. /\ \A x \in Single : Count(toWorker', x) = Count(toWorker, x)
      /\ Count(toWorker', "run") = Count(toWorker, "run")
      /\ Count(toWorker, "sync-sleep") = Count(toWorker', "sync-sleep") + 1
  <2>1. ASSUME NEW x \in Single PROVE Count(toWorker', x) = Count(toWorker, x)
    BY <1>2, SingleOther
  <2>2. Count(toWorker', "run") = Count(toWorker, "run")
    BY <1>2
  <2>3. Count(toWorker, "sync-sleep") = Count(toWorker', "sync-sleep") + 1
    BY <1>2
  <2> QED BY <2>1, <2>2, <2>3
<1>5. CASE /\ machine' = (IF machine = "asleep" /\ ~ Dead THEN "running" ELSE machine)
           /\ UNCHANGED toClient
  <2>1. MachineInv'
    BY <1>1, <1>5 DEF IInv, MachineInv
  <2>2. ASSUME Alive
        PROVE  /\ machine = "asleep" /\ machine' = (IF Dead THEN "asleep" ELSE "running")
               /\ WakeUps' = 0
    <3>1. machine = "asleep" /\ WakeUps' = 0
      BY <1>1, <1>2, <1>4, <1>5, <2>2 DEF IInv, CountInv, WakeUps
    <3> QED BY <3>1, <1>5 DEF Dead
  <2>3. Dead' = Dead
    BY <1>1 DEF Dead
  <2>4. CountInv'
    BY <2>2, <2>3, <1>3, <1>4, <1>5 DEF IInv, CountInv
  <2> QED BY <1>2, <1>3, <1>5, <2>1, <2>4 DEF IInv, QueueInv
<1>6. CASE toClient' = Append(toClient, "sync-sleep") /\ UNCHANGED machine
  <2>1. MachineInv'
    BY <1>1, <1>6 DEF IInv, MachineInv
  <2>2. /\ toClient' \in Seq(ToClientMessage)
        /\ \A x : Count(toClient', x) = Count(toClient, x) + (IF x = "sync-sleep" THEN 1 ELSE 0)
    BY <1>2, <1>6 DEF ToClientMessage
  <2>3. /\ \A x \in Single : Count(toClient', x) = Count(toClient, x)
        /\ Count(toWorker', "sync-sleep") + Count(toClient', "sync-sleep") = Count(toWorker, "sync-sleep") + Count(toClient, "sync-sleep")
    <3>1. ASSUME NEW x \in Single PROVE Count(toClient', x) = Count(toClient, x)
      BY <1>2, <2>2, SingleOther
    <3>2. Count(toClient', "sync-sleep") = Count(toClient, "sync-sleep") + 1
      BY <2>2
    <3> QED BY <3>1, <3>2, <1>2, <1>4
  <2>4. CountInv'
    BY <1>1, <1>3, <1>4, <1>6, <2>3 DEF IInv, CountInv, WakeUps, Dead
  <2> QED BY <1>2, <1>3, <2>1, <2>2, <2>4 DEF IInv, QueueInv
<1> QED BY <1>5, <1>6 DEF HandleSyncSleep

\* A message to the client, by the machine itself.
LEMMA PostStep ==
  ASSUME IInv, NEW y \in {"sync-sleep", "exit"}, toClient' = Append(toClient, y), UNCHANGED <<clientVars, toWorker>>
  PROVE  /\ ClientInv' /\ Alive' = Alive /\ pending' = pending
         /\ QueueInv'
         /\ \A x : Count(toWorker', x) = Count(toWorker, x) /\ Count(toWorker, x) \in Nat /\ Count(toClient, x) \in Nat
         /\ Count(toClient', "sync-sleep") = Count(toClient, "sync-sleep") + (IF y = "sync-sleep" THEN 1 ELSE 0)
         /\ \A x \in Single : Count(toClient', x) = Count(toClient, x)
<1>1. toWorker \in Seq(ToWorkerMessage) /\ toClient \in Seq(ToClientMessage) /\ y \in ToClientMessage
  BY DEF IInv, QueueInv, ToClientMessage
<1>2. /\ \A x : Count(toWorker, x) \in Nat
      /\ \A x : Count(toClient, x) \in Nat
      /\ toClient' \in Seq(ToClientMessage)
      /\ \A x : Count(toClient', x) = Count(toClient, x) + (IF y = x THEN 1 ELSE 0)
  BY <1>1, QueueCounts
<1>3. ClientInv' /\ Alive' = Alive /\ pending' = pending
  BY ClientSame DEF IInv, clientVars
<1>4. ASSUME NEW x \in Single PROVE Count(toClient', x) = Count(toClient, x)
  BY <1>2, SingleOther
<1>5. Count(toClient', "sync-sleep") = Count(toClient, "sync-sleep") + (IF y = "sync-sleep" THEN 1 ELSE 0)
  BY <1>2
<1> QED BY <1>1, <1>2, <1>3, <1>4, <1>5 DEF QueueInv

LEMMA SleepStep ==
  ASSUME IInv, Sleep
  PROVE  IInv'
<1>1. /\ machine = "running" /\ machine' = "asleep" /\ ticking' = paused
      /\ toClient' = (IF paused THEN toClient ELSE Append(toClient, "sync-sleep"))
      /\ UNCHANGED <<clientVars, toWorker, paused, exitRequested, aborted, errors>>
  BY DEF Sleep
<1>2. MachineInv'
  BY <1>1 DEF IInv, MachineInv
<1>3. ASSUME Alive
      PROVE  Count(toWorker, "sync-sleep") + Count(toClient, "sync-sleep") = 0
  <2>1. Count(toWorker, "sync-sleep") \in Nat /\ Count(toClient, "sync-sleep") \in Nat
    BY CountType DEF IInv, QueueInv
  <2> QED BY <1>1, <1>3, <2>1 DEF IInv, CountInv, WakeUps, Dead
<1>4. CASE paused
  <2>1. ClientInv' /\ Alive' = Alive /\ pending' = pending /\ toClient' = toClient /\ toWorker' = toWorker /\ ticking' = TRUE
    BY <1>1, <1>4, ClientSame DEF IInv, clientVars
  <2>2. CountInv'
    BY <1>1, <1>3, <2>1 DEF IInv, CountInv, WakeUps, Dead
  <2> QED BY <1>2, <2>1, <2>2 DEF IInv, QueueInv
<1>5. CASE ~ paused
  <2>1. toClient' = Append(toClient, "sync-sleep") /\ ticking' = FALSE
    BY <1>1, <1>5 DEF IInv, MachineInv
  <2>2. /\ ClientInv' /\ Alive' = Alive /\ pending' = pending
        /\ QueueInv'
        /\ \A x : Count(toWorker', x) = Count(toWorker, x) /\ Count(toWorker, x) \in Nat /\ Count(toClient, x) \in Nat
        /\ Count(toClient', "sync-sleep") = Count(toClient, "sync-sleep") + 1
        /\ \A x \in Single : Count(toClient', x) = Count(toClient, x)
    BY <1>1, <2>1, PostStep
  <2>3. CountInv'
    BY <1>1, <1>3, <2>1, <2>2 DEF IInv, CountInv, WakeUps, Dead
  <2> QED BY <1>2, <2>2, <2>3 DEF IInv
<1> QED BY <1>4, <1>5

LEMMA TickStep ==
  ASSUME IInv, Tick
  PROVE  IInv'
<1>1. /\ ticking /\ ticking' = FALSE /\ toClient' = Append(toClient, "sync-sleep")
      /\ UNCHANGED <<clientVars, toWorker, machine, paused, exitRequested, aborted, errors>>
  BY DEF Tick
<1>2. MachineInv'
  BY <1>1 DEF IInv, MachineInv
<1>3. /\ ClientInv' /\ Alive' = Alive /\ pending' = pending
      /\ QueueInv'
      /\ \A x : Count(toWorker', x) = Count(toWorker, x) /\ Count(toWorker, x) \in Nat /\ Count(toClient, x) \in Nat
      /\ Count(toClient', "sync-sleep") = Count(toClient, "sync-sleep") + 1
      /\ \A x \in Single : Count(toClient', x) = Count(toClient, x)
  BY <1>1, PostStep
<1>4. CountInv'
  BY <1>1, <1>3 DEF IInv, CountInv, WakeUps, Dead
<1> QED BY <1>2, <1>3, <1>4 DEF IInv

LEMMA FinishStep ==
  ASSUME IInv, Finish
  PROVE  IInv'
<1>1. /\ machine = "running" /\ machine' = "done" /\ toClient' = Append(toClient, "exit")
      /\ UNCHANGED <<clientVars, toWorker, paused, ticking, exitRequested, aborted, errors>>
  BY DEF Finish
<1>2. MachineInv'
  BY <1>1 DEF IInv, MachineInv
<1>3. /\ ClientInv' /\ Alive' = Alive /\ pending' = pending
      /\ QueueInv'
      /\ \A x : Count(toWorker', x) = Count(toWorker, x) /\ Count(toWorker, x) \in Nat /\ Count(toClient, x) \in Nat
      /\ Count(toClient', "sync-sleep") = Count(toClient, "sync-sleep")
      /\ \A x \in Single : Count(toClient', x) = Count(toClient, x)
  BY <1>1, PostStep
<1>4. CountInv'
  BY <1>1, <1>3 DEF IInv, CountInv, WakeUps, Dead
<1> QED BY <1>2, <1>3, <1>4 DEF IInv

----------------------------------------------------------------------------
(* The client's calls.                                                       *)

\* A request and its promise begin together.
LEMMA OpenStep ==
  ASSUME IInv, client = "ready", NEW c \in Caller, NEW s \in Requests \cap Slot, NEW full \in BOOLEAN,
         s \notin pending, Open(c, s), Wait(c, s, full),
         UNCHANGED <<client, toClient, workerVars, pausedLate>>
  PROVE  IInv'
<1>1. /\ pending' = pending \cup {s}
      /\ holders' = [holders EXCEPT ![s] = {c}]
      /\ toWorker' = Append(toWorker, s)
      /\ call' = [call EXCEPT ![c] = [wait |-> s, full |-> full]]
  BY DEF Open, Wait
<1>2. s \in Slot /\ s \in ToWorkerMessage
  BY DEF Requests, Slot, ToWorkerMessage
<1>3. ClientInv'
  <2>1. /\ client' \in {"starting", "ready", "failed", "exited"}
        /\ pending' \subseteq Slot
        /\ holders' \in [Slot -> SUBSET Caller]
        /\ call' \in [Caller -> [wait : Slot \cup {"idle"}, full : BOOLEAN]]
        /\ pausedLate' \in BOOLEAN
    BY <1>1, <1>2 DEF IInv, ClientInv
  <2>2. \A t \in Slot : t \in pending' <=> holders'[t] # {}
    BY <1>1, <1>2 DEF IInv, ClientInv
  <2>3. ASSUME NEW d \in Caller, call'[d].wait \in Slot \ {"pack"}
        PROVE  d \in holders'[call'[d].wait]
    <3>1. CASE d = c
      BY <1>1, <1>2, <3>1 DEF IInv, ClientInv
    <3>2. CASE d # c
      <4>1. call'[d] = call[d] /\ d \in holders[call[d].wait]
        BY <1>1, <3>2, <2>3 DEF IInv, ClientInv, NobodyIsForgotten
      <4>2. call[d].wait # s
        BY <4>1, <1>2 DEF IInv, ClientInv
      <4> QED BY <4>1, <4>2, <1>1, <2>3 DEF IInv, ClientInv
    <3> QED BY <3>1, <3>2
  <2> QED BY <2>1, <2>2, <2>3 DEF ClientInv, NobodyIsForgotten
<1>4. toWorker \in Seq(ToWorkerMessage) /\ toClient \in Seq(ToClientMessage)
  BY DEF IInv, QueueInv
<1>5. /\ toWorker' \in Seq(ToWorkerMessage)
      /\ \A x : Count(toWorker, x) \in Nat
      /\ \A x : Count(toWorker', x) = Count(toWorker, x) + (IF s = x THEN 1 ELSE 0)
  BY <1>1, <1>2, <1>4, QueueCounts
<1>6. \A x : Count(toClient, x) \in Nat
  BY <1>4, QueueCounts
<1>7. MachineInv' /\ UNCHANGED <<machine, ticking, aborted, toClient>> /\ Alive /\ Alive'
  BY DEF IInv, MachineInv, workerVars, Alive
<1>8. /\ Count(toWorker', "run") = Count(toWorker, "run")
      /\ Count(toWorker', "sync-sleep") = Count(toWorker, "sync-sleep")
  <2>1. s # "run" /\ s # "sync-sleep"
    BY DEF Requests, Joined
  <2> QED BY <2>1, <1>5
<1>9. ASSUME NEW x \in Single
      PROVE  Count(toWorker', x) + Count(toClient, x) = (IF x \in pending' THEN 1 ELSE 0)
  <2>1. Count(toWorker, x) + Count(toClient, x) = (IF x \in pending THEN 1 ELSE 0)
    BY <1>7 DEF IInv, CountInv, WakeUps, Dead
  <2>2. CASE x = s
    <3>1. x \notin pending /\ x \in pending'
      BY <1>1, <2>2
    <3>2. Count(toWorker', x) = Count(toWorker, x) + 1
      BY <1>5, <2>2
    <3> QED BY <2>1, <3>1, <3>2, <1>5, <1>6
  <2>3. CASE x # s
    <3>1. x \in pending <=> x \in pending'
      BY <1>1, <2>3
    <3>2. Count(toWorker', x) = Count(toWorker, x)
      BY <1>5, <2>3
    <3> QED BY <2>1, <3>1, <3>2
  <2> QED BY <2>2, <2>3
<1>10. CountInv'
  BY <1>7, <1>8, <1>9 DEF IInv, CountInv, WakeUps, Dead
<1> QED BY <1>3, <1>4, <1>5, <1>7, <1>10 DEF IInv, QueueInv

\* A call that joins a promise.
LEMMA JoinStep ==
  ASSUME IInv, NEW c \in Caller, NEW s \in Slot, NEW full \in BOOLEAN,
         s \in pending, Join(c, s), Wait(c, s, full),
         UNCHANGED <<client, toClient, workerVars, pausedLate>>
  PROVE  IInv'
<1>1. /\ UNCHANGED <<pending, toWorker, toClient, client, pausedLate>>
      /\ holders' = [holders EXCEPT ![s] = @ \cup {c}]
      /\ call' = [call EXCEPT ![c] = [wait |-> s, full |-> full]]
  BY DEF Join, Wait
<1>2. ClientInv'
  <2>1. /\ client' \in {"starting", "ready", "failed", "exited"}
        /\ pending' \subseteq Slot
        /\ holders' \in [Slot -> SUBSET Caller]
        /\ call' \in [Caller -> [wait : Slot \cup {"idle"}, full : BOOLEAN]]
        /\ pausedLate' \in BOOLEAN
    BY <1>1 DEF IInv, ClientInv
  <2>2. \A t \in Slot : t \in pending' <=> holders'[t] # {}
    BY <1>1 DEF IInv, ClientInv
  <2>3. ASSUME NEW d \in Caller, call'[d].wait \in Slot \ {"pack"}
        PROVE  d \in holders'[call'[d].wait]
    <3>1. CASE d = c
      BY <1>1, <3>1 DEF IInv, ClientInv
    <3>2. CASE d # c
      <4>1. call'[d] = call[d] /\ d \in holders[call[d].wait]
        BY <1>1, <3>2, <2>3 DEF IInv, ClientInv, NobodyIsForgotten
      <4> QED BY <4>1, <1>1, <2>3 DEF IInv, ClientInv
    <3> QED BY <3>1, <3>2
  <2> QED BY <2>1, <2>2, <2>3 DEF ClientInv, NobodyIsForgotten
<1>3. MachineInv' /\ UNCHANGED <<machine, ticking, aborted>> /\ Alive' = Alive
  BY <1>1 DEF IInv, MachineInv, workerVars, Alive
<1>4. CountInv'
  BY <1>1, <1>3 DEF IInv, CountInv, WakeUps, Dead
<1> QED BY <1>1, <1>2, <1>3, <1>4 DEF IInv, QueueInv

LEMMA AskStep ==
  ASSUME IInv, NEW c \in Caller, NEW s \in Joined, Ask(c, s)
  PROVE  IInv'
<1>1. /\ client = "ready"
      /\ IF s \in pending THEN Join(c, s) ELSE Open(c, s)
      /\ Wait(c, s, FALSE)
      /\ UNCHANGED <<client, toClient, workerVars, pausedLate>>
  BY DEF Ask, MayCall
<1>2. s \in Requests /\ s \in Slot
  BY DEF Requests, Slot
<1>3. CASE s \in pending
  BY <1>1, <1>2, <1>3, JoinStep
<1>4. CASE s \notin pending
  BY <1>1, <1>2, <1>4, OpenStep
<1> QED BY <1>3, <1>4

LEMMA DeleteStep ==
  ASSUME IInv, NEW c \in Caller, Delete(c)
  PROVE  IInv'
<1>1. /\ client = "ready" /\ "fs-delete-file" \notin pending
      /\ Open(c, "fs-delete-file") /\ Wait(c, "fs-delete-file", FALSE)
      /\ UNCHANGED <<client, toClient, workerVars, pausedLate>>
  BY DEF Delete, MayCall
<1>2. "fs-delete-file" \in Requests \cap Slot
  BY DEF Requests, Slot
<1> QED BY <1>1, <1>2, OpenStep

LEMMA PersistStep ==
  ASSUME IInv, NEW c \in Caller, NEW full \in BOOLEAN, Persist(c, full)
  PROVE  IInv'
<1> DEFINE s == IF "pack" \in pending THEN "pack" ELSE "drives"
<1>1. /\ client = "ready"
      /\ IF s \in pending THEN Join(c, s) ELSE Open(c, s)
      /\ Wait(c, s, full)
      /\ UNCHANGED <<client, toClient, workerVars, pausedLate>>
  BY DEF Persist, MayCall
<1>2. s \in Requests /\ s \in Slot
  BY DEF Requests, Slot
<1> HIDE DEF s
<1>3. CASE s \in pending
  BY <1>1, <1>2, <1>3, JoinStep
<1>4. CASE s \notin pending
  BY <1>1, <1>2, <1>4, OpenStep
<1> QED BY <1>3, <1>4

\* Messages that nobody waits for, as far as they are counted.
LEMMA MoreStep ==
  ASSUME IInv, NEW p \in Seq(Quiet), toWorker' = toWorker \o p,
         UNCHANGED <<client, machine, ticking, aborted>>,
         \A x \in Single : x \in pending' <=> x \in pending
  PROVE  /\ toWorker' \in Seq(ToWorkerMessage)
         /\ \A x \in Single \cup {"run", "sync-sleep"} : Count(toWorker', x) = Count(toWorker, x)
         /\ toClient' = toClient => CountInv'
<1>1. toWorker \in Seq(ToWorkerMessage) /\ p \in Seq(ToWorkerMessage)
  BY DEF IInv, QueueInv, ToWorkerMessage, Requests, Quiet
<1>2. ASSUME NEW x \in Single \cup {"run", "sync-sleep"}
      PROVE  Count(toWorker', x) = Count(toWorker, x)
  <2>1. \A i \in DOMAIN p : p[i] # x
    BY SingleOther DEF Quiet
  <2> QED BY <1>1, <2>1, CountMore
<1>3. ASSUME toClient' = toClient PROVE CountInv'
  BY <1>2, <1>3 DEF IInv, CountInv, WakeUps, Dead, Alive
<1> QED BY <1>1, <1>2, <1>3

LEMMA ExitCallStep ==
  ASSUME IInv, NEW c \in Caller, Exit(c)
  PROVE  IInv'
<1>1. /\ client = "ready" /\ Wait(c, "exit", FALSE)
      /\ UNCHANGED <<client, toClient, workerVars, pausedLate>>
  BY DEF Exit, MayCall
<1>2. "exit" \in Slot
  BY DEF Slot
<1>3. CASE "exit" \in pending
  <2>1. Join(c, "exit")
    BY <1>3 DEF Exit
  <2> QED BY <1>1, <1>2, <1>3, <2>1, JoinStep
<1>4. CASE "exit" \notin pending
  <2>1. /\ pending' = pending \cup {"exit"}
        /\ holders' = [holders EXCEPT !["exit"] = {c}]
        /\ toWorker' = toWorker \o <<"resume", "exit">>
        /\ call' = [call EXCEPT ![c] = [wait |-> "exit", full |-> FALSE]]
    BY <1>1, <1>4 DEF Exit, Wait
  <2>2. ClientInv'
    <3>1. /\ client' \in {"starting", "ready", "failed", "exited"}
          /\ pending' \subseteq Slot
          /\ holders' \in [Slot -> SUBSET Caller]
          /\ call' \in [Caller -> [wait : Slot \cup {"idle"}, full : BOOLEAN]]
          /\ pausedLate' \in BOOLEAN
      BY <1>1, <1>2, <2>1 DEF IInv, ClientInv
    <3>2. \A t \in Slot : t \in pending' <=> holders'[t] # {}
      BY <1>2, <2>1 DEF IInv, ClientInv
    <3>3. ASSUME NEW d \in Caller, call'[d].wait \in Slot \ {"pack"}
          PROVE  d \in holders'[call'[d].wait]
      <4>1. CASE d = c
        BY <1>2, <2>1, <4>1 DEF IInv, ClientInv
      <4>2. CASE d # c
        <5>1. call'[d] = call[d] /\ d \in holders[call[d].wait]
          BY <2>1, <4>2, <3>3 DEF IInv, ClientInv, NobodyIsForgotten
        <5>2. call[d].wait # "exit"
          BY <5>1, <1>2, <1>4 DEF IInv, ClientInv
        <5> QED BY <5>1, <5>2, <2>1, <3>3 DEF IInv, ClientInv
      <4> QED BY <4>1, <4>2
    <3> QED BY <3>1, <3>2, <3>3 DEF ClientInv, NobodyIsForgotten
  <2>3. MachineInv' /\ UNCHANGED <<client, machine, ticking, aborted, toClient>>
    BY <1>1 DEF IInv, MachineInv, workerVars
  <2>4. <<"resume", "exit">> \in Seq(Quiet)
    BY DEF Quiet
  <2>5. \A x \in Single : x \in pending' <=> x \in pending
    BY <2>1, SingleOther
  <2>6. toWorker' \in Seq(ToWorkerMessage) /\ CountInv'
    BY <2>1, <2>3, <2>4, <2>5, MoreStep
  <2> QED BY <2>2, <2>3, <2>6 DEF IInv, QueueInv
<1> QED BY <1>3, <1>4

LEMMA TellStep ==
  ASSUME IInv, NEW m \in {"pause", "resume"}, Tell(m)
  PROVE  IInv'
<1>1. /\ toWorker' = Append(toWorker, m)
      /\ pausedLate' = (pausedLate \/ (m = "pause" /\ "exit" \in pending))
      /\ UNCHANGED <<client, toClient, pending, holders, call, workerVars>>
  BY DEF Tell
<1>2. toWorker' = toWorker \o <<m>> /\ <<m>> \in Seq(Quiet)
  BY <1>1 DEF IInv, QueueInv, Quiet
<1>3. MachineInv' /\ UNCHANGED <<machine, ticking, aborted>>
  BY <1>1 DEF IInv, MachineInv, workerVars
<1>4. toWorker' \in Seq(ToWorkerMessage) /\ CountInv'
  BY <1>1, <1>2, <1>3, MoreStep
<1>5. pausedLate' \in BOOLEAN
  BY <1>1
<1>6. ClientInv'
  BY <1>1, <1>5 DEF IInv, ClientInv, NobodyIsForgotten
<1> QED BY <1>1, <1>3, <1>4, <1>6 DEF IInv, QueueInv

----------------------------------------------------------------------------
(* What the client receives.                                                 *)

LEMMA ReceiveStep ==
  ASSUME IInv, NEW m, Receive(m)
  PROVE  /\ Alive
         /\ toClient \in Seq(ToClientMessage)
         /\ toClient' \in Seq(ToClientMessage)
         /\ \A x : /\ Count(toClient, x) \in Nat /\ Count(toClient', x) \in Nat
                  /\ Count(toWorker, x) \in Nat
                  /\ Count(toClient, x) = Count(toClient', x) + (IF x = m THEN 1 ELSE 0)
<1>1. toWorker \in Seq(ToWorkerMessage) /\ toClient \in Seq(ToClientMessage)
  BY DEF IInv, QueueInv
<1>2. toClient # <<>> /\ Head(toClient) = m /\ toClient' = Tail(toClient) /\ Alive
  BY DEF Receive, Alive
<1>3. /\ \A x : Count(toClient, x) \in Nat
      /\ Tail(toClient) \in Seq(ToClientMessage)
      /\ \A x : Count(Tail(toClient), x) \in Nat
      /\ \A x : Count(toClient, x) = Count(Tail(toClient), x) + (IF Head(toClient) = x THEN 1 ELSE 0)
  BY <1>1, <1>2, QueueCounts
<1>4. \A x : Count(toWorker, x) \in Nat
  BY <1>1, QueueCounts
<1> QED BY <1>1, <1>2, <1>3, <1>4

\* Settling frees a slot and all who hold it.
LEMMA SettleStep ==
  ASSUME ClientInv, NEW s \in Slot, Settle(s), UNCHANGED pausedLate,
         client' \in {"starting", "ready", "failed", "exited"}
  PROVE  ClientInv'
<1>1. /\ call' = [c \in Caller |-> IF c \in holders[s] THEN Nothing ELSE call[c]]
      /\ holders' = [holders EXCEPT ![s] = {}]
      /\ pending' = pending \ {s}
  BY DEF Settle
<1>2. /\ pending' \subseteq Slot
      /\ holders' \in [Slot -> SUBSET Caller]
      /\ call' \in [Caller -> [wait : Slot \cup {"idle"}, full : BOOLEAN]]
  BY <1>1 DEF ClientInv, Nothing
<1>3. \A t \in Slot : t \in pending' <=> holders'[t] # {}
  BY <1>1 DEF ClientInv
<1>4. ASSUME NEW d \in Caller, call'[d].wait \in Slot \ {"pack"}
      PROVE  d \in holders'[call'[d].wait]
  <2>1. "idle" \notin Slot
    BY DEF Slot, Joined
  <2>2. d \notin holders[s] /\ call'[d] = call[d]
    BY <1>1, <1>4, <2>1 DEF Nothing
  <2>3. d \in holders[call[d].wait]
    BY <1>4, <2>2 DEF ClientInv, NobodyIsForgotten
  <2> QED BY <1>1, <1>4, <2>2, <2>3 DEF ClientInv
<1> QED BY <1>2, <1>3, <1>4 DEF ClientInv, NobodyIsForgotten

LEMMA OnAnswerStep ==
  ASSUME IInv, NEW s \in Single \cup {"pack"}, OnAnswer(s)
  PROVE  IInv'
<1>1. /\ Receive(s)
      /\ IF s \in pending THEN Settle(s) ELSE UNCHANGED <<call, holders, pending>>
      /\ UNCHANGED <<client, toWorker, workerVars, pausedLate>>
  BY DEF OnAnswer
<1>2. /\ Alive
      /\ toClient' \in Seq(ToClientMessage)
      /\ \A x : /\ Count(toClient, x) \in Nat /\ Count(toClient', x) \in Nat
               /\ Count(toWorker, x) \in Nat
               /\ Count(toClient, x) = Count(toClient', x) + (IF x = s THEN 1 ELSE 0)
  BY <1>1, ReceiveStep
<1>3. s \in Slot /\ s # "sync-sleep"
  BY DEF Single, Slot, Joined
<1>4. MachineInv' /\ UNCHANGED <<client, toWorker, machine, ticking, aborted>> /\ Alive'
  BY <1>1, <1>2 DEF IInv, MachineInv, workerVars, Alive
<1>5. ClientInv'
  <2>1. CASE s \in pending
    <3>1. Settle(s) /\ UNCHANGED pausedLate /\ client' \in {"starting", "ready", "failed", "exited"}
      BY <1>1, <2>1 DEF IInv, ClientInv
    <3> QED BY <3>1, <1>3, SettleStep DEF IInv
  <2>2. CASE s \notin pending
    BY <1>1, <2>2 DEF IInv, ClientInv, NobodyIsForgotten
  <2> QED BY <2>1, <2>2
<1>6. Count(toClient', "sync-sleep") = Count(toClient, "sync-sleep")
  BY <1>2, <1>3
<1>7. pending' = pending \ {s}
  BY <1>1 DEF Settle
<1>8. ASSUME NEW x \in Single
      PROVE  Count(toWorker, x) + Count(toClient', x) = (IF x \in pending' THEN 1 ELSE 0)
  <2>1. Count(toWorker, x) + Count(toClient, x) = (IF x \in pending THEN 1 ELSE 0)
    BY <1>2 DEF IInv, CountInv, WakeUps, Dead
  <2>2. CASE x = s
    <3>1. Count(toClient, x) = Count(toClient', x) + 1 /\ x \notin pending'
      BY <1>2, <1>7, <2>2
    <3> QED BY <2>1, <3>1, <1>2
  <2>3. CASE x # s
    <3>1. Count(toClient, x) = Count(toClient', x)
      BY <1>2, <2>3
    <3> QED BY <2>1, <2>3, <3>1, <1>7
  <2> QED BY <2>2, <2>3
<1>9. CountInv'
  BY <1>2, <1>4, <1>6, <1>8 DEF IInv, CountInv, WakeUps, Dead
<1> QED BY <1>2, <1>4, <1>5, <1>9 DEF IInv, QueueInv

\* The callers of persist go on in their turn.
LEMMA OnDrivesStep ==
  ASSUME InterfaceAssumption, IInv, NEW m, OnDrives(m)
  PROVE  IInv'
<1> DEFINE packers == {c \in holders["drives"] : m = "drives-null" \/ call[c].full}
           packs(order) == [i \in 1 .. Len(order) |-> IF call[order[i]].full THEN "pack-full" ELSE "pack"]
<1>1. /\ Receive(m) /\ m \in {"drives-null", "drives-changes"}
      /\ call' = [c \in Caller |-> IF c \in packers THEN [call[c] EXCEPT !.wait = "pack"]
                                  ELSE IF c \in holders["drives"] THEN Nothing ELSE call[c]]
      /\ UNCHANGED <<client, workerVars, pausedLate>>
  BY DEF OnDrives
<1>2. \/ /\ packers = {}
         /\ pending' = pending \ {"drives"}
         /\ holders' = [holders EXCEPT !["drives"] = {}]
         /\ toWorker' = toWorker
      \/ \E order \in [1 .. Cardinality(packers) -> packers] :
           /\ packers # {}
           /\ pending' = (pending \ {"drives"}) \cup {"pack"}
           /\ holders' = [holders EXCEPT !["drives"] = {}, !["pack"] = {order[Len(order)]}]
           /\ toWorker' = toWorker \o packs(order)
  BY DEF OnDrives
<1>3. /\ "drives" \in Slot /\ "pack" \in Slot /\ "idle" \notin Slot
      /\ \A x \in Single \cup {"run", "sync-sleep"} : x # m
  BY <1>1, SingleOther DEF Slot, Joined
<1>4. packers \in SUBSET Caller /\ Cardinality(packers) \in Nat
      /\ (packers # {} => Cardinality(packers) >= 1)
  <2>1. packers \in SUBSET Caller
    BY <1>3 DEF IInv, ClientInv
  <2> HIDE DEF packers
  <2>2. IsFiniteSet(packers) /\ Cardinality(packers) \in Nat
    BY <2>1, FS_Subset, FS_CardinalityType DEF InterfaceAssumption
  <2>3. packers # {} => Cardinality(packers) # 0
    BY <2>2, FS_EmptySet
  <2> QED BY <2>1, <2>2, <2>3
<1>4a. ASSUME packers # {}, NEW order \in [1 .. Cardinality(packers) -> packers]
       PROVE  order[Len(order)] \in packers /\ packs(order) \in Seq(Quiet)
  <2> HIDE DEF packers
  <2>1. order \in Seq(packers) /\ Len(order) = Cardinality(packers)
    BY <1>4a, <1>4
  <2> QED BY <2>1, <1>4a, <1>4 DEF Quiet
<1>5. /\ Alive
      /\ toClient' \in Seq(ToClientMessage)
      /\ \A x : /\ Count(toClient, x) \in Nat /\ Count(toClient', x) \in Nat
               /\ Count(toWorker, x) \in Nat
               /\ Count(toClient, x) = Count(toClient', x) + (IF x = m THEN 1 ELSE 0)
  BY <1>1, ReceiveStep
<1>6. MachineInv' /\ UNCHANGED <<client, machine, ticking, aborted>> /\ Alive'
  BY <1>1, <1>5 DEF IInv, MachineInv, workerVars, Alive
<1>7. /\ pending' \subseteq Slot
      /\ holders' \in [Slot -> SUBSET Caller]
      /\ \A t \in Slot : t \in pending' <=> holders'[t] # {}
      /\ \A t \in Slot \ {"drives", "pack"} : holders'[t] = holders[t] /\ (t \in pending' <=> t \in pending)
  <2>1. /\ holders \in [Slot -> SUBSET Caller] /\ pending \subseteq Slot
        /\ \A t \in Slot : t \in pending <=> holders[t] # {}
    BY DEF IInv, ClientInv
  <2>2. packers \in SUBSET Caller
    BY <1>3, <2>1
  <2> HIDE DEF packers, packs
  <2>3. CASE pending' = pending \ {"drives"} /\ holders' = [holders EXCEPT !["drives"] = {}]
    BY <2>1, <2>3, <1>3
  <2>4. ASSUME NEW last \in packers,
               pending' = (pending \ {"drives"}) \cup {"pack"},
               holders' = [holders EXCEPT !["drives"] = {}, !["pack"] = {last}]
        PROVE  /\ pending' \subseteq Slot
               /\ holders' \in [Slot -> SUBSET Caller]
               /\ \A t \in Slot : t \in pending' <=> holders'[t] # {}
               /\ \A t \in Slot \ {"drives", "pack"} : holders'[t] = holders[t] /\ (t \in pending' <=> t \in pending)
    BY <2>1, <2>2, <2>4, <1>3
  <2> QED BY <1>2, <1>4a, <2>3, <2>4
<1>8. ClientInv'
  <2>1. call' \in [Caller -> [wait : Slot \cup {"idle"}, full : BOOLEAN]]
    <3>1. call \in [Caller -> [wait : Slot \cup {"idle"}, full : BOOLEAN]]
      BY DEF IInv, ClientInv
    <3> HIDE DEF packers
    <3> QED BY <3>1, <1>1, <1>3 DEF Nothing
  <2>2. ASSUME NEW d \in Caller, call'[d].wait \in Slot \ {"pack"}
        PROVE  d \in holders'[call'[d].wait]
    <3>1. call[d] \in [wait : Slot \cup {"idle"}, full : BOOLEAN]
      BY DEF IInv, ClientInv
    <3>2. d \notin packers
      <4>1. d \in packers => call'[d].wait = "pack"
        <5> HIDE DEF packers
        <5> QED BY <1>1, <3>1
      <4> QED BY <4>1, <2>2
    <3>3. d \notin holders["drives"]
      <4>1. d \in holders["drives"] => call'[d].wait = "idle"
        <5> HIDE DEF packers
        <5> QED BY <1>1, <3>2 DEF Nothing
      <4> QED BY <4>1, <2>2, <1>3
    <3>4. call'[d] = call[d]
      <4> HIDE DEF packers
      <4> QED BY <1>1, <3>2, <3>3
    <3>5. d \in holders[call[d].wait] /\ call[d].wait \in Slot \ {"pack", "drives"}
      BY <2>2, <3>3, <3>4 DEF IInv, ClientInv, NobodyIsForgotten
    <3> QED BY <3>4, <3>5, <1>7
  <2>3. client' \in {"starting", "ready", "failed", "exited"} /\ pausedLate' \in BOOLEAN
    BY <1>1 DEF IInv, ClientInv
  <2> QED BY <1>7, <2>1, <2>2, <2>3 DEF ClientInv, NobodyIsForgotten
<1>9. \A x \in Single : x \in pending' <=> x \in pending
  <2>1. \A x \in Single : x \in Slot \ {"drives", "pack"}
    BY DEF Single, Joined, Slot
  <2> QED BY <2>1, <1>7
<1>10. /\ toWorker' \in Seq(ToWorkerMessage)
       /\ \A x \in Single \cup {"run", "sync-sleep"} : Count(toWorker', x) = Count(toWorker, x)
  <2> HIDE DEF packers, packs
  <2>1. CASE toWorker' = toWorker
    BY <2>1 DEF IInv, QueueInv
  <2>2. ASSUME NEW p \in Seq(Quiet), toWorker' = toWorker \o p
        PROVE  /\ toWorker' \in Seq(ToWorkerMessage)
               /\ \A x \in Single \cup {"run", "sync-sleep"} : Count(toWorker', x) = Count(toWorker, x)
    BY <2>2, <1>6, <1>9, MoreStep
  <2> QED BY <1>2, <1>4a, <2>1, <2>2
<1>11. \A x \in Single \cup {"run", "sync-sleep"} : Count(toClient', x) = Count(toClient, x)
  BY <1>3, <1>5
<1>12. CountInv'
  BY <1>5, <1>6, <1>9, <1>10, <1>11 DEF IInv, CountInv, WakeUps, Dead
<1> QED BY <1>5, <1>6, <1>8, <1>10, <1>12 DEF IInv, QueueInv

LEMMA OnSyncSleepStep ==
  ASSUME IInv, OnSyncSleep
  PROVE  IInv'
<1>1. /\ Receive("sync-sleep") /\ toWorker' = Append(toWorker, "sync-sleep")
      /\ UNCHANGED <<clientVars, workerVars>>
  BY DEF OnSyncSleep
<1>2. /\ toClient' \in Seq(ToClientMessage)
      /\ \A x : /\ Count(toClient, x) \in Nat /\ Count(toClient', x) \in Nat
               /\ Count(toWorker, x) \in Nat
               /\ Count(toClient, x) = Count(toClient', x) + (IF x = "sync-sleep" THEN 1 ELSE 0)
  BY <1>1, ReceiveStep
<1>3. "sync-sleep" \in ToWorkerMessage /\ toWorker \in Seq(ToWorkerMessage)
  BY DEF IInv, QueueInv, ToWorkerMessage
<1>4. /\ toWorker' \in Seq(ToWorkerMessage)
      /\ \A x : Count(toWorker', x) = Count(toWorker, x) + (IF x = "sync-sleep" THEN 1 ELSE 0)
  BY <1>1, <1>3, QueueCounts
<1>5. ClientInv' /\ Alive' = Alive /\ pending' = pending
  BY <1>1, ClientSame DEF IInv, clientVars
<1>6. MachineInv' /\ UNCHANGED <<machine, ticking, aborted>>
  BY <1>1 DEF IInv, MachineInv, workerVars
<1>7. \A x \in Single : Count(toClient', x) = Count(toClient, x) /\ Count(toWorker', x) = Count(toWorker, x)
  BY <1>2, <1>4, SingleOther
<1>8. Count(toWorker', "run") = Count(toWorker, "run")
  BY <1>2, <1>4
<1>9. Count(toWorker', "sync-sleep") + Count(toClient', "sync-sleep") = Count(toWorker, "sync-sleep") + Count(toClient, "sync-sleep")
  <2>1. /\ Count(toWorker', "sync-sleep") = Count(toWorker, "sync-sleep") + 1
        /\ Count(toClient, "sync-sleep") = Count(toClient', "sync-sleep") + 1
    BY <1>2, <1>4
  <2> QED BY <2>1, <1>2
<1>10. CountInv'
  BY <1>5, <1>6, <1>7, <1>8, <1>9 DEF IInv, CountInv, WakeUps, Dead
<1> QED BY <1>2, <1>4, <1>5, <1>6, <1>10 DEF IInv, QueueInv

\* The session ends.
LEMMA TerminateStep ==
  ASSUME IInv, Terminate, client' \in {"failed", "exited"}, toClient' \in Seq(ToClientMessage)
  PROVE  MachineInv' /\ QueueInv' /\ CountInv'
<1>1. MachineInv'
  BY DEF Terminate, IInv, MachineInv
<1>2. QueueInv'
  BY DEF Terminate, QueueInv
<1>3. CountInv'
  BY DEF CountInv, WakeUps, Dead, Alive
<1> QED BY <1>1, <1>2, <1>3

LEMMA OnServerReadyStep ==
  ASSUME IInv, NEW m \in {"server-ready", "panic-ready"}, OnServerReady(m)
  PROVE  IInv'
<1>1. /\ Receive(m) /\ UNCHANGED <<pending, holders, call, pausedLate>>
  BY DEF OnServerReady
<1>2. /\ Alive
      /\ toClient' \in Seq(ToClientMessage)
      /\ \A x : /\ Count(toClient, x) \in Nat /\ Count(toClient', x) \in Nat
               /\ Count(toWorker, x) \in Nat
               /\ Count(toClient, x) = Count(toClient', x) + (IF x = m THEN 1 ELSE 0)
  BY <1>1, ReceiveStep
<1>3. client' \in {"ready", "failed"}
  BY DEF OnServerReady
<1>4. ClientInv'
  BY <1>1, <1>3 DEF IInv, ClientInv, NobodyIsForgotten
<1>5. CASE client' = "ready" /\ UNCHANGED <<toWorker, workerVars>>
  <2>1. MachineInv' /\ UNCHANGED <<machine, ticking, aborted, toWorker>>
    BY <1>5 DEF IInv, MachineInv, workerVars
  <2>2. \A x \in Single : Count(toClient', x) = Count(toClient, x)
    BY <1>2, SingleOther
  <2>3. Count(toClient', "sync-sleep") = Count(toClient, "sync-sleep")
    BY <1>2
  <2>4. CountInv'
    BY <1>1, <1>2, <2>1, <2>2, <2>3 DEF IInv, CountInv, WakeUps, Dead
  <2> QED BY <1>2, <1>4, <2>1, <2>4 DEF IInv, QueueInv
<1>6. CASE client' = "failed" /\ Terminate
  BY <1>2, <1>4, <1>6, TerminateStep DEF IInv
<1> QED BY <1>5, <1>6 DEF OnServerReady

LEMMA OnExitStep ==
  ASSUME IInv, OnExit
  PROVE  IInv'
<1>1. /\ Receive("exit") /\ client' = "exited"
      /\ IF "exit" \in pending THEN Settle("exit") ELSE UNCHANGED <<call, holders, pending>>
      /\ Terminate /\ UNCHANGED pausedLate
  BY DEF OnExit
<1>2. toClient' \in Seq(ToClientMessage)
  BY <1>1, ReceiveStep
<1>3. "exit" \in Slot
  BY DEF Slot
<1>4. ClientInv'
  <2>1. CASE "exit" \in pending
    BY <1>1, <1>3, <2>1, SettleStep DEF IInv
  <2>2. CASE "exit" \notin pending
    BY <1>1, <2>2 DEF IInv, ClientInv, NobodyIsForgotten
  <2> QED BY <2>1, <2>2
<1> QED BY <1>1, <1>2, <1>4, TerminateStep DEF IInv

----------------------------------------------------------------------------
(* After an abort.                                                           *)

Rare == {"exit", "server-ready", "panic-ready"}

\* The machine tells once that it is ready and once that it ended.
TellInv ==
  Alive =>
    /\ Count(toClient, "exit") = (IF machine = "done" THEN 1 ELSE 0)
    /\ (IF machine = "off" THEN 1 ELSE 0)
         + Count(toClient, "server-ready") + Count(toClient, "panic-ready")
         = (IF client = "starting" THEN 1 ELSE 0)

\* A machine that sleeps and cannot be woken, in a session that is open.
Stuck == Dead /\ machine = "asleep" /\ client = "ready"

LEMMA TellSame ==
  ASSUME TellInv, client' = client,
         machine' = machine \/ {machine, machine'} \subseteq {"running", "asleep"},
         \A x \in Rare : Count(toClient', x) = Count(toClient, x)
  PROVE  TellInv'
<1>1. machine' = "done" <=> machine = "done"
  OBVIOUS
<1>2. machine' = "off" <=> machine = "off"
  OBVIOUS
<1>3. /\ Count(toClient', "exit") = Count(toClient, "exit")
      /\ Count(toClient', "server-ready") = Count(toClient, "server-ready")
      /\ Count(toClient', "panic-ready") = Count(toClient, "panic-ready")
  BY DEF Rare
<1> QED BY <1>1, <1>2, <1>3 DEF TellInv, Alive

\* A message from the worker that is none of these.
LEMMA TellOther ==
  ASSUME IInv, NEW y \in ToClientMessage \ Rare, toClient' = Append(toClient, y)
  PROVE  \A x \in Rare : Count(toClient', x) = Count(toClient, x)
<1>1. /\ toClient \in Seq(ToClientMessage)
      /\ \A x : Count(toClient, x) \in Nat
      /\ \A x : Count(toClient', x) = Count(toClient, x) + (IF y = x THEN 1 ELSE 0)
  BY QueueCounts DEF IInv, QueueInv
<1> QED BY <1>1

LEMMA TellHandle ==
  ASSUME IInv, TellInv, HandleMessage
  PROVE  TellInv'
<1>1. CASE HandleRun
  <2>1. PICK ready \in {"server-ready", "panic-ready"} :
          toClient' = toClient \o <<"sync-sleep", ready>>
    BY <1>1 DEF HandleRun
  <2>2. Handle("run") /\ machine' = "asleep" /\ client' = client
    BY <1>1 DEF HandleRun, clientVars
  <2>3. /\ toClient \in Seq(ToClientMessage)
        /\ \A x : Count(toClient, x) \in Nat /\ Count(toWorker', x) \in Nat
        /\ Count(toWorker, "run") = Count(toWorker', "run") + 1
    BY <2>2, HandleStep
  <2>4. "sync-sleep" \in ToClientMessage /\ ready \in ToClientMessage
    BY DEF ToClientMessage
  <2> DEFINE mid == Append(toClient, "sync-sleep")
  <2>5. toClient' = Append(mid, ready)
    BY <2>1, <2>3
  <2>6. /\ mid \in Seq(ToClientMessage)
        /\ \A x : Count(mid, x) = Count(toClient, x) + (IF "sync-sleep" = x THEN 1 ELSE 0)
    BY <2>3, <2>4, QueueCounts
  <2> HIDE DEF mid
  <2>7. \A x : Count(toClient', x) = Count(mid, x) + (IF ready = x THEN 1 ELSE 0)
    BY <2>4, <2>5, <2>6, QueueCounts
  <2>8. /\ Count(toClient', "exit") = Count(toClient, "exit")
        /\ Count(toClient', "server-ready") + Count(toClient', "panic-ready")
             = Count(toClient, "server-ready") + Count(toClient, "panic-ready") + 1
    <3>1. \A x \in Rare : Count(mid, x) = Count(toClient, x) /\ Count(mid, x) \in Nat
      BY <2>3, <2>6 DEF Rare
    <3>2. ASSUME NEW x \in Rare
          PROVE  Count(toClient', x) = Count(toClient, x) + (IF ready = x THEN 1 ELSE 0)
      BY <3>1, <2>7
    <3>3. Count(toClient', "exit") = Count(toClient, "exit")
      BY <3>2, <2>3 DEF Rare
    <3>4. /\ Count(toClient', "server-ready") = Count(toClient, "server-ready") + (IF ready = "server-ready" THEN 1 ELSE 0)
          /\ Count(toClient', "panic-ready") = Count(toClient, "panic-ready") + (IF ready = "panic-ready" THEN 1 ELSE 0)
      BY <3>2 DEF Rare
    <3>5. CASE ready = "server-ready"
      BY <3>3, <3>4, <3>5, <2>3
    <3>6. CASE ready = "panic-ready"
      BY <3>3, <3>4, <3>6, <2>3
    <3> QED BY <3>5, <3>6
  <2>9. Alive => machine = "off"
    <3>1. Count(toWorker, "run") # 0
      BY <2>3
    <3> QED BY <3>1 DEF IInv, CountInv
  <2>10. \A x \in Rare : Count(toClient, x) \in Nat /\ Count(toClient', x) \in Nat
    BY <2>3, <2>4, <2>5, <2>6, QueueCounts DEF Rare
  <2>11. CASE ~ Alive
    BY <2>2, <2>11 DEF TellInv, Alive
  <2>12. CASE Alive
    <3>1. /\ Count(toClient, "exit") = 0
          /\ 1 + Count(toClient, "server-ready") + Count(toClient, "panic-ready")
               = (IF client = "starting" THEN 1 ELSE 0)
      BY <2>9, <2>12 DEF TellInv
    <3>2. /\ Count(toClient', "exit") = 0
          /\ Count(toClient', "server-ready") + Count(toClient', "panic-ready")
               = (IF client = "starting" THEN 1 ELSE 0)
      BY <2>8, <2>10, <3>1 DEF Rare
    <3> QED BY <2>2, <2>10, <3>2 DEF TellInv, Rare
  <2> QED BY <2>11, <2>12
<1>2. CASE HandleResume \/ HandlePause \/ HandleExit \/ HandlePackFails
  <2>1. UNCHANGED <<client, toClient, machine>>
    BY <1>2 DEF HandleResume, HandlePause, HandleExit, HandlePackFails, clientVars
  <2> QED BY <2>1, TellSame
<1>3. ASSUME NEW s \in Requests, HandleRequest(s) PROVE TellInv'
  <2>1. UNCHANGED <<client, machine>>
    BY <1>3 DEF HandleRequest, clientVars, workerVars
  <2>2. PICK y \in Answer(s) : toClient' = Append(toClient, y)
    BY <1>3 DEF HandleRequest
  <2>3. y \in ToClientMessage \ Rare
    BY <1>3 DEF Requests, Joined, Answer, ToClientMessage, Rare
  <2> QED BY <2>1, <2>2, <2>3, TellOther, TellSame
<1>4. CASE HandleSyncSleep
  <2>1. client' = client
    BY <1>4 DEF HandleSyncSleep, clientVars
  <2>2. CASE toClient' = Append(toClient, "sync-sleep") /\ UNCHANGED machine
    <3>1. "sync-sleep" \in ToClientMessage \ Rare
      BY DEF ToClientMessage, Rare
    <3> QED BY <2>1, <2>2, <3>1, TellOther, TellSame
  <2>3. CASE toClient' = toClient /\ (machine' = machine \/ (machine = "asleep" /\ machine' = "running"))
    BY <2>1, <2>3, TellSame
  <2> QED BY <1>4, <2>2, <2>3 DEF HandleSyncSleep
<1> QED BY <1>1, <1>2, <1>3, <1>4 DEF HandleMessage

LEMMA TellMachine ==
  ASSUME IInv, TellInv, Sleep \/ Tick \/ Finish
  PROVE  TellInv'
<1>1. "sync-sleep" \in ToClientMessage \ Rare /\ "exit" \in ToClientMessage
  BY DEF ToClientMessage, Rare
<1>2. CASE Sleep
  <2>1. /\ client' = client /\ machine = "running" /\ machine' = "asleep"
        /\ toClient' = toClient \/ toClient' = Append(toClient, "sync-sleep")
    BY <1>2 DEF Sleep, clientVars
  <2>2. \A x \in Rare : Count(toClient', x) = Count(toClient, x)
    BY <1>1, <2>1, TellOther
  <2> QED BY <2>1, <2>2, TellSame
<1>3. CASE Tick
  <2>1. UNCHANGED <<client, machine>> /\ toClient' = Append(toClient, "sync-sleep")
    BY <1>3 DEF Tick, clientVars
  <2> QED BY <1>1, <2>1, TellOther, TellSame
<1>4. CASE Finish
  <2>1. /\ client' = client /\ machine = "running" /\ machine' = "done"
        /\ toClient' = Append(toClient, "exit")
    BY <1>4 DEF Finish, clientVars
  <2>2. \A x : /\ Count(toClient, x) \in Nat
              /\ Count(toClient', x) = Count(toClient, x) + (IF "exit" = x THEN 1 ELSE 0)
    BY <1>1, <2>1, QueueCounts DEF IInv, QueueInv
  <2>3. /\ Count(toClient', "exit") = Count(toClient, "exit") + 1
        /\ Count(toClient', "server-ready") = Count(toClient, "server-ready")
        /\ Count(toClient', "panic-ready") = Count(toClient, "panic-ready")
    BY <2>2
  <2> QED BY <2>1, <2>3 DEF TellInv, Alive
<1> QED BY <1>2, <1>3, <1>4

LEMMA TellReceive ==
  ASSUME IInv, TellInv, OnMessage
  PROVE  TellInv'
<1>1. ASSUME NEW m \in ToClientMessage \ Rare, Receive(m), UNCHANGED <<client, machine>>
      PROVE  TellInv'
  <2>1. \A x \in Rare : Count(toClient', x) = Count(toClient, x)
    <3>1. \A x : /\ Count(toClient, x) \in Nat /\ Count(toClient', x) \in Nat
                /\ Count(toClient, x) = Count(toClient', x) + (IF x = m THEN 1 ELSE 0)
      BY <1>1, ReceiveStep
    <3> QED BY <3>1
  <2> QED BY <1>1, <2>1, TellSame
<1>2. ASSUME NEW s \in Joined \cup {"fs-delete-file", "pack"}, OnAnswer(s) PROVE TellInv'
  <2>1. s \in ToClientMessage \ Rare
    BY DEF Joined, ToClientMessage, Rare
  <2> QED BY <1>1, <1>2, <2>1 DEF OnAnswer, workerVars
<1>3. ASSUME NEW m \in {"drives-null", "drives-changes"}, OnDrives(m) PROVE TellInv'
  <2>1. m \in ToClientMessage \ Rare
    BY DEF ToClientMessage, Rare
  <2> QED BY <1>1, <1>3, <2>1 DEF OnDrives, workerVars
<1>4. CASE OnSyncSleep
  <2>1. "sync-sleep" \in ToClientMessage \ Rare
    BY DEF ToClientMessage, Rare
  <2> QED BY <1>1, <1>4, <2>1 DEF OnSyncSleep, clientVars, workerVars
<1>5. ASSUME NEW m \in {"server-ready", "panic-ready"}, OnServerReady(m) PROVE TellInv'
  <2>1. CASE client' = "ready" /\ UNCHANGED <<toWorker, workerVars>>
    <3>1. /\ Alive
          /\ \A x : /\ Count(toClient, x) \in Nat /\ Count(toClient', x) \in Nat
                   /\ Count(toClient, x) = Count(toClient', x) + (IF x = m THEN 1 ELSE 0)
      BY <1>5, ReceiveStep DEF OnServerReady
    <3>2. /\ Count(toClient', "exit") = Count(toClient, "exit")
          /\ Count(toClient, "server-ready") + Count(toClient, "panic-ready")
               = Count(toClient', "server-ready") + Count(toClient', "panic-ready") + 1
      BY <1>5, <3>1
    <3>3. machine' = machine
      BY <2>1 DEF workerVars
    <3>4. /\ Count(toClient, "exit") = (IF machine = "done" THEN 1 ELSE 0)
          /\ machine # "off"
          /\ Count(toClient', "server-ready") + Count(toClient', "panic-ready") = 0
      BY <3>1, <3>2 DEF TellInv
    <3>5. client' = "ready" /\ machine' # "off"
      BY <2>1, <3>3, <3>4
    <3> QED BY <3>1, <3>2, <3>3, <3>4, <3>5 DEF TellInv
  <2>2. CASE client' = "failed"
    BY <2>2 DEF TellInv, Alive
  <2> QED BY <1>5, <2>1, <2>2 DEF OnServerReady
<1>6. CASE OnExit
  BY <1>6 DEF OnExit, TellInv, Alive
<1> QED BY <1>2, <1>3, <1>4, <1>5, <1>6 DEF OnMessage

LEMMA TellNext ==
  ASSUME IInv, TellInv, [Next]_vars
  PROVE  TellInv'
<1>1. CASE User
  <2>1. UNCHANGED <<client, toClient, machine>>
    BY <1>1 DEF User, Ask, Delete, Persist, Exit, Pause, Resume, Tell, workerVars
  <2> QED BY <2>1, TellSame
<1>2. CASE UNCHANGED vars
  BY <1>2, TellSame DEF vars
<1> QED BY <1>1, <1>2, TellReceive, TellHandle, TellMachine DEF Next

\* Nothing takes a session out of this state.
LEMMA StuckNext ==
  ASSUME IInv, TellInv, Stuck, [Next]_vars
  PROVE  Stuck'
<1>1. /\ Alive /\ machine = "asleep" /\ client = "ready" /\ aborted /\ Asyncify
  BY DEF Stuck, Dead, Alive
<1>2. \A m \in Rare : ~ Receive(m)
  <2> SUFFICES ASSUME NEW m \in Rare, Receive(m) PROVE FALSE
    OBVIOUS
  <2>1. \A x : /\ Count(toClient, x) \in Nat /\ Count(toClient', x) \in Nat
              /\ Count(toClient, x) = Count(toClient', x) + (IF x = m THEN 1 ELSE 0)
    BY ReceiveStep
  <2>2. /\ Count(toClient, "exit") = 0
        /\ Count(toClient, "server-ready") + Count(toClient, "panic-ready") = 0
    BY <1>1, <2>1 DEF TellInv
  <2>3. Count(toClient, m) >= 1
    BY <2>1
  <2> QED BY <2>1, <2>2, <2>3 DEF Rare
<1>3. CASE User
  BY <1>1, <1>3 DEF User, Ask, Delete, Persist, Exit, Pause, Resume, Tell, workerVars, Stuck, Dead
<1>4. CASE OnMessage
  <2>1. ~ OnExit /\ \A m \in {"server-ready", "panic-ready"} : ~ OnServerReady(m)
    BY <1>2 DEF OnExit, OnServerReady, Rare
  <2> QED BY <1>1, <1>4, <2>1 DEF OnMessage, OnAnswer, OnDrives, OnSyncSleep, clientVars, workerVars, Stuck, Dead
<1>5. CASE HandleMessage
  BY <1>1, <1>5 DEF HandleMessage, HandleRun, HandleResume, HandlePause, HandleExit, HandleRequest,
                    HandlePackFails, HandleSyncSleep, clientVars, workerVars, Stuck, Dead
<1>6. CASE Sleep \/ Finish
  BY <1>1, <1>6 DEF Sleep, Finish
<1>7. CASE Tick
  BY <1>1, <1>7 DEF Tick, clientVars, Stuck, Dead
<1>8. CASE UNCHANGED vars
  BY <1>1, <1>8 DEF vars, Stuck, Dead
<1> QED BY <1>3, <1>4, <1>5, <1>6, <1>7, <1>8 DEF Next

----------------------------------------------------------------------------
(* The theorems.                                                             *)

LEMMA InitInv == ASSUME InterfaceAssumption, Init PROVE IInv
<1>1. /\ toWorker = <<"run">> /\ toClient = <<>> /\ pending = {} /\ machine = "off" /\ ticking = FALSE
  BY DEF Init
<1>2. ClientInv
  <2>1. "idle" \notin Slot
    BY DEF Slot, Joined
  <2> QED BY <2>1 DEF Init, ClientInv, NobodyIsForgotten, Nothing
<1>3. MachineInv
  <2>1. errors \in 0 .. MaxErrors
    BY DEF Init, InterfaceAssumption
  <2>2. machine = "off" /\ paused = FALSE /\ ticking = FALSE /\ exitRequested = FALSE /\ aborted = FALSE
    BY DEF Init
  <2> QED BY <2>1, <2>2 DEF MachineInv
<1>4. "run" \in ToWorkerMessage /\ toWorker = Append(<<>>, "run") /\ <<>> \in Seq(ToWorkerMessage)
  BY <1>1 DEF ToWorkerMessage
<1>5. QueueInv
  BY <1>1, <1>4 DEF QueueInv
<1>6. \A x : Count(toClient, x) = 0
  BY <1>1, CountEmpty
<1>7. \A x : Count(toWorker, x) = 0 + (IF "run" = x THEN 1 ELSE 0)
  <2>1. ASSUME NEW q \in Seq(ToWorkerMessage), toWorker = Append(q, "run"), \A x : Count(q, x) = 0
        PROVE  \A x : Count(toWorker, x) = 0 + (IF "run" = x THEN 1 ELSE 0)
    BY <2>1, <1>4, QueueCounts
  <2> QED BY <2>1, <1>4, CountEmpty
<1>8. CountInv
  <2>1. Count(toWorker, "run") = 1 /\ Count(toWorker, "sync-sleep") = 0
    BY <1>7
  <2>2. \A x \in Single : Count(toWorker, x) = 0
    BY <1>7, SingleOther
  <2> QED BY <1>1, <1>6, <2>1, <2>2 DEF CountInv, WakeUps, Dead
<1> QED BY <1>2, <1>3, <1>5, <1>8 DEF IInv

LEMMA NextInv == ASSUME InterfaceAssumption, IInv, [Next]_vars PROVE IInv'
<1>1. CASE User
  <2>1. ASSUME NEW c \in Caller, NEW s \in Joined \cap Asked, Ask(c, s) PROVE IInv'
    BY <2>1, AskStep
  <2>2. ASSUME NEW c \in Caller, Delete(c) PROVE IInv'
    BY <2>2, DeleteStep
  <2>3. ASSUME NEW c \in Caller, NEW full \in BOOLEAN, Persist(c, full) PROVE IInv'
    BY <2>3, PersistStep
  <2>4. ASSUME NEW c \in Caller, Exit(c) PROVE IInv'
    BY <2>4, ExitCallStep
  <2>5. CASE Pause
    BY <2>5, TellStep DEF Pause
  <2>6. CASE Resume
    BY <2>6, TellStep DEF Resume
  <2> QED BY <1>1, <2>1, <2>2, <2>3, <2>4, <2>5, <2>6 DEF User
<1>2. CASE OnMessage
  <2>1. ASSUME NEW s \in Joined \cup {"fs-delete-file", "pack"}, OnAnswer(s) PROVE IInv'
    BY <2>1, OnAnswerStep DEF Single
  <2> QED BY <1>2, <2>1, OnDrivesStep, OnSyncSleepStep, OnServerReadyStep, OnExitStep DEF OnMessage
<1>3. CASE HandleMessage
  BY <1>3, HandleRunStep, HandleQuietStep, HandleRequestStep, HandleSyncSleepStep DEF HandleMessage
<1>4. CASE Sleep
  BY <1>4, SleepStep
<1>5. CASE Tick
  BY <1>5, TickStep
<1>6. CASE Finish
  BY <1>6, FinishStep
<1>7. CASE UNCHANGED vars
  BY <1>7 DEF vars, IInv, ClientInv, NobodyIsForgotten, MachineInv, QueueInv, CountInv, WakeUps, Dead, Alive
<1> QED BY <1>1, <1>2, <1>3, <1>4, <1>5, <1>6, <1>7 DEF Next

\* The invariant, for any number of callers.
THEOREM CommandInvariant == Spec => []IInv
<1>1. Init => IInv
  BY InitInv, InterfaceAssumption
<1>2. IInv /\ [Next]_vars => IInv'
  BY NextInv, InterfaceAssumption
<1> QED BY <1>1, <1>2, PTL DEF Spec

\* The types; in particular a promise field is set exactly while somebody holds
\* its promise.
THEOREM CommandTypeCorrect == Spec => []TypeOK
<1>1. IInv => TypeOK
  BY Implied
<1> QED BY <1>1, CommandInvariant, PTL

\* sync_sleep, the interval of a paused sleep and Module.receive keep one wake-up
\* for a machine that sleeps, whatever the user pauses, resumes and asks.
THEOREM WakeUpIsUnique == Spec => []OneWakeUp
<1>1. IInv => OneWakeUp
  BY Implied
<1> QED BY <1>1, CommandInvariant, PTL

\* A request of protocol.ts whose promise field is set is under way once, and
\* none is whose field is not set.
THEOREM AnswersAreSingle == Spec => []OneAnswerPerPromise
<1>1. IInv => OneAnswerPerPromise
  BY Implied
<1> QED BY <1>1, CommandInvariant, PTL

\* No caller is left with a promise that was replaced in its field, the archive
\* of persist excepted.
THEOREM CallersAreKept == Spec => []NobodyIsForgotten
<1>1. IInv => NobodyIsForgotten
  BY Implied
<1> QED BY <1>1, CommandInvariant, PTL

\* A full archive that cannot be made stops a session of an Asyncify build for
\* good (worker-protocol.cpp, Module._abort): the machine is never woken again and
\* exit never settles.  It is the exception that OneWakeUp, ExitSettles and
\* MachineKeepsRunning make.
THEOREM AbortIsFinal == Spec => [][Stuck => Stuck']_vars
<1>1. Init => TellInv
  <2>1. Init => /\ toClient = <<>> /\ machine = "off" /\ client = "starting"
    BY DEF Init
  <2>2. \A x : Count(<<>>, x) = 0
    BY CountEmpty
  <2> QED BY <2>1, <2>2 DEF TellInv
<1>2. IInv /\ TellInv /\ [Next]_vars => TellInv'
  BY TellNext
<1>3. IInv /\ TellInv /\ [Next]_vars => [Stuck => Stuck']_vars
  BY StuckNext
<1> QED BY <1>1, <1>2, <1>3, CommandInvariant, PTL DEF Spec

============================================================================
