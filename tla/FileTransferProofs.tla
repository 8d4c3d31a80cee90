------------------------- MODULE FileTransferProofs -------------------------
(* Theorems about FileTransfer, for any number of files, of writes and of     *)
(* chunks.                                                                   *)
EXTENDS FileTransfer, FiniteSetTheorems, TLAPS

Call == [state : {"idle", "ready", "sent", "done", "failed"},
         file : Name \cup {None}, next : Nat \ {0}]
PartId == Writer \X Nat

----------------------------------------------------------------------------
(* Facts about the messages and the operators.                               *)

\* What a message is, by its kind.
LEMMA WorkerMessages ==
  /\ \A f \in Name, d \in PartId \cup {None} :
       /\ <<"chunk", f, d>> \in ToWorkerMessage
       /\ <<"chunk", f, d>>[1] = "chunk" /\ <<"chunk", f, d>>[2] = f /\ <<"chunk", f, d>>[3] = d
  /\ \A f \in Name : <<"get", f>> \in ToWorkerMessage /\ <<"get", f>>[1] = "get" /\ <<"get", f>>[2] = f
  /\ <<"run">> \in ToWorkerMessage /\ <<"run">>[1] = "run"
  /\ \A m \in ToWorkerMessage :
       /\ m[1] \in {"chunk", "get", "run"}
       /\ m[1] = "chunk" => m[2] \in Name /\ m[3] \in PartId \cup {None}
       /\ m[1] = "get" => m[2] \in Name
BY DEF ToWorkerMessage, PartId

\* The same of the messages to the client.
LEMMA ClientMessages ==
  /\ \A f \in Name, k \in {"ok", "end"} :
       <<k, f>> \in ToClientMessage /\ <<k, f>>[1] = k /\ <<k, f>>[2] = f
  /\ \A f \in Name, c \in File :
       /\ <<"data", f, c>> \in ToClientMessage
       /\ <<"data", f, c>>[1] = "data" /\ <<"data", f, c>>[2] = f /\ <<"data", f, c>>[3] = c
  /\ <<"ready">> \in ToClientMessage /\ <<"ready">>[1] = "ready"
  /\ \A m \in ToClientMessage :
       /\ m[1] \in {"ok", "end", "data", "ready"}
       /\ m[1] \in {"ok", "end", "data"} => m[2] \in Name
       /\ m[1] = "data" => m[3] \in File
BY DEF ToClientMessage

\* The next chunk of a write.
LEMMA ChunkIs ==
  ASSUME TransferAssumption, NEW w \in Writer, NEW n \in Nat
  PROVE  /\ Parts[w] \in Nat
         /\ Chunk(w, n) \in PartId \cup {None}
         /\ n <= Parts[w] => Chunk(w, n) = <<w, n>> /\ Chunk(w, n) # None
         /\ ~ (n <= Parts[w]) => Chunk(w, n) = None
BY DEF TransferAssumption, Chunk, PartId

\* The files of the upload, and that files can be named.
LEMMA UploadIs ==
  ASSUME TransferAssumption
  PROVE  /\ \A i \in Entry : Upload[i] \in Name /\ Upload[i] \notin BadName
         /\ Write \subseteq Writer /\ Entry \subseteq Writer
         /\ \A i \in Entry : i \in Nat
<1>1. Upload \in Seq(Name \ BadName)
  BY DEF TransferAssumption
<1> QED BY <1>1 DEF Entry, Writer

\* What a call of sendFullDataChunk does, by what it meets.
Refused(w, f, n) ==
  /\ promise[f] # None
  /\ call' = [call EXCEPT ![w] = [state |-> "failed", file |-> f, next |-> n]]
  /\ UNCHANGED <<promise, toWorker, mixed>>
Sent(w, f, n) ==
  /\ promise[f] = None
  /\ promise' = [promise EXCEPT ![f] = w]
  /\ call' = [call EXCEPT ![w] = [state |-> "sent", file |-> f, next |-> n + 1]]
  /\ toWorker' = Append(toWorker, <<"chunk", f, Chunk(w, n)>>)
  /\ mixed' = IF Unfinished(w, f) THEN mixed \cup {f} ELSE mixed

LEMMA SendIs ==
  ASSUME NEW w, NEW f, NEW n, SendChunk(w, f, n)
  PROVE  Refused(w, f, n) \/ Sent(w, f, n)
BY DEF SendChunk, Refused, Sent

\* Who may send, and what.
Sends(w, f, n) ==
  \/ call[w].state = "idle" /\ n = 1
  \/ call[w].state = "ready" /\ f = call[w].file /\ n = call[w].next

\* The calls of sendFullDataChunk.
Sending == \E w \in Writer, f \in Name, n \in Nat \ {0} :
  /\ Sends(w, f, n)
  /\ w \in Entry => f = Upload[w]
  /\ Refused(w, f, n) \/ Sent(w, f, n)
  /\ UNCHANGED <<client, reading, getParts, toClient, files, disk, seen>>

\* The steps of a write that send nothing: a stream is read, or breaks.
Reading == \E w \in Write, f \in Name :
  /\ \/ call[w].state = "idle" /\ call' = [call EXCEPT ![w] = [state |-> "ready", file |-> f, next |-> 1]]
     \/ call[w].state = "ready" /\ call' = [call EXCEPT ![w].state = "failed"]
  /\ UNCHANGED <<client, promise, reading, getParts, toWorker, toClient, files, disk, mixed, seen>>

EntryFiles == \A i \in Entry : call[i].state # "idle" => call[i].file = Upload[i]

\* A call in another state.
LEMMA CallIs ==
  ASSUME NEW c \in Call, NEW x
  PROVE  [c EXCEPT !.state = x] = [state |-> x, file |-> c.file, next |-> c.next]
BY DEF Call

\* The next-state relation, with the calls of sendFullDataChunk together.
LEMMA NextIs ==
  ASSUME TransferAssumption, TypeOK, EntryFiles, Next
  PROVE  \/ Sending
         \/ Reading
         \/ \E f \in Name : ReadFile(f)
         \/ SendRun
         \/ OnMessage
         \/ HandleMessage
<1>0. call \in [Writer -> Call] /\ \A w \in Writer : call[w].state = "idle" \/ call[w].file \in Name
  BY DEF TypeOK, Call
<1>1. ASSUME NEW w \in Write, NEW f \in Name \ Bundle, WriteFile(w, f)
      PROVE  Sending \/ Reading
  <2>1. CASE w \in Stream
    BY <1>1, <2>1 DEF WriteFile, Reading
  <2>2. CASE w \notin Stream
    <3>1. SendChunk(w, f, 1) /\ w \in Writer /\ w \notin Entry /\ Sends(w, f, 1) /\ 1 \in Nat \ {0}
      BY <1>1, <2>2 DEF WriteFile, Writer, Sends, TransferAssumption
    <3>2. UNCHANGED <<client, reading, getParts, toClient, files, disk, seen>>
      BY <1>1 DEF WriteFile
    <3>3. Refused(w, f, 1) \/ Sent(w, f, 1)
      BY <3>1, SendIs
    <3> QED BY <3>1, <3>2, <3>3 DEF Sending
  <2> QED BY <2>1, <2>2
<1>2. ASSUME NEW w \in Writer, SendNext(w)
      PROVE  Sending
  <2>1. call[w].state = "ready" /\ SendChunk(w, call[w].file, call[w].next)
    BY <1>2 DEF SendNext
  <2>2. call[w].file \in Name /\ call[w].next \in Nat \ {0}
    BY <1>0, <2>1 DEF Call
  <2>3. Refused(w, call[w].file, call[w].next) \/ Sent(w, call[w].file, call[w].next)
    BY <2>1, SendIs
  <2>4. UNCHANGED <<client, reading, getParts, toClient, files, disk, seen>>
    BY <1>2 DEF SendNext
  <2>5. w \in Entry => call[w].file = Upload[w]
    BY <2>1 DEF EntryFiles
  <2> QED BY <2>1, <2>2, <2>3, <2>4, <2>5 DEF Sending, Sends
<1>3. ASSUME NEW w \in Stream, StreamFails(w)
      PROVE  Reading
  <2>1. w \in Write /\ w \in Writer /\ call[w].file \in Name
    BY <1>0, <1>3 DEF StreamFails, TransferAssumption, Writer
  <2> QED BY <1>3, <2>1 DEF StreamFails, Reading
<1>4. ASSUME NEW i \in Entry, SendEntry(i)
      PROVE  Sending
  <2>1. SendChunk(i, Upload[i], 1) /\ call[i].state = "idle"
        /\ UNCHANGED <<client, reading, getParts, toClient, files, disk, seen>>
    BY <1>4 DEF SendEntry
  <2>2. i \in Writer /\ Upload[i] \in Name /\ 1 \in Nat \ {0}
    BY UploadIs
  <2>3. Refused(i, Upload[i], 1) \/ Sent(i, Upload[i], 1)
    BY <2>1, SendIs
  <2> QED BY <2>1, <2>2, <2>3 DEF Sending, Sends
<1>5. ASSUME NEW f \in Name \ Bundle, ReadFile(f)
      PROVE  \E g \in Name : ReadFile(g)
  BY <1>5
<1> QED BY <1>1, <1>2, <1>3, <1>4, <1>5 DEF Next, Uploading

----------------------------------------------------------------------------
(* Types.                                                                    *)

\* What a queue holds after a message was posted, and before one was taken.
LEMMA QueueIs ==
  ASSUME NEW S, NEW q \in Seq(S)
  PROVE  /\ \A x \in S : Append(q, x) \in Seq(S)
         /\ q # <<>> => Head(q) \in S /\ Tail(q) \in Seq(S)
OBVIOUS

CallType ==
  /\ call \in [Writer -> Call]
  /\ \A w \in Writer : call[w].state = "idle" \/ call[w].file \in Name
  /\ promise \in [Name -> Writer \cup {None}]
  /\ \A f \in Name : promise[f] # None =>
       promise[f] \in Writer /\ call[promise[f]].state = "sent" /\ call[promise[f]].file = f

RestType ==
  /\ client \in {"uploading", "starting", "ready"}
  /\ reading \in [Name -> BOOLEAN]
  /\ getParts \in [Name -> Seq(File)]
  /\ toWorker \in Seq(ToWorkerMessage)
  /\ toClient \in Seq(ToClientMessage)
  /\ files \in [Name -> File]
  /\ disk \in [Name -> File \cup {Missing}]
  /\ mixed \subseteq Name
  /\ seen \in [Name -> SUBSET (File \cup {Missing})]

TypeInv == CallType /\ RestType /\ EntryFiles

LEMMA TypesImplied == TypeInv => TypeOK /\ EntryFiles
BY DEF TypeInv, CallType, RestType, TypeOK, Call

\* The message that a handler takes.
LEMMA HandleIs ==
  ASSUME TypeOK, NEW k, Handle(k)
  PROVE  /\ toWorker # <<>> /\ toWorker' = Tail(toWorker) /\ Head(toWorker)[1] = k
         /\ Head(toWorker) \in ToWorkerMessage /\ Tail(toWorker) \in Seq(ToWorkerMessage)
         /\ k = "chunk" => Head(toWorker)[2] \in Name /\ Head(toWorker)[3] \in PartId \cup {None}
         /\ k = "get" => Head(toWorker)[2] \in Name
<1>1. toWorker # <<>> /\ toWorker' = Tail(toWorker) /\ Head(toWorker)[1] = k
  BY DEF Handle
<1>2. Head(toWorker) \in ToWorkerMessage /\ Tail(toWorker) \in Seq(ToWorkerMessage)
  BY <1>1, QueueIs DEF TypeOK
<1> QED BY <1>1, <1>2, WorkerMessages

\* The message that the client takes.
LEMMA ReceiveIs ==
  ASSUME TypeOK, NEW k, Receive(k)
  PROVE  /\ toClient # <<>> /\ toClient' = Tail(toClient) /\ Head(toClient)[1] = k
         /\ Head(toClient) \in ToClientMessage /\ Tail(toClient) \in Seq(ToClientMessage)
         /\ k \in {"ok", "end", "data"} => Head(toClient)[2] \in Name
         /\ k = "data" => Head(toClient)[3] \in File
<1>1. toClient # <<>> /\ toClient' = Tail(toClient) /\ Head(toClient)[1] = k
  BY DEF Receive
<1>2. Head(toClient) \in ToClientMessage /\ Tail(toClient) \in Seq(ToClientMessage)
  BY <1>1, QueueIs DEF TypeOK
<1> QED BY <1>1, <1>2, ClientMessages

\* The state of a call once its chunk is acknowledged.
Acknowledged(w) == IF call[w].next > Parts[w] + 1 THEN "done" ELSE "ready"

\* What the acknowledgement of a chunk does.
LEMMA OnOkIs ==
  ASSUME TypeOK, OnOk
  PROVE  \E f \in Name :
           /\ toClient # <<>> /\ toClient' = Tail(toClient)
           /\ Head(toClient)[1] = "ok" /\ Head(toClient)[2] = f
           /\ promise' = [promise EXCEPT ![f] = None]
           /\ promise[f] = None => call' = call
           /\ promise[f] # None =>
                /\ promise[f] \in Writer /\ call[promise[f]].state = "sent" /\ call[promise[f]].file = f
                /\ call' = [call EXCEPT ![promise[f]] =
                              [state |-> Acknowledged(promise[f]), file |-> f, next |-> call[promise[f]].next]]
           /\ UNCHANGED <<client, reading, getParts, toWorker, files, disk, mixed, seen>>
<1> DEFINE f == Head(toClient)[2]
<1>1. Receive("ok") /\ f \in Name /\ Head(toClient)[1] = "ok"
  BY ReceiveIs DEF OnOk
<1>2. /\ promise' = [promise EXCEPT ![f] = None]
      /\ call' = IF promise[f] = None THEN call
                 ELSE [call EXCEPT ![promise[f]].state = Acknowledged(promise[f])]
      /\ UNCHANGED <<client, reading, getParts, toWorker, files, disk, mixed, seen>>
  BY DEF OnOk, Acknowledged
<1>3. toClient # <<>> /\ toClient' = Tail(toClient)
  BY <1>1 DEF Receive
<1>4. ASSUME promise[f] # None
      PROVE  /\ promise[f] \in Writer /\ call[promise[f]].state = "sent" /\ call[promise[f]].file = f
             /\ call' = [call EXCEPT ![promise[f]] =
                           [state |-> Acknowledged(promise[f]), file |-> f, next |-> call[promise[f]].next]]
  <2>1. promise[f] \in Writer /\ call[promise[f]].state = "sent" /\ call[promise[f]].file = f
    BY <1>1, <1>4 DEF TypeOK
  <2>2. call \in [Writer -> Call]
    BY DEF TypeOK, Call
  <2> DEFINE w == promise[f]
  <2>3. call' = [call EXCEPT ![w] = [call[w] EXCEPT !.state = Acknowledged(w)]]
    BY <1>2, <1>4
  <2>4. [call[w] EXCEPT !.state = Acknowledged(w)] = [state |-> Acknowledged(w), file |-> f, next |-> call[w].next]
    BY <2>1, <2>2 DEF Call
  <2> QED BY <2>1, <2>3, <2>4
<1> HIDE DEF f
<1>5. Head(toClient)[2] = f
  BY DEF f
<1> QED BY <1>1, <1>2, <1>3, <1>4, <1>5

LEMMA InitTypes == TransferAssumption /\ Init => TypeInv
<1> SUFFICES ASSUME TransferAssumption, Init PROVE TypeInv
  OBVIOUS
<1>1. call \in [Writer -> Call] /\ \A w \in Writer : call[w].state = "idle"
  BY DEF Init, Call
<1>2. promise \in [Name -> Writer \cup {None}] /\ \A f \in Name : promise[f] = None
  BY DEF Init
<1>3. /\ toWorker \in Seq(ToWorkerMessage) /\ toClient \in Seq(ToClientMessage)
      /\ <<>> \in File /\ <<>> \in Seq(File)
  BY DEF Init, File
<1>4. RestType
  BY <1>3 DEF Init, RestType
<1>5. CallType
  BY <1>1, <1>2 DEF CallType
<1>6. EntryFiles
  BY <1>1 DEF EntryFiles, Writer
<1> QED BY <1>4, <1>5, <1>6 DEF TypeInv

\* Every step keeps the types.
LEMMA StepTypes == TransferAssumption /\ TypeInv /\ [Next]_vars => TypeInv'
<1> SUFFICES ASSUME TransferAssumption, TypeInv, [Next]_vars PROVE TypeInv'
  OBVIOUS
<1>0. TypeOK /\ EntryFiles /\ CallType /\ RestType
  BY TypesImplied DEF TypeInv
<1>t. /\ call \in [Writer -> Call] /\ \A w \in Writer : call[w].state = "idle" \/ call[w].file \in Name
      /\ promise \in [Name -> Writer \cup {None}]
      /\ \A f \in Name : promise[f] # None =>
           promise[f] \in Writer /\ call[promise[f]].state = "sent" /\ call[promise[f]].file = f
      /\ toWorker \in Seq(ToWorkerMessage) /\ toClient \in Seq(ToClientMessage)
      /\ files \in [Name -> File] /\ disk \in [Name -> File \cup {Missing}]
      /\ seen \in [Name -> SUBSET (File \cup {Missing})]
      /\ reading \in [Name -> BOOLEAN] /\ getParts \in [Name -> Seq(File)]
      /\ Entry \subseteq Writer
      /\ client \in {"uploading", "starting", "ready"} /\ mixed \subseteq Name
  BY <1>0, UploadIs DEF CallType, RestType
<1>p. \A w \in Writer : call[w].state # "sent" => \A g \in Name : promise[g] # w
  <2> SUFFICES ASSUME NEW w \in Writer, call[w].state # "sent", NEW g \in Name, promise[g] = w
               PROVE  FALSE
    OBVIOUS
  <2>1. promise[g] # None
    BY DEF TransferAssumption
  <2>2. call[promise[g]].state = "sent"
    BY <1>t, <2>1
  <2> QED BY <2>2
<1>1. CASE Sending
  <2>1. PICK w \in Writer, f \in Name, n \in Nat \ {0} :
          /\ Sends(w, f, n)
          /\ w \in Entry => f = Upload[w]
          /\ Refused(w, f, n) \/ Sent(w, f, n)
          /\ UNCHANGED <<client, reading, getParts, toClient, files, disk, seen>>
    BY <1>1 DEF Sending
  <2>2. call[w].state \in {"idle", "ready"} /\ n + 1 \in Nat \ {0}
    BY <2>1 DEF Sends
  <2>3. \A g \in Name : promise[g] # w
    BY <1>p, <2>1, <2>2
  <2>4. CASE Refused(w, f, n)
    <3>1. call' \in [Writer -> Call] /\ call'[w].file = f /\ \A v \in Writer \ {w} : call'[v] = call[v]
      BY <1>t, <2>4 DEF Refused, Call
    <3>2. UNCHANGED <<promise, toWorker, mixed>>
      BY <2>4 DEF Refused
    <3>3. EntryFiles'
      BY <1>0, <1>t, <2>1, <3>1 DEF EntryFiles
    <3>4. CallType'
      BY ZenonT(30), <1>t, <2>1, <2>3, <3>1, <3>2 DEF CallType
    <3>5. RestType'
      BY <1>0, <2>1, <3>2 DEF RestType
    <3> QED BY <3>3, <3>4, <3>5 DEF TypeInv
  <2>5. CASE Sent(w, f, n)
    <3>1. call' \in [Writer -> Call] /\ call'[w].file = f /\ call'[w].state = "sent"
          /\ \A v \in Writer \ {w} : call'[v] = call[v]
      BY <1>t, <2>2, <2>5 DEF Sent, Call
    <3>2. promise' \in [Name -> Writer \cup {None}] /\ promise'[f] = w
          /\ \A g \in Name \ {f} : promise'[g] = promise[g]
      BY <1>t, <2>5 DEF Sent
    <3>3. toWorker' \in Seq(ToWorkerMessage)
      <4>1. <<"chunk", f, Chunk(w, n)>> \in ToWorkerMessage
        BY ChunkIs, WorkerMessages
      <4> QED BY <1>t, <2>5, <4>1, QueueIs DEF Sent
    <3>4. mixed' \subseteq Name
      BY <1>t, <2>5 DEF Sent
    <3>5. EntryFiles'
      BY <1>0, <1>t, <2>1, <3>1 DEF EntryFiles
    <3>6. ASSUME NEW g \in Name, promise'[g] # None
          PROVE  /\ promise'[g] \in Writer
                 /\ call'[promise'[g]].state = "sent" /\ call'[promise'[g]].file = g
      <4>1. CASE g = f
        BY <3>1, <3>2, <4>1
      <4>2. CASE g # f
        <5>1. promise'[g] = promise[g] /\ promise[g] \in Writer \ {w}
          BY <1>t, <2>3, <3>2, <3>6, <4>2
        <5> QED BY <1>t, <3>1, <3>6, <5>1
      <4> QED BY <4>1, <4>2
    <3>7. CallType'
      BY <1>t, <2>1, <3>1, <3>2, <3>6 DEF CallType
    <3>8. RestType'
      BY <1>0, <2>1, <3>3, <3>4 DEF RestType
    <3> QED BY <3>5, <3>7, <3>8 DEF TypeInv
  <2> QED BY <2>1, <2>4, <2>5
<1>2. CASE Reading
  <2>1. PICK w \in Write, f \in Name :
          /\ \/ call[w].state = "idle" /\ call' = [call EXCEPT ![w] = [state |-> "ready", file |-> f, next |-> 1]]
             \/ call[w].state = "ready" /\ call' = [call EXCEPT ![w].state = "failed"]
          /\ UNCHANGED <<client, promise, reading, getParts, toWorker, toClient, files, disk, mixed, seen>>
    BY <1>2 DEF Reading
  <2>2. w \in Writer /\ w \notin Entry /\ call[w].state \in {"idle", "ready"}
    BY <2>1 DEF Writer, TransferAssumption
  <2>3. \A g \in Name : promise[g] # w
    BY <1>p, <2>1, <2>2
  <2>4. call' \in [Writer -> Call] /\ call'[w].file \in Name /\ \A v \in Writer \ {w} : call'[v] = call[v]
    <3>1. CASE call[w].state = "idle"
      <4> DEFINE c == [state |-> "ready", file |-> f, next |-> 1]
      <4>1. call' = [call EXCEPT ![w] = c] /\ c \in Call /\ c.file \in Name
        BY <2>1, <3>1 DEF Call
      <4> HIDE DEF c
      <4> QED BY <1>t, <2>2, <4>1
    <3>2. CASE call[w].state = "ready"
      <4> DEFINE c == [state |-> "failed", file |-> call[w].file, next |-> call[w].next]
      <4>1. call' = [call EXCEPT ![w] = [call[w] EXCEPT !.state = "failed"]]
        BY <2>1, <3>2
      <4>2. call[w] \in Call /\ [call[w] EXCEPT !.state = "failed"] = c
        <5>1. call[w] \in Call
          BY <1>t, <2>2
        <5> QED BY <5>1, CallIs
      <4>3. c \in Call /\ c.file = call[w].file /\ call[w].file \in Name
        BY <1>t, <2>2, <3>2, <4>2 DEF Call
      <4> HIDE DEF c
      <4> QED BY <1>t, <2>2, <4>1, <4>2, <4>3
    <3> QED BY <2>2, <3>1, <3>2
  <2>5. EntryFiles'
    BY <1>0, <1>t, <2>2, <2>4 DEF EntryFiles
  <2>6. \A v \in Writer : call'[v].state = "idle" \/ call'[v].file \in Name
    BY <1>t, <2>2, <2>4
  <2>7. \A g \in Name : promise[g] # None => promise[g] \in Writer \ {w}
    BY <1>t, <2>3
  <2>8. CallType'
    BY <1>t, <2>1, <2>4, <2>6, <2>7 DEF CallType
  <2>9. RestType'
    BY <1>0, <2>1 DEF RestType
  <2> QED BY <2>5, <2>8, <2>9 DEF TypeInv
<1>3. ASSUME NEW f \in Name, ReadFile(f) PROVE TypeInv'
  <2>1. <<"get", f>> \in ToWorkerMessage
    BY WorkerMessages
  <2>2. toWorker' \in Seq(ToWorkerMessage)
    BY <1>t, <1>3, <2>1, QueueIs DEF ReadFile
  <2>3. reading' \in [Name -> BOOLEAN] /\ getParts' \in [Name -> Seq(File)]
    BY <1>t, <1>3 DEF ReadFile
  <2>4. seen' \in [Name -> SUBSET (File \cup {Missing})]
    BY <1>t, <1>3 DEF ReadFile
  <2> QED BY <1>0, <1>3, <2>2, <2>3, <2>4 DEF ReadFile, TypeInv, CallType, RestType, EntryFiles
<1>4. CASE SendRun
  <2>1. toWorker' \in Seq(ToWorkerMessage)
    BY <1>t, <1>4, WorkerMessages, QueueIs DEF SendRun
  <2> QED BY <1>0, <1>4, <2>1 DEF SendRun, TypeInv, CallType, RestType, EntryFiles
<1>5. CASE OnOk
  <2>1. PICK f \in Name :
          /\ toClient # <<>> /\ toClient' = Tail(toClient)
          /\ promise' = [promise EXCEPT ![f] = None]
          /\ promise[f] = None => call' = call
          /\ promise[f] # None =>
               /\ promise[f] \in Writer /\ call[promise[f]].state = "sent" /\ call[promise[f]].file = f
               /\ call' = [call EXCEPT ![promise[f]] =
                             [state |-> Acknowledged(promise[f]), file |-> f, next |-> call[promise[f]].next]]
          /\ UNCHANGED <<client, reading, getParts, toWorker, files, disk, mixed, seen>>
    BY <1>0, <1>5, OnOkIs
  <2>2. toClient' \in Seq(ToClientMessage)
    BY <1>t, <2>1, QueueIs
  <2>3. promise' \in [Name -> Writer \cup {None}] /\ promise'[f] = None
        /\ \A g \in Name \ {f} : promise'[g] = promise[g]
    BY <1>t, <2>1
  <2>4. CASE promise[f] = None
    BY <1>0, <1>t, <2>1, <2>2, <2>3, <2>4 DEF TypeInv, CallType, RestType, EntryFiles
  <2>5. CASE promise[f] # None
    <3> DEFINE w == promise[f]
               c == [state |-> Acknowledged(w), file |-> f, next |-> call[w].next]
    <3>1. w \in Writer /\ call[w].state = "sent" /\ call[w].file = f /\ call' = [call EXCEPT ![w] = c]
      BY <2>1, <2>5
    <3>2. c \in Call /\ c.file = f
      <4>1. Acknowledged(w) \in {"done", "ready"} /\ call[w].next \in Nat \ {0}
        BY <1>t, <3>1 DEF Acknowledged, Call
      <4> QED BY <4>1 DEF Call
    <3> HIDE DEF w, c
    <3>3. call' \in [Writer -> Call] /\ call'[w].file = f /\ \A v \in Writer \ {w} : call'[v] = call[v]
      BY <1>t, <3>1, <3>2
    <3>4. \A g \in Name : promise'[g] # None =>
            promise'[g] \in Writer \ {w} /\ promise'[g] = promise[g]
      BY <1>t, <2>3, <3>1
    <3>5. EntryFiles'
      BY <1>0, <1>t, <3>1, <3>3 DEF EntryFiles
    <3>8. \A v \in Writer : call'[v].state = "idle" \/ call'[v].file \in Name
      BY <1>t, <3>3
    <3>9. \A g \in Name : promise'[g] # None =>
            call'[promise'[g]].state = "sent" /\ call'[promise'[g]].file = g
      BY <1>t, <3>3, <3>4
    <3>6. CallType'
      BY <2>3, <3>3, <3>4, <3>8, <3>9 DEF CallType
    <3>7. RestType'
      BY <1>0, <2>1, <2>2 DEF RestType
    <3> QED BY <3>5, <3>6, <3>7 DEF TypeInv
  <2> QED BY <2>4, <2>5
<1>6. CASE OnData
  <2> DEFINE f == Head(toClient)[2]
             c == Head(toClient)[3]
  <2>1. /\ f \in Name /\ c \in File /\ toClient' \in Seq(ToClientMessage)
        /\ getParts' = [getParts EXCEPT ![f] = Append(getParts[f], c)]
    BY <1>0, <1>6, ReceiveIs DEF OnData
  <2> HIDE DEF f, c
  <2>2. Append(getParts[f], c) \in Seq(File)
    BY <1>t, <2>1, QueueIs
  <2>3. getParts' \in [Name -> Seq(File)]
    BY <1>t, <2>1, <2>2
  <2> QED BY <1>0, <1>6, <2>1, <2>3 DEF OnData, TypeInv, CallType, RestType, EntryFiles
<1>7. CASE OnEnd
  <2>1. toClient' \in Seq(ToClientMessage)
    BY <1>0, <1>7, ReceiveIs DEF OnEnd
  <2>2. reading' \in [Name -> BOOLEAN]
    BY <1>t, <1>7 DEF OnEnd
  <2> QED BY <1>0, <1>7, <2>1, <2>2 DEF OnEnd, TypeInv, CallType, RestType, EntryFiles
<1>8. CASE OnReady
  <2>1. toClient' \in Seq(ToClientMessage)
    BY <1>0, <1>8, ReceiveIs DEF OnReady
  <2> QED BY <1>0, <1>8, <2>1 DEF OnReady, TypeInv, CallType, RestType, EntryFiles
<1>9. CASE HandleChunk
  <2> DEFINE f == Head(toWorker)[2]
             d == Head(toWorker)[3]
  <2>1. /\ f \in Name /\ d \in PartId /\ toWorker' \in Seq(ToWorkerMessage)
        /\ files' = [files EXCEPT ![f] = Append(files[f], d)]
        /\ toClient' = Append(toClient, <<"ok", f>>)
    BY <1>0, <1>9, HandleIs DEF HandleChunk
  <2> HIDE DEF f, d
  <2>2. Append(files[f], d) \in File
    <3>1. files[f] \in Seq(PartId)
      BY <1>t, <2>1 DEF File, PartId
    <3> QED BY <2>1, <3>1, QueueIs DEF File, PartId
  <2>3. files' \in [Name -> File]
    BY <1>t, <2>1, <2>2
  <2>4. toClient' \in Seq(ToClientMessage)
    BY <1>t, <2>1, ClientMessages, QueueIs
  <2> QED BY <1>0, <1>9, <2>1, <2>3, <2>4 DEF HandleChunk, clientVars, TypeInv, CallType, RestType, EntryFiles
<1>10. CASE HandleEnd
  <2> DEFINE f == Head(toWorker)[2]
  <2>1. /\ f \in Name /\ toWorker' \in Seq(ToWorkerMessage)
        /\ files' = [files EXCEPT ![f] = <<>>]
        /\ \/ UNCHANGED <<disk, seen, toClient>>
           \/ /\ disk' = [disk EXCEPT ![f] = files[f]]
              /\ seen' = [seen EXCEPT ![f] = seen[f] \cup {files[f]}]
              /\ toClient' = Append(toClient, <<"ok", f>>)
    BY <1>0, <1>10, HandleIs DEF HandleEnd
  <2> HIDE DEF f
  <2>2. <<>> \in File
    BY DEF File
  <2>3. files' \in [Name -> File]
    BY <1>t, <2>1, <2>2
  <2>4. /\ toClient' \in Seq(ToClientMessage)
        /\ disk' \in [Name -> File \cup {Missing}]
        /\ seen' \in [Name -> SUBSET (File \cup {Missing})]
    <3>1. CASE UNCHANGED <<disk, seen, toClient>>
      BY <1>t, <3>1
    <3>2. CASE /\ disk' = [disk EXCEPT ![f] = files[f]]
               /\ seen' = [seen EXCEPT ![f] = seen[f] \cup {files[f]}]
               /\ toClient' = Append(toClient, <<"ok", f>>)
      <4>1. toClient' \in Seq(ToClientMessage)
        BY <1>t, <2>1, <3>2, ClientMessages, QueueIs
      <4>2. files[f] \in File
        BY <1>t, <2>1
      <4>3. disk' \in [Name -> File \cup {Missing}]
        BY <1>t, <3>2, <4>2
      <4>4. seen' \in [Name -> SUBSET (File \cup {Missing})]
        BY ZenonT(30), <1>t, <3>2, <4>2
      <4> QED BY <4>1, <4>3, <4>4
    <3> QED BY <2>1, <3>1, <3>2
  <2> QED BY <1>0, <1>10, <2>1, <2>3, <2>4 DEF HandleEnd, clientVars, TypeInv, CallType, RestType, EntryFiles
<1>11. CASE HandleGet
  <2> DEFINE f == Head(toWorker)[2]
  <2>1. /\ f \in Name /\ toWorker' \in Seq(ToWorkerMessage)
        /\ toClient' = IF disk[f] = Missing THEN toClient
                       ELSE toClient \o <<<<"data", f, disk[f]>>, <<"end", f>>>>
    BY <1>0, <1>11, HandleIs DEF HandleGet
  <2> HIDE DEF f
  <2>2. toClient' \in Seq(ToClientMessage)
    <3>1. CASE disk[f] = Missing
      BY <1>t, <2>1, <3>1
    <3>2. CASE disk[f] # Missing
      <4>1. <<"data", f, disk[f]>> \in ToClientMessage /\ <<"end", f>> \in ToClientMessage
        <5>1. disk[f] \in File
          BY <1>t, <2>1, <3>2
        <5> QED BY <2>1, <5>1, ClientMessages
      <4> DEFINE a == <<"data", f, disk[f]>>
                 b == <<"end", f>>
      <4>2. toClient' = toClient \o <<a, b>> /\ a \in ToClientMessage /\ b \in ToClientMessage
        BY <2>1, <3>2, <4>1
      <4> HIDE DEF a, b
      <4> QED BY <1>t, <4>2
    <3> QED BY <3>1, <3>2
  <2> QED BY <1>0, <1>11, <2>1, <2>2 DEF HandleGet, clientVars, TypeInv, CallType, RestType, EntryFiles
<1>12. CASE HandleRun
  <2>1. toWorker' \in Seq(ToWorkerMessage)
    BY <1>0, <1>12, HandleIs DEF HandleRun
  <2>2. toClient' \in Seq(ToClientMessage)
    BY <1>t, <1>12, ClientMessages, QueueIs DEF HandleRun
  <2> QED BY <1>0, <1>12, <2>1, <2>2 DEF HandleRun, clientVars, TypeInv, CallType, RestType, EntryFiles
<1>13. CASE UNCHANGED vars
  BY <1>0, <1>13 DEF vars, clientVars, TypeInv, CallType, RestType, EntryFiles
<1>14. CASE Next
  BY <1>0, <1>14, <1>1, <1>2, <1>3, <1>4, <1>5, <1>6, <1>7, <1>8, <1>9, <1>10, <1>11, <1>12, NextIs
     DEF OnMessage, HandleMessage
<1> QED BY <1>13, <1>14

\* The types are an invariant of every transfer.
THEOREM TransferTypeCorrect == Spec => []TypeOK
<1> USE TransferAssumption
<1>1. Init => TypeInv
  BY InitTypes
<1>2. TypeInv /\ [Next]_vars => TypeInv'
  BY StepTypes
<1>3. TypeInv => TypeOK
  BY TypesImplied
<1> QED BY <1>1, <1>2, <1>3, PTL DEF Spec

----------------------------------------------------------------------------
(* Messages that are counted.                                                *)

Is(m, k, f) == m[1] = k /\ m[2] = f

Places(q, k, f) == {i \in DOMAIN q : q[i][1] = k /\ q[i][2] = f}

\* A count is a number, and zero when there is none.
LEMMA CountType ==
  ASSUME NEW S, NEW q \in Seq(S), NEW k, NEW f
  PROVE  /\ IsFiniteSet(Places(q, k, f))
         /\ Count(q, k, f) = Cardinality(Places(q, k, f))
         /\ Count(q, k, f) \in Nat
         /\ \A i \in DOMAIN q : q[i][1] = k /\ q[i][2] = f => Count(q, k, f) # 0
<1>1. DOMAIN q = 1 .. Len(q) /\ Len(q) \in Nat
  OBVIOUS
<1>2. IsFiniteSet(1 .. Len(q))
  BY <1>1, FS_Interval
<1>3. Places(q, k, f) \in SUBSET (1 .. Len(q))
  BY <1>1 DEF Places
<1>4. IsFiniteSet(Places(q, k, f))
  BY <1>2, <1>3, FS_Subset
<1>5. Cardinality(Places(q, k, f)) \in Nat
  BY <1>4, FS_CardinalityType
<1>6. Count(q, k, f) = Cardinality(Places(q, k, f))
  BY DEF Count, Places
<1>7. Places(q, k, f) # {} => Cardinality(Places(q, k, f)) # 0
  BY <1>4, FS_EmptySet
<1>8. \A i \in DOMAIN q : q[i][1] = k /\ q[i][2] = f => i \in Places(q, k, f)
  BY DEF Places
<1> QED BY <1>4, <1>5, <1>6, <1>7, <1>8

\* No message is in an empty queue.
LEMMA CountEmpty ==
  ASSUME NEW k, NEW f
  PROVE  Count(<<>>, k, f) = 0
<1>1. {i \in DOMAIN <<>> : <<>>[i][1] = k /\ <<>>[i][2] = f} = {}
  OBVIOUS
<1> QED BY <1>1, FS_EmptySet DEF Count

\* The queue r holds x and what q holds.
OneMore(q, x, r, k, f) ==
  /\ Is(x, k, f) => Count(r, k, f) = Count(q, k, f) + 1
  /\ ~ Is(x, k, f) => Count(r, k, f) = Count(q, k, f)

\* A message at the end is one more of its kind.
LEMMA CountPosted ==
  ASSUME NEW S, NEW q \in Seq(S), NEW x \in S, NEW r, r = Append(q, x), NEW k, NEW f
  PROVE  OneMore(q, x, r, k, f)
<1>1. /\ DOMAIN r = 1 .. Len(q) + 1
      /\ DOMAIN q = 1 .. Len(q) /\ Len(q) \in Nat
      /\ \A i \in 1 .. Len(q) : r[i] = q[i]
      /\ r[Len(q) + 1] = x
      /\ r \in Seq(S)
  OBVIOUS
<1>2. Count(r, k, f) = Cardinality(Places(r, k, f))
  BY <1>1, CountType
<1>3. /\ IsFiniteSet(Places(q, k, f)) /\ Count(q, k, f) = Cardinality(Places(q, k, f))
      /\ Count(q, k, f) \in Nat
  BY CountType
<1>4. CASE Is(x, k, f)
  <2>1. Places(r, k, f) = Places(q, k, f) \cup {Len(q) + 1}
    BY <1>1, <1>4 DEF Places, Is
  <2>2. Len(q) + 1 \notin Places(q, k, f)
    BY <1>1 DEF Places
  <2>3. Count(r, k, f) = Count(q, k, f) + 1
    BY ZenonT(30), <1>2, <1>3, <2>1, <2>2, FS_AddElement
  <2> QED BY <1>4, <2>3 DEF OneMore
<1>5. CASE ~ Is(x, k, f)
  <2>1. Places(r, k, f) = Places(q, k, f)
    BY <1>1, <1>5 DEF Places, Is
  <2>2. Count(r, k, f) = Count(q, k, f)
    BY <1>2, <1>3, <2>1
  <2> QED BY <1>5, <2>2 DEF OneMore
<1> QED BY <1>4, <1>5

\* A message taken from the head is one less of its kind.
LEMMA CountTaken ==
  ASSUME NEW S, NEW q \in Seq(S), q # <<>>, NEW r, r = Tail(q), NEW k, NEW f
  PROVE  OneMore(r, Head(q), q, k, f)
<1>1. /\ r \in Seq(S)
      /\ DOMAIN r = 1 .. Len(q) - 1
      /\ DOMAIN q = 1 .. Len(q) /\ Len(q) \in Nat /\ Len(q) >= 1
      /\ \A i \in 1 .. Len(q) - 1 : r[i] = q[i + 1]
      /\ Head(q) = q[1]
  OBVIOUS
<1> DEFINE rest == Places(q, k, f) \ {1}
           g == [i \in Places(r, k, f) |-> i + 1]
<1>2. /\ IsFiniteSet(Places(q, k, f)) /\ Count(q, k, f) = Cardinality(Places(q, k, f))
      /\ Count(q, k, f) \in Nat
      /\ IsFiniteSet(Places(r, k, f)) /\ Count(r, k, f) = Cardinality(Places(r, k, f))
      /\ Count(r, k, f) \in Nat
  BY <1>1, CountType
<1>3. g \in Bijection(Places(r, k, f), rest)
  <2>1. \A i \in Places(r, k, f) : i \in Nat /\ i + 1 \in rest
    BY <1>1 DEF Places
  <2>2. g \in [Places(r, k, f) -> rest]
    BY <2>1
  <2>3. \A a, b \in Places(r, k, f) : g[a] = g[b] => a = b
    BY <2>1
  <2>4. \A y \in rest : y - 1 \in Places(r, k, f) /\ g[y - 1] = y
    <3> SUFFICES ASSUME NEW y \in rest
                 PROVE  y - 1 \in Places(r, k, f) /\ g[y - 1] = y
      OBVIOUS
    <3>1. y \in 1 .. Len(q) /\ y # 1 /\ q[y][1] = k /\ q[y][2] = f
      BY <1>1 DEF Places
    <3>2. y - 1 \in 1 .. Len(q) - 1 /\ (y - 1) + 1 = y
      BY <3>1, <1>1
    <3>3. y - 1 \in Places(r, k, f)
      BY <3>1, <3>2, <1>1 DEF Places
    <3> QED BY <3>2, <3>3
  <2> QED BY <2>2, <2>3, <2>4 DEF Bijection, Injection, IsInjective, Surjection
<1> HIDE DEF g
<1>4. ExistsBijection(Places(r, k, f), rest)
  BY <1>3 DEF ExistsBijection
<1>5. Cardinality(rest) = Count(r, k, f)
  BY <1>2, <1>4, FS_Bijection
<1>6. Cardinality(rest) = IF 1 \in Places(q, k, f) THEN Cardinality(Places(q, k, f)) - 1
                          ELSE Cardinality(Places(q, k, f))
  BY <1>2, FS_RemoveElement
<1>7. 1 \in Places(q, k, f) <=> Is(Head(q), k, f)
  BY <1>1 DEF Places, Is
<1> HIDE DEF rest
<1> QED BY <1>2, <1>5, <1>6, <1>7 DEF OneMore

\* The same of what the worker and the client take.
LEMMA HandleCounts ==
  ASSUME TypeOK, NEW h, Handle(h), NEW k, NEW f
  PROVE  /\ Count(toWorker, k, f) \in Nat /\ Count(toWorker', k, f) \in Nat
         /\ h = k /\ Head(toWorker)[2] = f => Count(toWorker, k, f) = Count(toWorker', k, f) + 1
         /\ ~ (h = k /\ Head(toWorker)[2] = f) => Count(toWorker, k, f) = Count(toWorker', k, f)
<1>1. /\ toWorker # <<>> /\ toWorker' = Tail(toWorker) /\ Head(toWorker)[1] = h
      /\ Tail(toWorker) \in Seq(ToWorkerMessage) /\ toWorker \in Seq(ToWorkerMessage)
  BY HandleIs DEF TypeOK
<1>2. OneMore(toWorker', Head(toWorker), toWorker, k, f)
  BY <1>1, CountTaken
<1>3. Count(toWorker, k, f) \in Nat /\ Count(Tail(toWorker), k, f) \in Nat
  BY <1>1, CountType
<1> QED BY <1>1, <1>2, <1>3 DEF Is, OneMore

LEMMA ReceiveCounts ==
  ASSUME TypeOK, NEW h, Receive(h), NEW k, NEW f
  PROVE  /\ Count(toClient, k, f) \in Nat /\ Count(toClient', k, f) \in Nat
         /\ h = k /\ Head(toClient)[2] = f => Count(toClient, k, f) = Count(toClient', k, f) + 1
         /\ ~ (h = k /\ Head(toClient)[2] = f) => Count(toClient, k, f) = Count(toClient', k, f)
<1>1. /\ toClient # <<>> /\ toClient' = Tail(toClient) /\ Head(toClient)[1] = h
      /\ Tail(toClient) \in Seq(ToClientMessage) /\ toClient \in Seq(ToClientMessage)
  BY ReceiveIs DEF TypeOK
<1>2. OneMore(toClient', Head(toClient), toClient, k, f)
  BY <1>1, CountTaken
<1>3. Count(toClient, k, f) \in Nat /\ Count(Tail(toClient), k, f) \in Nat
  BY <1>1, CountType
<1> QED BY <1>1, <1>2, <1>3 DEF Is, OneMore

\* What the answer to wc-fs-get-file adds.
LEMMA GetCounts ==
  ASSUME TypeOK, HandleGet, disk[Head(toWorker)[2]] # Missing, NEW k, NEW f
  PROVE  /\ Count(toClient, k, f) \in Nat /\ Count(toClient', k, f) \in Nat
         /\ k \in {"data", "end"} /\ Head(toWorker)[2] = f => Count(toClient', k, f) = Count(toClient, k, f) + 1
         /\ ~ (k \in {"data", "end"} /\ Head(toWorker)[2] = f) => Count(toClient', k, f) = Count(toClient, k, f)
<1> DEFINE g == Head(toWorker)[2]
           a == <<"data", g, disk[g]>>
           b == <<"end", g>>
           q == Append(toClient, a)
<1>1. g \in Name /\ disk[g] \in File /\ toClient \in Seq(ToClientMessage)
  BY HandleIs DEF HandleGet, TypeOK
<1>2. /\ a \in ToClientMessage /\ b \in ToClientMessage
      /\ a[1] = "data" /\ a[2] = g /\ b[1] = "end" /\ b[2] = g
  <2> HIDE DEF g
  <2> QED BY <1>1, ClientMessages
<1>3. toClient' = toClient \o <<a, b>>
  BY DEF HandleGet
<1> HIDE DEF g, a, b
<1>4. toClient' = Append(q, b) /\ q \in Seq(ToClientMessage)
  BY <1>1, <1>2, <1>3
<1>5. OneMore(toClient, a, q, k, f)
  BY <1>1, <1>2, CountPosted
<1>6. OneMore(q, b, toClient', k, f)
  <2> HIDE DEF q
  <2> QED BY <1>2, <1>4, CountPosted
<1>7. Count(toClient, k, f) \in Nat
  BY <1>1, CountType
<1> HIDE DEF q
<1>8. /\ k \in {"data", "end"} /\ g = f => Count(toClient', k, f) = Count(toClient, k, f) + 1
      /\ ~ (k \in {"data", "end"} /\ g = f) => Count(toClient', k, f) = Count(toClient, k, f)
  <2>1. Is(a, k, f) <=> k = "data" /\ g = f
    BY <1>2 DEF Is
  <2>2. Is(b, k, f) <=> k = "end" /\ g = f
    BY <1>2 DEF Is
  <2> QED BY <1>5, <1>6, <1>7, <2>1, <2>2 DEF OneMore
<1> QED BY <1>7, <1>8 DEF g

\* What a message that is posted changes.
LEMMA ToWorkerIs ==
  ASSUME TypeOK, NEW x \in ToWorkerMessage, toWorker' = Append(toWorker, x)
  PROVE  /\ \A k, f : /\ Count(toWorker, k, f) \in Nat /\ OneMore(toWorker, x, toWorker', k, f)
         /\ \A i \in DOMAIN toWorker' : \/ i \in DOMAIN toWorker /\ toWorker'[i] = toWorker[i]
                                        \/ toWorker'[i] = x
<1>1. toWorker \in Seq(ToWorkerMessage)
  BY DEF TypeOK
<1>2. \A k, f : Count(toWorker, k, f) \in Nat /\ OneMore(toWorker, x, toWorker', k, f)
  BY <1>1, CountPosted, CountType
<1>3. \A i \in DOMAIN toWorker' : \/ i \in DOMAIN toWorker /\ toWorker'[i] = toWorker[i]
                                  \/ toWorker'[i] = x
  BY <1>1
<1> QED BY <1>2, <1>3

LEMMA ToClientIs ==
  ASSUME TypeOK, NEW x \in ToClientMessage, toClient' = Append(toClient, x)
  PROVE  \A k, f : /\ Count(toClient, k, f) \in Nat /\ OneMore(toClient, x, toClient', k, f)
<1>1. toClient \in Seq(ToClientMessage)
  BY DEF TypeOK
<1> QED BY <1>1, CountPosted, CountType

\* What is left was there before.
LEMMA HandleLeaves ==
  ASSUME TypeOK, NEW h, Handle(h)
  PROVE  \A i \in DOMAIN toWorker' : \E j \in DOMAIN toWorker : toWorker'[i] = toWorker[j]
<1>1. toWorker # <<>> /\ toWorker' = Tail(toWorker) /\ toWorker \in Seq(ToWorkerMessage)
  BY DEF Handle, TypeOK
<1>2. \A i \in DOMAIN Tail(toWorker) : i + 1 \in DOMAIN toWorker /\ Tail(toWorker)[i] = toWorker[i + 1]
  BY <1>1
<1> QED BY <1>1, <1>2

----------------------------------------------------------------------------
(* One chunk per name.                                                       *)

\* A write that may go on has chunks left, or its end.
StateInv ==
  \A w \in Writer :
    /\ call[w].state = "ready" => call[w].next <= Parts[w] + 1
    /\ call[w].state = "sent" => call[w].next >= 2 /\ call[w].next <= Parts[w] + 2

\* The chunk on its way is the last one that the write of its promise sent.
ChunkInv ==
  \A i \in DOMAIN toWorker : toWorker[i][1] = "chunk" =>
    LET w == promise[toWorker[i][2]]
    IN  w # None /\ toWorker[i][3] = Chunk(w, call[w].next - 1)

MsgInv == TypeInv /\ StateInv /\ ChunkInv /\ OneChunkPerName

\* OneChunkPerName of one name, with its counts.
One(f, n) == IF promise[f] = None THEN n = 0 ELSE n = 1 \/ (n = 0 /\ f \in BadName)

LEMMA OneIs ==
  OneChunkPerName <=> \A f \in Name : One(f, Count(toWorker, "chunk", f) + Count(toClient, "ok", f))
BY DEF OneChunkPerName, One

LEMMA MsgInit == TransferAssumption /\ Init => MsgInv
<1> SUFFICES ASSUME TransferAssumption, Init PROVE MsgInv
  OBVIOUS
<1>1. TypeInv
  BY InitTypes
<1>2. StateInv /\ ChunkInv
  BY DEF Init, StateInv, ChunkInv
<1>3. \A f \in Name : Count(toWorker, "chunk", f) = 0 /\ Count(toClient, "ok", f) = 0 /\ promise[f] = None
  BY CountEmpty DEF Init
<1> QED BY <1>1, <1>2, <1>3 DEF MsgInv, OneChunkPerName

\* A call of sendFullDataChunk, with the facts about its write.
LEMMA SendingIs ==
  ASSUME TransferAssumption, TypeInv, StateInv, Sending
  PROVE  \E w \in Writer, f \in Name, n \in Nat \ {0} :
           /\ Sends(w, f, n)
           /\ w \in Entry => f = Upload[w]
           /\ Refused(w, f, n) \/ Sent(w, f, n)
           /\ UNCHANGED <<client, reading, getParts, toClient, files, disk, seen>>
           /\ n <= Parts[w] + 1 /\ Parts[w] \in Nat
           /\ call[w].state # "sent" /\ w # None /\ \A g \in Name : promise[g] # w
           /\ \A v \in Writer \ {w} : call'[v] = call[v]
           /\ call'[w].state \in {"failed", "sent"} /\ call'[w].file = f
<1>1. PICK w \in Writer, f \in Name, n \in Nat \ {0} :
        /\ Sends(w, f, n)
        /\ w \in Entry => f = Upload[w]
        /\ Refused(w, f, n) \/ Sent(w, f, n)
        /\ UNCHANGED <<client, reading, getParts, toClient, files, disk, seen>>
  BY DEF Sending
<1>2. Parts[w] \in Nat /\ w # None
  BY DEF TransferAssumption
<1>3. n <= Parts[w] + 1
  BY <1>1, <1>2 DEF Sends, StateInv
<1>4. call[w].state # "sent" /\ \A g \in Name : promise[g] # w
  BY <1>1, <1>2 DEF Sends, TypeInv, CallType
<1>5. /\ \A v \in Writer \ {w} : call'[v] = call[v]
      /\ call'[w].state \in {"failed", "sent"} /\ call'[w].file = f
  BY <1>1 DEF Refused, Sent, TypeInv, CallType
<1> QED BY <1>1, <1>2, <1>3, <1>4, <1>5

LEMMA ReadingIs ==
  ASSUME TransferAssumption, TypeInv, Reading
  PROVE  \E w \in Write :
           /\ w \in Writer /\ w \notin Entry
           /\ call[w].state \in {"idle", "ready"} /\ w # None /\ \A g \in Name : promise[g] # w
           /\ \A v \in Writer \ {w} : call'[v] = call[v]
           /\ \/ call[w].state = "idle" /\ call'[w].state = "ready" /\ call'[w].next = 1
              \/ /\ call[w].state = "ready" /\ call'[w].state = "failed"
                 /\ call'[w].file = call[w].file /\ call'[w].next = call[w].next
           /\ UNCHANGED <<client, promise, reading, getParts, toWorker, toClient, files, disk, mixed, seen>>
<1>1. PICK w \in Write, f \in Name :
        /\ \/ call[w].state = "idle" /\ call' = [call EXCEPT ![w] = [state |-> "ready", file |-> f, next |-> 1]]
           \/ call[w].state = "ready" /\ call' = [call EXCEPT ![w].state = "failed"]
        /\ UNCHANGED <<client, promise, reading, getParts, toWorker, toClient, files, disk, mixed, seen>>
  BY DEF Reading
<1>2. w \in Writer /\ w \notin Entry /\ w # None
  BY DEF Writer, TransferAssumption
<1>3. call \in [Writer -> Call]
  BY DEF TypeInv, CallType
<1>4. \A g \in Name : promise[g] # w
  BY <1>1, <1>2 DEF TypeInv, CallType
<1>5. CASE call[w].state = "idle"
  BY <1>1, <1>2, <1>3, <1>4, <1>5
<1>6. CASE call[w].state = "ready"
  <2> DEFINE c == [state |-> "failed", file |-> call[w].file, next |-> call[w].next]
  <2>1. call' = [call EXCEPT ![w] = [call[w] EXCEPT !.state = "failed"]]
    BY <1>1, <1>6
  <2>2. [call[w] EXCEPT !.state = "failed"] = c
    BY <1>2, <1>3, CallIs
  <2>3. call' = [call EXCEPT ![w] = c] /\ c.state = "failed" /\ c.file = call[w].file /\ c.next = call[w].next
    BY <2>1, <2>2
  <2> HIDE DEF c
  <2>4. call'[w] = c /\ \A v \in Writer \ {w} : call'[v] = call[v]
    BY <1>2, <1>3, <2>3
  <2> QED BY <1>1, <1>2, <1>4, <1>6, <2>3, <2>4
<1> QED BY <1>1, <1>5, <1>6

\* Every step keeps to one chunk per name.
LEMMA MsgStep == TransferAssumption /\ MsgInv /\ [Next]_vars => MsgInv'
<1> SUFFICES ASSUME TransferAssumption, MsgInv, [Next]_vars PROVE MsgInv'
  OBVIOUS
<1>0. TypeOK /\ TypeInv /\ CallType /\ EntryFiles /\ StateInv /\ ChunkInv /\ TypeInv'
  BY TypesImplied, StepTypes DEF MsgInv, TypeInv
<1>o. \A f \in Name : One(f, Count(toWorker, "chunk", f) + Count(toClient, "ok", f))
  BY OneIs DEF MsgInv
<1>n. \A k, f : Count(toWorker, k, f) \in Nat /\ Count(toClient, k, f) \in Nat
  BY <1>0, CountType DEF TypeOK
<1>s. (\A f \in Name : One(f, Count(toWorker, "chunk", f) + Count(toClient, "ok", f))')
        => OneChunkPerName'
  BY DEF OneChunkPerName, One
<1> SUFFICES /\ StateInv' /\ ChunkInv'
             /\ \A f \in Name : One(f, Count(toWorker, "chunk", f) + Count(toClient, "ok", f))'
  BY <1>0, <1>s DEF MsgInv
<1>t. call \in [Writer -> Call] /\ promise \in [Name -> Writer \cup {None}]
      /\ \A f \in Name : promise[f] # None =>
           promise[f] \in Writer /\ call[promise[f]].state = "sent" /\ call[promise[f]].file = f
  BY <1>0 DEF CallType
<1>w. \A i \in DOMAIN toWorker : toWorker[i][1] = "chunk" =>
        /\ toWorker[i][2] \in Name
        /\ Count(toWorker, "chunk", toWorker[i][2]) # 0
  <2>1. toWorker \in Seq(ToWorkerMessage)
    BY <1>0 DEF TypeOK
  <2>2. \A i \in DOMAIN toWorker : toWorker[i] \in ToWorkerMessage
    BY <2>1
  <2> QED BY <2>1, <2>2, WorkerMessages, CountType
<1>1. CASE Sending
  <2>1. PICK w \in Writer, f \in Name, n \in Nat \ {0} :
           /\ Refused(w, f, n) \/ Sent(w, f, n)
           /\ UNCHANGED <<client, reading, getParts, toClient, files, disk, seen>>
           /\ n <= Parts[w] + 1 /\ Parts[w] \in Nat
           /\ call[w].state # "sent" /\ w # None /\ \A g \in Name : promise[g] # w
           /\ \A v \in Writer \ {w} : call'[v] = call[v]
    BY <1>0, <1>1, SendingIs
  <2>2. CASE Refused(w, f, n)
    <3>1. UNCHANGED <<promise, toWorker>> /\ call'[w].state = "failed"
      BY <1>t, <2>2 DEF Refused
    <3>2. StateInv'
      BY <1>0, <2>1, <3>1 DEF StateInv
    <3>3. ChunkInv'
      BY <1>0, <1>t, <1>w, <2>1, <3>1 DEF ChunkInv
    <3>4. \A g \in Name : One(g, Count(toWorker, "chunk", g) + Count(toClient, "ok", g))'
      BY <1>o, <2>1, <3>1 DEF One
    <3> QED BY <3>2, <3>3, <3>4
  <2>3. CASE Sent(w, f, n)
    <3> DEFINE x == <<"chunk", f, Chunk(w, n)>>
    <3>1. promise[f] = None /\ toWorker' = Append(toWorker, x)
          /\ promise'[f] = w /\ \A g \in Name \ {f} : promise'[g] = promise[g]
      BY <1>t, <2>3 DEF Sent
    <3>2. call'[w].state = "sent" /\ call'[w].next = n + 1
      BY <1>t, <2>3 DEF Sent
    <3>3. x \in ToWorkerMessage /\ x[1] = "chunk" /\ x[2] = f /\ x[3] = Chunk(w, n)
      BY ChunkIs, WorkerMessages
    <3> HIDE DEF x
    <3>4. /\ \A g : OneMore(toWorker, x, toWorker', "chunk", g)
          /\ \A i \in DOMAIN toWorker' : \/ i \in DOMAIN toWorker /\ toWorker'[i] = toWorker[i]
                                         \/ toWorker'[i] = x
      BY <1>0, <3>1, <3>3, ToWorkerIs
    <3>5. StateInv'
      BY <1>0, <2>1, <3>2 DEF StateInv
    <3>6. ChunkInv'
      <4> SUFFICES ASSUME NEW i \in DOMAIN toWorker', toWorker'[i][1] = "chunk"
                   PROVE  LET v == promise'[toWorker'[i][2]]
                          IN  v # None /\ toWorker'[i][3] = Chunk(v, call'[v].next - 1)
        BY DEF ChunkInv
      <4>1. CASE toWorker'[i] = x
        <5>1. (n + 1) - 1 = n
          OBVIOUS
        <5> QED BY <2>1, <3>1, <3>2, <3>3, <4>1, <5>1
      <4>2. CASE i \in DOMAIN toWorker /\ toWorker'[i] = toWorker[i]
        <5> DEFINE g == toWorker[i][2]
        <5>1. g \in Name /\ promise[g] # None /\ toWorker[i][3] = Chunk(promise[g], call[promise[g]].next - 1)
          BY <1>0, <1>w, <4>2 DEF ChunkInv
        <5>2. promise'[g] = promise[g] /\ promise[g] \in Writer \ {w}
          BY <1>t, <2>1, <3>1, <5>1
        <5> QED BY <2>1, <4>2, <5>1, <5>2
      <4> QED BY <3>4, <4>1, <4>2
    <3>7. ASSUME NEW g \in Name
          PROVE  One(g, Count(toWorker, "chunk", g) + Count(toClient, "ok", g))'
      <4>1. CASE g = f
        <5>1. Count(toWorker, "chunk", f) + Count(toClient, "ok", f) = 0
          BY <1>o, <3>1 DEF One
        <5>2. Count(toWorker', "chunk", f) = Count(toWorker, "chunk", f) + 1
          BY <3>3, <3>4 DEF OneMore, Is
        <5>3. Count(toWorker', "chunk", f) + Count(toClient', "ok", f) = 1
          BY <1>n, <2>1, <5>1, <5>2
        <5> QED BY <2>1, <3>1, <4>1, <5>3 DEF One
      <4>2. CASE g # f
        <5>1. Count(toWorker', "chunk", g) = Count(toWorker, "chunk", g)
          BY <3>3, <3>4, <4>2 DEF OneMore, Is
        <5> QED BY <1>o, <2>1, <3>1, <4>2, <5>1 DEF One
      <4> QED BY <4>1, <4>2
    <3> QED BY <3>5, <3>6, <3>7
  <2> QED BY <2>1, <2>2, <2>3
<1>2. CASE Reading
  <2>1. PICK w \in Writer :
           /\ call[w].state \in {"idle", "ready"} /\ \A g \in Name : promise[g] # w
           /\ \A v \in Writer \ {w} : call'[v] = call[v]
           /\ \/ call'[w].state = "ready" /\ call'[w].next = 1
              \/ call'[w].state = "failed"
           /\ UNCHANGED <<promise, toWorker, toClient>>
    BY <1>0, <1>2, ReadingIs
  <2>2. Parts[w] \in Nat
    BY DEF TransferAssumption
  <2>3. StateInv'
    BY <1>0, <2>1, <2>2 DEF StateInv
  <2>4. ChunkInv'
    BY <1>0, <1>t, <1>w, <2>1 DEF ChunkInv
  <2>5. \A g \in Name : One(g, Count(toWorker, "chunk", g) + Count(toClient, "ok", g))'
    BY <1>o, <2>1 DEF One
  <2> QED BY <2>3, <2>4, <2>5
<1>3. CASE SendRun \/ \E f \in Name : ReadFile(f)
  <2>1. PICK x \in ToWorkerMessage : x[1] # "chunk" /\ toWorker' = Append(toWorker, x)
    <3>1. CASE SendRun
      BY <3>1, WorkerMessages DEF SendRun
    <3>2. ASSUME NEW f \in Name, ReadFile(f)
          PROVE  \E x \in ToWorkerMessage : x[1] # "chunk" /\ toWorker' = Append(toWorker, x)
      <4>1. <<"get", f>> \in ToWorkerMessage /\ <<"get", f>>[1] = "get" /\ toWorker' = Append(toWorker, <<"get", f>>)
        BY <3>2, WorkerMessages DEF ReadFile
      <4> QED BY <4>1
    <3> QED BY <1>3, <3>1, <3>2
  <2>2. UNCHANGED <<call, promise, toClient>>
    BY <1>3 DEF SendRun, ReadFile
  <2>3. /\ \A g : OneMore(toWorker, x, toWorker', "chunk", g)
        /\ \A i \in DOMAIN toWorker' : \/ i \in DOMAIN toWorker /\ toWorker'[i] = toWorker[i]
                                       \/ toWorker'[i] = x
    BY <1>0, <2>1, ToWorkerIs
  <2>4. \A g : Count(toWorker', "chunk", g) = Count(toWorker, "chunk", g)
    BY <2>1, <2>3 DEF OneMore, Is
  <2>5. StateInv'
    BY <1>0, <2>2 DEF StateInv
  <2>6. ChunkInv'
    BY <1>0, <2>1, <2>2, <2>3 DEF ChunkInv
  <2>7. \A g \in Name : One(g, Count(toWorker, "chunk", g) + Count(toClient, "ok", g))'
    BY <1>o, <2>2, <2>4 DEF One
  <2> QED BY <2>5, <2>6, <2>7
<1>4. CASE OnOk
  <2>1. PICK f \in Name :
           /\ Head(toClient)[1] = "ok" /\ Head(toClient)[2] = f
           /\ promise' = [promise EXCEPT ![f] = None]
           /\ promise[f] # None =>
                call' = [call EXCEPT ![promise[f]] =
                           [state |-> Acknowledged(promise[f]), file |-> f, next |-> call[promise[f]].next]]
           /\ UNCHANGED toWorker
    <3>1. Head(toClient)[2] \in Name
      BY <1>0, <1>4, ReceiveIs DEF OnOk
    <3> QED BY <1>0, <1>4, <3>1, OnOkIs
  <2>2. Receive("ok")
    BY <1>4 DEF OnOk
  <2>3. /\ Count(toClient, "ok", f) = Count(toClient', "ok", f) + 1
        /\ \A g : g # f => Count(toClient, "ok", g) = Count(toClient', "ok", g)
        /\ \A g : Count(toClient', "ok", g) \in Nat
    BY <1>0, <2>1, <2>2, ReceiveCounts
  <2>4. /\ promise[f] # None /\ Count(toWorker, "chunk", f) = 0 /\ Count(toClient', "ok", f) = 0
    <3>1. One(f, Count(toWorker, "chunk", f) + Count(toClient, "ok", f))
      BY <1>o
    <3>2. Count(toWorker, "chunk", f) + Count(toClient, "ok", f) # 0
      BY <1>n, <2>3
    <3>3. promise[f] # None /\ Count(toWorker, "chunk", f) + Count(toClient, "ok", f) = 1
      BY <3>1, <3>2 DEF One
    <3> QED BY <1>n, <2>3, <3>3
  <2> DEFINE w == promise[f]
  <2>5. w \in Writer /\ call[w].state = "sent" /\ call[w].file = f
    BY <1>t, <2>4
  <2>6. /\ call'[w].state = Acknowledged(w) /\ call'[w].next = call[w].next
        /\ \A v \in Writer \ {w} : call'[v] = call[v]
    BY <1>t, <2>1, <2>4, <2>5
  <2> HIDE DEF w
  <2>7. promise'[f] = None /\ \A g \in Name \ {f} : promise'[g] = promise[g] /\ promise[g] # w
    <3>1. w # None
      BY <2>4 DEF w
    <3> QED BY <1>t, <2>1, <2>5, <3>1
  <2>8. StateInv'
    <3>1. Parts[w] \in Nat /\ call[w].next \in Nat
      BY <1>t, <2>5 DEF TransferAssumption, Call
    <3>2. call'[w].state # "sent" /\ (call'[w].state = "ready" => call[w].next <= Parts[w] + 1)
      BY <2>6, <3>1 DEF Acknowledged
    <3> QED BY <1>0, <2>6, <3>2 DEF StateInv
  <2>9. ChunkInv'
    <3> SUFFICES ASSUME NEW i \in DOMAIN toWorker, toWorker[i][1] = "chunk"
                 PROVE  LET v == promise'[toWorker[i][2]]
                        IN  v # None /\ toWorker[i][3] = Chunk(v, call'[v].next - 1)
      BY <2>1 DEF ChunkInv
    <3> DEFINE g == toWorker[i][2]
    <3>1. g \in Name /\ g # f
      BY <1>w, <2>4
    <3>2. promise[g] # None /\ toWorker[i][3] = Chunk(promise[g], call[promise[g]].next - 1)
      BY <1>0 DEF ChunkInv
    <3>3. promise'[g] = promise[g] /\ promise[g] \in Writer \ {w}
      BY <1>t, <2>7, <3>1, <3>2
    <3> QED BY <2>6, <3>2, <3>3
  <2>10. ASSUME NEW g \in Name
         PROVE  One(g, Count(toWorker, "chunk", g) + Count(toClient, "ok", g))'
    <3>1. CASE g = f
      <4>1. Count(toWorker', "chunk", f) + Count(toClient', "ok", f) = 0
        BY <2>1, <2>4
      <4> QED BY <2>7, <3>1, <4>1 DEF One
    <3>2. CASE g # f
      BY <1>o, <2>1, <2>3, <2>7, <3>2 DEF One
    <3> QED BY <3>1, <3>2
  <2> QED BY <2>8, <2>9, <2>10
<1>5. CASE OnData \/ OnEnd \/ OnReady
  <2>1. PICK h \in {"data", "end", "ready"} : Receive(h)
    BY <1>5 DEF OnData, OnEnd, OnReady
  <2>2. UNCHANGED <<call, promise, toWorker>>
    BY <1>5 DEF OnData, OnEnd, OnReady
  <2>3. \A g : Count(toClient', "ok", g) = Count(toClient, "ok", g)
    BY <1>0, <2>1, ReceiveCounts
  <2>4. StateInv' /\ ChunkInv'
    BY <1>0, <2>2 DEF StateInv, ChunkInv
  <2>5. \A g \in Name : One(g, Count(toWorker, "chunk", g) + Count(toClient, "ok", g))'
    BY <1>o, <2>2, <2>3 DEF One
  <2> QED BY <2>4, <2>5
<1>6. CASE HandleChunk \/ HandleEnd
  <2> DEFINE f == Head(toWorker)[2]
  <2>1. Handle("chunk") /\ f \in Name
    BY <1>0, <1>6, HandleIs DEF HandleChunk, HandleEnd
  <2>2. UNCHANGED <<call, promise>>
        /\ \/ toClient' = Append(toClient, <<"ok", f>>)
           \/ f \in BadName /\ toClient' = toClient
    BY <1>6 DEF HandleChunk, HandleEnd, clientVars
  <2>3. /\ Count(toWorker, "chunk", f) = Count(toWorker', "chunk", f) + 1
        /\ \A g : g # f => Count(toWorker, "chunk", g) = Count(toWorker', "chunk", g)
        /\ \A g : Count(toWorker', "chunk", g) \in Nat
    BY <1>0, <2>1, HandleCounts
  <2> HIDE DEF f
  <2>4. /\ \A g : g # f => Count(toClient', "ok", g) = Count(toClient, "ok", g)
        /\ \/ Count(toClient', "ok", f) = Count(toClient, "ok", f) + 1
           \/ f \in BadName /\ Count(toClient', "ok", f) = Count(toClient, "ok", f)
    <3>1. CASE toClient' = Append(toClient, <<"ok", f>>)
      <4> DEFINE x == <<"ok", f>>
      <4>1. x \in ToClientMessage /\ x[1] = "ok" /\ x[2] = f
        BY <2>1, ClientMessages
      <4> HIDE DEF x
      <4>2. \A g : OneMore(toClient, x, toClient', "ok", g)
        BY <1>0, <3>1, <4>1, ToClientIs DEF x
      <4> QED BY <4>1, <4>2 DEF OneMore, Is
    <3>2. CASE f \in BadName /\ toClient' = toClient
      BY <3>2
    <3> QED BY <2>2, <3>1, <3>2
  <2>5. ChunkInv'
    <3>1. \A i \in DOMAIN toWorker' : \E j \in DOMAIN toWorker : toWorker'[i] = toWorker[j]
      BY <1>0, <2>1, HandleLeaves
    <3> QED BY <1>0, <2>2, <3>1 DEF ChunkInv
  <2>6. StateInv'
    BY <1>0, <2>2 DEF StateInv
  <2>7. ASSUME NEW g \in Name
        PROVE  One(g, Count(toWorker, "chunk", g) + Count(toClient, "ok", g))'
    <3>1. CASE g = f
      <4>1. /\ promise[f] # None /\ Count(toWorker, "chunk", f) + Count(toClient, "ok", f) = 1
        <5>1. Count(toWorker, "chunk", f) + Count(toClient, "ok", f) # 0
          BY <1>n, <2>3
        <5> QED BY <1>o, <2>1, <5>1 DEF One
      <4>2. \/ Count(toWorker', "chunk", f) + Count(toClient', "ok", f) = 1
            \/ f \in BadName /\ Count(toWorker', "chunk", f) + Count(toClient', "ok", f) = 0
        BY <1>n, <2>3, <2>4, <4>1
      <4> QED BY <2>2, <3>1, <4>1, <4>2 DEF One
    <3>2. CASE g # f
      BY <1>o, <2>2, <2>3, <2>4, <3>2 DEF One
    <3> QED BY <3>1, <3>2
  <2> QED BY <2>5, <2>6, <2>7
<1>7. CASE HandleGet \/ HandleRun
  <2>1. PICK h \in {"get", "run"} : Handle(h)
    BY <1>7 DEF HandleGet, HandleRun
  <2>2. UNCHANGED <<call, promise>>
    BY <1>7 DEF HandleGet, HandleRun, clientVars
  <2>3. \A g : Count(toWorker', "chunk", g) = Count(toWorker, "chunk", g)
    BY <1>0, <2>1, HandleCounts
  <2>4. \A g : Count(toClient', "ok", g) = Count(toClient, "ok", g)
    <3>1. CASE HandleRun
      <4> DEFINE x == <<"ready">>
      <4>1. x \in ToClientMessage /\ x[1] = "ready" /\ toClient' = Append(toClient, x)
        BY <3>1, ClientMessages DEF HandleRun
      <4> HIDE DEF x
      <4>2. \A g : OneMore(toClient, x, toClient', "ok", g)
        BY <1>0, <4>1, ToClientIs
      <4> QED BY <4>1, <4>2 DEF OneMore, Is
    <3>2. CASE HandleGet /\ disk[Head(toWorker)[2]] = Missing
      BY <3>2 DEF HandleGet
    <3>3. CASE HandleGet /\ disk[Head(toWorker)[2]] # Missing
      BY <1>0, <3>3, GetCounts
    <3> QED BY <1>7, <3>1, <3>2, <3>3
  <2>5. ChunkInv'
    <3>1. \A i \in DOMAIN toWorker' : \E j \in DOMAIN toWorker : toWorker'[i] = toWorker[j]
      BY <1>0, <2>1, HandleLeaves
    <3> QED BY <1>0, <2>2, <3>1 DEF ChunkInv
  <2>6. StateInv'
    BY <1>0, <2>2 DEF StateInv
  <2>7. \A g \in Name : One(g, Count(toWorker, "chunk", g) + Count(toClient, "ok", g))'
    BY <1>o, <2>2, <2>3, <2>4 DEF One
  <2> QED BY <2>5, <2>6, <2>7
<1>8. CASE UNCHANGED vars
  <2>1. UNCHANGED <<call, promise, toWorker, toClient>>
    BY <1>8 DEF vars, clientVars
  <2>2. StateInv' /\ ChunkInv'
    BY <1>0, <2>1 DEF StateInv, ChunkInv
  <2>3. \A g \in Name : One(g, Count(toWorker, "chunk", g) + Count(toClient, "ok", g))'
    BY <1>o, <2>1 DEF One
  <2> QED BY <2>2, <2>3
<1>9. CASE Next
  BY <1>0, <1>9, <1>1, <1>2, <1>3, <1>4, <1>5, <1>6, <1>7, NextIs DEF OnMessage, HandleMessage
<1> QED BY <1>8, <1>9

\* A promise of a name stands for one chunk.
THEOREM ChunksStaySingle == Spec => []OneChunkPerName
<1> USE TransferAssumption
<1>1. Init => MsgInv
  BY MsgInit
<1>2. MsgInv /\ [Next]_vars => MsgInv'
  BY MsgStep
<1>3. MsgInv => OneChunkPerName
  BY DEF MsgInv
<1> QED BY <1>1, <1>2, <1>3, PTL DEF Spec

----------------------------------------------------------------------------
(* Reads are snapshots.                                                      *)

\* A read of f with so many requests, parts and ends on their way: it has nothing
\* yet, or the content that it was sent, and what the file contains was seen.
ReadOf(f, g, d, e) ==
  /\ ~ reading[f] => g = 0 /\ d = 0 /\ e = 0
  /\ g + e <= 1 /\ d <= e
  /\ reading[f] => disk[f] \in seen[f]
  /\ reading[f] /\ (e = 0 \/ d = 1) => getParts[f] = <<>>
  /\ reading[f] /\ e = 1 /\ d = 0 => \E x \in seen[f] : getParts[f] = <<x>>

Reads ==
  \A f \in Name :
    ReadOf(f, Count(toWorker, "get", f), Count(toClient, "data", f), Count(toClient, "end", f))

\* A content is sent before its end, and was seen.
DataSeen ==
  \A i \in DOMAIN toClient : toClient[i][1] = "data" => toClient[i][3] \in seen[toClient[i][2]]
DataFirst ==
  \A i, j \in DOMAIN toClient :
    toClient[i][1] = "data" /\ toClient[j][1] = "end" /\ toClient[i][2] = toClient[j][2] => i < j

ReadInv == TypeInv /\ Reads /\ DataSeen /\ DataFirst

\* What none is in a queue counts as zero.
LEMMA CountNone ==
  ASSUME NEW S, NEW q \in Seq(S), NEW k, NEW f, \A i \in DOMAIN q : ~ (q[i][1] = k /\ q[i][2] = f)
  PROVE  Count(q, k, f) = 0
<1>1. {i \in DOMAIN q : q[i][1] = k /\ q[i][2] = f} = {}
  OBVIOUS
<1> QED BY <1>1, FS_EmptySet DEF Count

LEMMA ReadInit == TransferAssumption /\ Init => ReadInv
<1> SUFFICES ASSUME TransferAssumption, Init PROVE ReadInv
  OBVIOUS
<1>1. TypeInv
  BY InitTypes
<1>2. toWorker = <<>> /\ toClient = <<>> /\ \A f \in Name : reading[f] = FALSE
  BY DEF Init
<1>3. \A k, f : Count(toWorker, k, f) = 0 /\ Count(toClient, k, f) = 0
  BY <1>2, CountEmpty
<1>4. Reads
  BY <1>2, <1>3 DEF Reads, ReadOf
<1> QED BY <1>1, <1>2, <1>4 DEF ReadInv, DataSeen, DataFirst

\* A step that leaves the reads and their messages alone; a file may change.
Quiet(s) ==
  /\ UNCHANGED <<reading, getParts>>
  /\ \A f \in Name : Count(toWorker', "get", f) = Count(toWorker, "get", f)
  /\ \A f \in Name : /\ Count(toClient', "data", f) = Count(toClient, "data", f)
                     /\ Count(toClient', "end", f) = Count(toClient, "end", f)
  /\ \A f \in Name : seen[f] \subseteq seen'[f]
  /\ \A f \in Name : disk'[f] = disk[f] \/ disk'[f] \in seen'[f]
  /\ \A i \in DOMAIN toClient' :
       \/ i + s \in DOMAIN toClient /\ toClient'[i] = toClient[i + s]
       \/ toClient'[i][1] \notin {"data", "end"}

LEMMA QuietStep ==
  ASSUME ReadInv, TypeInv', NEW s \in Nat, Quiet(s)
  PROVE  Reads' /\ DataSeen' /\ DataFirst'
<1>1. Reads'
  BY DEF ReadInv, Reads, ReadOf, Quiet
<1>2. toClient \in Seq(ToClientMessage) /\ toClient' \in Seq(ToClientMessage)
  BY DEF ReadInv, TypeInv, RestType
<1>3. /\ \A i \in DOMAIN toClient : toClient[i] \in ToClientMessage
      /\ DOMAIN toClient' \subseteq Nat
  BY <1>2
<1>4. DataSeen'
  <2> SUFFICES ASSUME NEW i \in DOMAIN toClient', toClient'[i][1] = "data"
               PROVE  toClient'[i][3] \in seen'[toClient'[i][2]]
    BY DEF DataSeen
  <2>1. i + s \in DOMAIN toClient /\ toClient'[i] = toClient[i + s]
    BY DEF Quiet
  <2>2. toClient'[i][2] \in Name
    BY <1>3, <2>1, ClientMessages
  <2>3. toClient'[i][3] \in seen[toClient'[i][2]]
    BY <2>1 DEF ReadInv, DataSeen
  <2> QED BY <2>2, <2>3 DEF Quiet
<1>5. DataFirst'
  <2> SUFFICES ASSUME NEW i \in DOMAIN toClient', NEW j \in DOMAIN toClient',
                      toClient'[i][1] = "data", toClient'[j][1] = "end", toClient'[i][2] = toClient'[j][2]
               PROVE  i < j
    BY DEF DataFirst
  <2>1. /\ i + s \in DOMAIN toClient /\ toClient'[i] = toClient[i + s]
        /\ j + s \in DOMAIN toClient /\ toClient'[j] = toClient[j + s]
    BY DEF Quiet
  <2>2. i + s < j + s
    BY <2>1 DEF ReadInv, DataFirst
  <2> QED BY <1>3, <2>2
<1> QED BY <1>1, <1>4, <1>5

\* What is left of the queue to the client, and what is posted to it.
LEMMA ReceiveShifts ==
  ASSUME TypeOK, NEW h, Receive(h)
  PROVE  \A i \in DOMAIN toClient' : i + 1 \in DOMAIN toClient /\ toClient'[i] = toClient[i + 1]
<1>1. toClient # <<>> /\ toClient' = Tail(toClient) /\ toClient \in Seq(ToClientMessage)
  BY DEF Receive, TypeOK
<1> QED BY <1>1

LEMMA PostShifts ==
  ASSUME TypeOK, NEW x \in ToClientMessage, toClient' = Append(toClient, x)
  PROVE  \A i \in DOMAIN toClient' : \/ i + 0 \in DOMAIN toClient /\ toClient'[i] = toClient[i + 0]
                                     \/ toClient'[i] = x
<1>1. toClient \in Seq(ToClientMessage)
  BY DEF TypeOK
<1> QED BY <1>1

\* The steps that have nothing to do with reads.
LEMMA OthersAreQuiet ==
  ASSUME TransferAssumption, TypeInv,
         Sending \/ Reading \/ SendRun \/ OnOk \/ OnReady \/ HandleChunk \/ HandleEnd \/ HandleRun
  PROVE  \E s \in Nat : Quiet(s)
<1>0. TypeOK /\ EntryFiles /\ toClient \in Seq(ToClientMessage)
      /\ disk \in [Name -> File \cup {Missing}] /\ seen \in [Name -> SUBSET (File \cup {Missing})]
  BY TypesImplied DEF TypeInv, RestType
<1>s. \A i \in DOMAIN toClient : i + 0 = i
  BY <1>0
<1>1. CASE Sending
  <2>1. PICK w \in Writer, f \in Name, n \in Nat \ {0} :
           /\ Refused(w, f, n) \/ Sent(w, f, n)
           /\ UNCHANGED <<client, reading, getParts, toClient, files, disk, seen>>
    BY <1>1 DEF Sending
  <2>2. \A g \in Name : Count(toWorker', "get", g) = Count(toWorker, "get", g)
    <3>1. CASE Refused(w, f, n)
      BY <3>1 DEF Refused
    <3>2. CASE Sent(w, f, n)
      <4> DEFINE x == <<"chunk", f, Chunk(w, n)>>
      <4>1. toWorker' = Append(toWorker, x) /\ x \in ToWorkerMessage /\ x[1] = "chunk"
        BY <3>2, ChunkIs, WorkerMessages DEF Sent
      <4> HIDE DEF x
      <4>2. \A g : OneMore(toWorker, x, toWorker', "get", g)
        BY <1>0, <4>1, ToWorkerIs
      <4> QED BY <4>1, <4>2 DEF OneMore, Is
    <3> QED BY <2>1, <3>1, <3>2
  <2>3. Quiet(0)
    BY <1>s, <2>1, <2>2 DEF Quiet
  <2> QED BY <2>3
<1>2. CASE Reading
  <2>1. UNCHANGED <<reading, getParts, toWorker, toClient, disk, seen>>
    BY <1>2 DEF Reading
  <2>2. Quiet(0)
    BY <1>s, <2>1 DEF Quiet
  <2> QED BY <2>2
<1>3. CASE SendRun
  <2> DEFINE x == <<"run">>
  <2>1. toWorker' = Append(toWorker, x) /\ x \in ToWorkerMessage /\ x[1] = "run"
    BY <1>3, WorkerMessages DEF SendRun
  <2> HIDE DEF x
  <2>2. \A g : OneMore(toWorker, x, toWorker', "get", g)
    BY <1>0, <2>1, ToWorkerIs
  <2>3. \A g \in Name : Count(toWorker', "get", g) = Count(toWorker, "get", g)
    BY <2>1, <2>2 DEF OneMore, Is
  <2>4. Quiet(0)
    BY <1>3, <1>s, <2>3 DEF Quiet, SendRun
  <2> QED BY <2>4
<1>4. CASE OnOk \/ OnReady
  <2>1. PICK h \in {"ok", "ready"} : Receive(h)
    BY <1>4 DEF OnOk, OnReady
  <2>2. \A g : /\ Count(toClient', "data", g) = Count(toClient, "data", g)
               /\ Count(toClient', "end", g) = Count(toClient, "end", g)
    BY <1>0, <2>1, ReceiveCounts
  <2>3. UNCHANGED <<reading, getParts, toWorker, disk, seen>>
    BY <1>4 DEF OnOk, OnReady
  <2>4. Quiet(1)
    BY <1>0, <2>1, <2>2, <2>3, ReceiveShifts DEF Quiet
  <2> QED BY <2>4
<1>5. CASE HandleChunk \/ HandleEnd
  <2> DEFINE f == Head(toWorker)[2]
             x == <<"ok", f>>
  <2>1. Handle("chunk") /\ f \in Name
    BY <1>0, <1>5, HandleIs DEF HandleChunk, HandleEnd
  <2>2. \A g : Count(toWorker', "get", g) = Count(toWorker, "get", g)
    BY <1>0, <2>1, HandleCounts
  <2>3. x \in ToClientMessage /\ x[1] = "ok"
    BY <2>1, ClientMessages
  <2>4. /\ UNCHANGED <<reading, getParts>>
        /\ toClient' = Append(toClient, x) \/ toClient' = toClient
        /\ \/ UNCHANGED <<disk, seen>>
           \/ /\ disk' = [disk EXCEPT ![f] = files[f]]
              /\ seen' = [seen EXCEPT ![f] = seen[f] \cup {files[f]}]
    BY <1>5 DEF HandleChunk, HandleEnd, clientVars
  <2> HIDE DEF f, x
  <2>5. /\ \A g : /\ Count(toClient', "data", g) = Count(toClient, "data", g)
                  /\ Count(toClient', "end", g) = Count(toClient, "end", g)
        /\ \A i \in DOMAIN toClient' :
             \/ i + 0 \in DOMAIN toClient /\ toClient'[i] = toClient[i + 0]
             \/ toClient'[i][1] \notin {"data", "end"}
    <3>1. CASE toClient' = Append(toClient, x)
      <4>1. \A k, g : OneMore(toClient, x, toClient', k, g)
        BY <1>0, <2>3, <3>1, ToClientIs
      <4>2. \A g : /\ Count(toClient', "data", g) = Count(toClient, "data", g)
                   /\ Count(toClient', "end", g) = Count(toClient, "end", g)
        BY <2>3, <4>1 DEF OneMore, Is
      <4> QED BY <1>0, <2>3, <3>1, <4>2, PostShifts
    <3>2. CASE toClient' = toClient
      BY <1>s, <3>2
    <3> QED BY <2>4, <3>1, <3>2
  <2>6. \A g \in Name : seen[g] \subseteq seen'[g] /\ (disk'[g] = disk[g] \/ disk'[g] \in seen'[g])
    BY <1>0, <2>1, <2>4
  <2>7. Quiet(0)
    BY <2>2, <2>4, <2>5, <2>6 DEF Quiet
  <2> QED BY <2>7
<1>6. CASE HandleRun
  <2> DEFINE x == <<"ready">>
  <2>1. Handle("run") /\ toClient' = Append(toClient, x) /\ x \in ToClientMessage /\ x[1] = "ready"
    BY <1>6, ClientMessages DEF HandleRun
  <2> HIDE DEF x
  <2>2. \A g : Count(toWorker', "get", g) = Count(toWorker, "get", g)
    BY <1>0, <2>1, HandleCounts
  <2>3. \A k, g : OneMore(toClient, x, toClient', k, g)
    BY <1>0, <2>1, ToClientIs
  <2>4. \A g : /\ Count(toClient', "data", g) = Count(toClient, "data", g)
               /\ Count(toClient', "end", g) = Count(toClient, "end", g)
    BY <2>1, <2>3 DEF OneMore, Is
  <2>5. \A i \in DOMAIN toClient' :
             \/ i + 0 \in DOMAIN toClient /\ toClient'[i] = toClient[i + 0]
             \/ toClient'[i][1] \notin {"data", "end"}
    BY <1>0, <2>1, PostShifts
  <2>6. UNCHANGED <<reading, getParts, disk, seen>>
    BY <1>6 DEF HandleRun, clientVars
  <2>7. Quiet(0)
    BY <2>2, <2>4, <2>5, <2>6 DEF Quiet
  <2> QED BY <2>7
<1> QED BY <1>1, <1>2, <1>3, <1>4, <1>5, <1>6

\* Every step keeps the reads in order.
LEMMA ReadStep == TransferAssumption /\ ReadInv /\ [Next]_vars => ReadInv'
<1> SUFFICES ASSUME TransferAssumption, ReadInv, [Next]_vars PROVE ReadInv'
  OBVIOUS
<1>0. TypeOK /\ TypeInv /\ EntryFiles /\ Reads /\ DataSeen /\ DataFirst /\ TypeInv'
  BY TypesImplied, StepTypes DEF ReadInv, TypeInv
<1>t. /\ toClient \in Seq(ToClientMessage) /\ toWorker \in Seq(ToWorkerMessage)
      /\ reading \in [Name -> BOOLEAN] /\ getParts \in [Name -> Seq(File)]
      /\ disk \in [Name -> File \cup {Missing}] /\ seen \in [Name -> SUBSET (File \cup {Missing})]
      /\ DOMAIN toClient = 1 .. Len(toClient) /\ Len(toClient) \in Nat
      /\ \A i \in DOMAIN toClient : toClient[i] \in ToClientMessage
  BY <1>0 DEF TypeOK
<1>n. \A k, f : Count(toWorker, k, f) \in Nat /\ Count(toClient, k, f) \in Nat
  BY <1>t, CountType
<1>o. \A f \in Name :
        ReadOf(f, Count(toWorker, "get", f), Count(toClient, "data", f), Count(toClient, "end", f))
  BY <1>0 DEF Reads
<1>1. ASSUME NEW f \in Name, ReadFile(f) PROVE ReadInv'
  <2> DEFINE x == <<"get", f>>
  <2>1. toWorker' = Append(toWorker, x) /\ x \in ToWorkerMessage /\ x[1] = "get" /\ x[2] = f
    BY <1>1, WorkerMessages DEF ReadFile
  <2> HIDE DEF x
  <2>2. \A g : OneMore(toWorker, x, toWorker', "get", g)
    BY <1>0, <2>1, ToWorkerIs
  <2>3. /\ Count(toWorker', "get", f) = Count(toWorker, "get", f) + 1
        /\ \A g : g # f => Count(toWorker', "get", g) = Count(toWorker, "get", g)
    BY <2>1, <2>2 DEF OneMore, Is
  <2>4. /\ UNCHANGED <<toClient, disk>> /\ ~ reading[f]
        /\ reading'[f] = TRUE /\ getParts'[f] = <<>> /\ seen'[f] = {disk[f]}
        /\ \A g \in Name \ {f} : reading'[g] = reading[g] /\ getParts'[g] = getParts[g] /\ seen'[g] = seen[g]
    BY <1>t, <1>1 DEF ReadFile
  <2>5. Count(toWorker, "get", f) = 0 /\ Count(toClient, "data", f) = 0 /\ Count(toClient, "end", f) = 0
    BY <1>o, <2>4 DEF ReadOf
  <2>6. ASSUME NEW g \in Name
        PROVE  ReadOf(g, Count(toWorker, "get", g), Count(toClient, "data", g), Count(toClient, "end", g))'
    <3>1. CASE g = f
      <4>1. /\ Count(toWorker', "get", g) = 1 /\ Count(toClient', "data", g) = 0
            /\ Count(toClient', "end", g) = 0
        BY <2>3, <2>4, <2>5, <3>1
      <4> QED BY <2>4, <3>1, <4>1 DEF ReadOf
    <3>2. CASE g # f
      BY <1>o, <2>3, <2>4, <3>2 DEF ReadOf
    <3> QED BY <3>1, <3>2
  <2>7. Reads'
    BY <2>6 DEF Reads
  <2>8. DataSeen'
    <3> SUFFICES ASSUME NEW i \in DOMAIN toClient, toClient[i][1] = "data"
                 PROVE  toClient[i][3] \in seen'[toClient[i][2]]
      BY <2>4 DEF DataSeen
    <3>1. toClient[i][2] \in Name
      BY <1>t, ClientMessages
    <3>2. toClient[i][2] # f
      BY <1>t, <2>5, CountType
    <3> QED BY <1>0, <2>4, <3>1, <3>2 DEF DataSeen
  <2>9. DataFirst'
    BY <1>0, <2>4 DEF DataFirst
  <2> QED BY <1>0, <2>7, <2>8, <2>9 DEF ReadInv
<1>2. CASE OnData
  <2> DEFINE f == Head(toClient)[2]
             c == Head(toClient)[3]
  <2>1. /\ Receive("data") /\ f \in Name /\ toClient # <<>>
        /\ getParts' = [getParts EXCEPT ![f] = Append(getParts[f], c)]
        /\ UNCHANGED <<reading, toWorker, disk, seen>>
    BY <1>0, <1>2, ReceiveIs DEF OnData
  <2>2. 1 \in DOMAIN toClient /\ toClient[1] = Head(toClient) /\ Head(toClient)[1] = "data"
    BY <1>t, <2>1 DEF Receive
  <2>3. c \in seen[f]
    BY <1>0, <2>2 DEF DataSeen
  <2>4. /\ Count(toClient, "data", f) = Count(toClient', "data", f) + 1
        /\ \A g : g # f => Count(toClient, "data", g) = Count(toClient', "data", g)
        /\ \A g : Count(toClient, "end", g) = Count(toClient', "end", g)
        /\ \A k, g : Count(toClient', k, g) \in Nat
    BY <1>0, <2>1, ReceiveCounts
  <2>5. \A i \in DOMAIN toClient' : i + 1 \in DOMAIN toClient /\ toClient'[i] = toClient[i + 1]
    BY <1>0, <2>1, ReceiveShifts
  <2> HIDE DEF f, c
  <2>6. /\ Count(toClient, "data", f) = 1 /\ Count(toClient, "end", f) = 1
        /\ Count(toClient', "data", f) = 0 /\ Count(toClient', "end", f) = 1
        /\ Count(toWorker', "get", f) = 0
        /\ reading[f] = TRUE /\ getParts[f] = <<>> /\ disk[f] \in seen[f]
    <3>1. Count(toClient, "data", f) # 0
      BY <1>n, <2>4
    <3>2. ReadOf(f, Count(toWorker, "get", f), Count(toClient, "data", f), Count(toClient, "end", f))
      BY <1>o, <2>1
    <3>3. reading[f] = TRUE
      BY <1>t, <2>1, <3>1, <3>2 DEF ReadOf
    <3>4. Count(toClient, "data", f) = 1 /\ Count(toClient, "end", f) = 1 /\ Count(toWorker, "get", f) = 0
      BY <1>n, <3>1, <3>2 DEF ReadOf
    <3>5. Count(toClient', "data", f) = 0 /\ Count(toClient', "end", f) = 1
      BY <2>4, <3>4
    <3> QED BY <2>1, <3>2, <3>3, <3>4, <3>5 DEF ReadOf
  <2>7. getParts'[f] = <<c>> /\ \A g \in Name \ {f} : getParts'[g] = getParts[g]
    <3>1. getParts'[f] = Append(getParts[f], c)
      BY <1>t, <2>1
    <3> QED BY <1>t, <2>1, <2>6, <3>1
  <2>8. ASSUME NEW g \in Name
        PROVE  ReadOf(g, Count(toWorker, "get", g), Count(toClient, "data", g), Count(toClient, "end", g))'
    <3>1. CASE g = f
      BY <2>1, <2>3, <2>6, <2>7, <3>1 DEF ReadOf
    <3>2. CASE g # f
      BY <1>o, <2>1, <2>4, <2>7, <3>2 DEF ReadOf
    <3> QED BY <3>1, <3>2
  <2>9. Reads'
    BY <2>8 DEF Reads
  <2>10. DataSeen' /\ DataFirst'
    <3>1. DataSeen'
      BY <1>0, <2>1, <2>5 DEF DataSeen
    <3>2. DOMAIN toClient' \subseteq Nat
      BY <1>0 DEF TypeInv, RestType
    <3>3. \A i, j \in DOMAIN toClient' : i + 1 < j + 1 => i < j
      BY <3>2
    <3>4. DataFirst'
      BY <1>0, <2>5, <3>3 DEF DataFirst
    <3> QED BY <3>1, <3>4
  <2> QED BY <1>0, <2>9, <2>10 DEF ReadInv
<1>3. CASE OnEnd
  <2> DEFINE f == Head(toClient)[2]
  <2>1. /\ Receive("end") /\ f \in Name /\ toClient # <<>>
        /\ reading' = [reading EXCEPT ![f] = FALSE]
        /\ UNCHANGED <<getParts, toWorker, disk, seen>>
    BY <1>0, <1>3, ReceiveIs DEF OnEnd
  <2>2. 1 \in DOMAIN toClient /\ toClient[1] = Head(toClient) /\ Head(toClient)[1] = "end"
    BY <1>t, <2>1 DEF Receive
  <2>3. Count(toClient, "data", f) = 0
    <3>1. \A i \in DOMAIN toClient : ~ (i < 1)
      BY <1>t
    <3>2. \A i \in DOMAIN toClient : ~ (toClient[i][1] = "data" /\ toClient[i][2] = f)
      BY <1>0, <2>2, <3>1 DEF DataFirst
    <3> QED BY <1>t, <3>2, CountNone
  <2>4. /\ Count(toClient, "end", f) = Count(toClient', "end", f) + 1
        /\ \A g : g # f => Count(toClient, "end", g) = Count(toClient', "end", g)
        /\ \A g : Count(toClient, "data", g) = Count(toClient', "data", g)
        /\ \A k, g : Count(toClient', k, g) \in Nat
    BY <1>0, <2>1, ReceiveCounts
  <2>5. \A i \in DOMAIN toClient' : i + 1 \in DOMAIN toClient /\ toClient'[i] = toClient[i + 1]
    BY <1>0, <2>1, ReceiveShifts
  <2> HIDE DEF f
  <2>6. /\ Count(toClient', "data", f) = 0 /\ Count(toClient', "end", f) = 0
        /\ Count(toWorker', "get", f) = 0
    <3>1. ReadOf(f, Count(toWorker, "get", f), Count(toClient, "data", f), Count(toClient, "end", f))
      BY <1>o, <2>1
    <3>2. Count(toClient, "end", f) # 0
      BY <1>n, <2>4
    <3>3. Count(toClient, "end", f) = 1 /\ Count(toWorker, "get", f) = 0
      BY <1>n, <3>1, <3>2 DEF ReadOf
    <3> QED BY <2>1, <2>3, <2>4, <3>3
  <2>7. reading'[f] = FALSE /\ \A g \in Name \ {f} : reading'[g] = reading[g]
    BY <1>t, <2>1
  <2>8. ASSUME NEW g \in Name
        PROVE  ReadOf(g, Count(toWorker, "get", g), Count(toClient, "data", g), Count(toClient, "end", g))'
    <3>1. CASE g = f
      BY <2>6, <2>7, <3>1 DEF ReadOf
    <3>2. CASE g # f
      BY <1>o, <2>1, <2>4, <2>7, <3>2 DEF ReadOf
    <3> QED BY <3>1, <3>2
  <2>9. Reads'
    BY <2>8 DEF Reads
  <2>10. DataSeen' /\ DataFirst'
    <3>1. DataSeen'
      BY <1>0, <2>1, <2>5 DEF DataSeen
    <3>2. DOMAIN toClient' \subseteq Nat
      BY <1>0 DEF TypeInv, RestType
    <3>3. \A i, j \in DOMAIN toClient' : i + 1 < j + 1 => i < j
      BY <3>2
    <3>4. DataFirst'
      BY <1>0, <2>5, <3>3 DEF DataFirst
    <3> QED BY <3>1, <3>4
  <2> QED BY <1>0, <2>9, <2>10 DEF ReadInv
<1>4. CASE HandleGet
  <2> DEFINE f == Head(toWorker)[2]
  <2>1. /\ Handle("get") /\ f \in Name
        /\ UNCHANGED <<reading, getParts, disk, seen>>
    BY <1>0, <1>4, HandleIs DEF HandleGet, clientVars
  <2>2. /\ Count(toWorker, "get", f) = Count(toWorker', "get", f) + 1
        /\ \A g : g # f => Count(toWorker, "get", g) = Count(toWorker', "get", g)
        /\ \A g : Count(toWorker', "get", g) \in Nat
    BY <1>0, <2>1, HandleCounts
  <2>3. /\ reading[f] = TRUE /\ getParts[f] = <<>> /\ disk[f] \in seen[f]
        /\ Count(toWorker', "get", f) = 0
        /\ Count(toClient, "data", f) = 0 /\ Count(toClient, "end", f) = 0
    <3>1. Count(toWorker, "get", f) # 0
      BY <1>n, <2>2
    <3>2. ReadOf(f, Count(toWorker, "get", f), Count(toClient, "data", f), Count(toClient, "end", f))
      BY <1>o, <2>1
    <3>3. reading[f] = TRUE
      BY <1>t, <2>1, <3>1, <3>2 DEF ReadOf
    <3>4. Count(toWorker, "get", f) = 1 /\ Count(toClient, "data", f) = 0 /\ Count(toClient, "end", f) = 0
      BY <1>n, <3>1, <3>2 DEF ReadOf
    <3> QED BY <2>2, <3>2, <3>3, <3>4 DEF ReadOf
  <2>4. CASE disk[f] = Missing
    <3>1. toClient' = toClient
      BY <1>4, <2>4 DEF HandleGet
    <3>2. ASSUME NEW g \in Name
          PROVE  ReadOf(g, Count(toWorker, "get", g), Count(toClient, "data", g), Count(toClient, "end", g))'
      <4>1. CASE g = f
        BY <2>1, <2>3, <3>1, <4>1 DEF ReadOf
      <4>2. CASE g # f
        BY <1>o, <2>1, <2>2, <3>1, <4>2 DEF ReadOf
      <4> QED BY <4>1, <4>2
    <3>3. Reads'
      BY <3>2 DEF Reads
    <3>4. DataSeen' /\ DataFirst'
      BY <1>0, <2>1, <3>1 DEF DataSeen, DataFirst
    <3> QED BY <1>0, <3>3, <3>4 DEF ReadInv
  <2>5. CASE disk[f] # Missing
    <3> DEFINE a == <<"data", f, disk[f]>>
               b == <<"end", f>>
    <3>1. toClient' = toClient \o <<a, b>>
      BY <1>4, <2>5 DEF HandleGet
    <3>2. /\ a \in ToClientMessage /\ a[1] = "data" /\ a[2] = f /\ a[3] = disk[f]
          /\ b \in ToClientMessage /\ b[1] = "end" /\ b[2] = f
      <4>1. disk[f] \in File
        BY <1>t, <2>1, <2>5
      <4> QED BY <2>1, <4>1, ClientMessages
    <3>3. /\ Count(toClient', "data", f) = Count(toClient, "data", f) + 1
          /\ Count(toClient', "end", f) = Count(toClient, "end", f) + 1
          /\ \A g : g # f => /\ Count(toClient', "data", g) = Count(toClient, "data", g)
                             /\ Count(toClient', "end", g) = Count(toClient, "end", g)
      BY <1>0, <1>4, <2>5, GetCounts
    <3> HIDE DEF a, b, f
    <3>4. \A i \in DOMAIN toClient' :
            \/ i \in DOMAIN toClient /\ toClient'[i] = toClient[i]
            \/ i = Len(toClient) + 1 /\ toClient'[i] = a
            \/ i = Len(toClient) + 2 /\ toClient'[i] = b
      BY <1>t, <3>1
    <3>5. ASSUME NEW g \in Name
          PROVE  ReadOf(g, Count(toWorker, "get", g), Count(toClient, "data", g), Count(toClient, "end", g))'
      <4>1. CASE g = f
        <5>1. Count(toClient', "data", f) = 1 /\ Count(toClient', "end", f) = 1
          BY <2>3, <3>3
        <5> QED BY <2>1, <2>3, <4>1, <5>1 DEF ReadOf
      <4>2. CASE g # f
        BY <1>o, <2>1, <2>2, <3>3, <4>2 DEF ReadOf
      <4> QED BY <4>1, <4>2
    <3>6. Reads'
      BY <3>5 DEF Reads
    <3>7. DataSeen'
      BY <1>0, <2>1, <2>3, <3>2, <3>4 DEF DataSeen
    <3>8. DataFirst'
      <4> SUFFICES ASSUME NEW i \in DOMAIN toClient', NEW j \in DOMAIN toClient',
                          toClient'[i][1] = "data", toClient'[j][1] = "end", toClient'[i][2] = toClient'[j][2]
                   PROVE  i < j
        BY DEF DataFirst
      <4>1. CASE i \in DOMAIN toClient /\ toClient'[i] = toClient[i] /\ j \in DOMAIN toClient /\ toClient'[j] = toClient[j]
        BY <1>0, <4>1 DEF DataFirst
      <4>2. CASE j = Len(toClient) + 2
        <5>1. i # Len(toClient) + 2 \/ toClient'[i] = b
          BY <1>t, <3>4
        <5>2. i # Len(toClient) + 2
          BY <3>2, <5>1, <4>2, <1>t, <3>4
        <5> QED BY <1>t, <3>4, <4>2, <5>2
      <4>3. CASE i = Len(toClient) + 1 /\ j \in DOMAIN toClient /\ toClient'[j] = toClient[j]
        <5>1. toClient'[i] = a
          BY SMTT(30), <1>t, <3>4, <4>3
        <5>2. toClient[j][1] = "end" /\ toClient[j][2] = f
          BY <3>2, <4>3, <5>1
        <5>3. Count(toClient, "end", f) # 0
          BY <1>t, <4>3, <5>2, CountType
        <5> QED BY <2>3, <5>3
      <4>4. toClient'[j] # a /\ toClient'[i] # b
        BY <3>2
      <4> QED BY <3>4, <4>1, <4>2, <4>3, <4>4
    <3> QED BY <1>0, <3>6, <3>7, <3>8 DEF ReadInv
  <2> QED BY <2>4, <2>5
<1>5. CASE UNCHANGED vars
  BY <1>0, <1>5 DEF vars, clientVars, ReadInv, Reads, ReadOf, DataSeen, DataFirst
<1>6. CASE Sending \/ Reading \/ SendRun \/ OnOk \/ OnReady \/ HandleChunk \/ HandleEnd \/ HandleRun
  <2>1. PICK q \in Nat : Quiet(q)
    BY <1>0, <1>6, OthersAreQuiet
  <2>2. Reads' /\ DataSeen' /\ DataFirst'
    BY <1>0, <2>1, QuietStep
  <2> QED BY <1>0, <2>2 DEF ReadInv
<1>7. CASE Next
  BY <1>0, <1>7, <1>1, <1>2, <1>3, <1>4, <1>6, NextIs DEF OnMessage, HandleMessage
<1> QED BY <1>5, <1>7

\* The parts of a read that got one are that part.
LEMMA OnePart == ASSUME NEW x PROVE FlattenSeq(<<x>>) = x
<1> DEFINE s == <<x>>
<1>1. Len(s) = 1 /\ s[1] = x /\ 1 .. Len(s) = {1}
  OBVIOUS
<1> DEFINE flat[i \in 1 .. Len(s)] == IF i = 1 THEN s[i] ELSE flat[i - 1] \o s[i]
<1> DEFINE same == [i \in 1 .. Len(s) |-> x]
<1> HIDE DEF s
<1>2. same = [i \in 1 .. Len(s) |-> IF i = 1 THEN s[i] ELSE same[i - 1] \o s[i]]
  BY <1>1
<1> HIDE DEF same
<1>3. flat = [i \in 1 .. Len(s) |-> IF i = 1 THEN s[i] ELSE flat[i - 1] \o s[i]]
  BY <1>2
<1> HIDE DEF flat
<1>4. flat[1] = x
  BY <1>1, <1>3
<1>5. FlattenSeq(s) = flat[Len(s)]
  BY <1>1 DEF FlattenSeq, flat
<1> QED BY <1>1, <1>4, <1>5 DEF s

\* The end of a read meets the one content that was sent for it.
LEMMA ReadEnds ==
  ASSUME TransferAssumption, ReadInv, [Next]_vars, NEW f \in Name, reading[f], ~ reading'[f]
  PROVE  FlattenSeq(getParts[f]) \in seen[f]
<1>0. TypeOK /\ EntryFiles /\ Reads /\ DataFirst
  BY TypesImplied DEF ReadInv, TypeInv
<1>t. /\ toClient \in Seq(ToClientMessage) /\ reading \in [Name -> BOOLEAN]
      /\ DOMAIN toClient = 1 .. Len(toClient) /\ Len(toClient) \in Nat
  BY <1>0 DEF TypeOK
<1>1. OnEnd
  <2>1. CASE UNCHANGED vars
    BY <2>1 DEF vars, clientVars
  <2>2. ASSUME NEW g \in Name, ReadFile(g) PROVE FALSE
    BY <1>t, <2>2 DEF ReadFile
  <2>3. CASE Sending \/ Reading \/ SendRun \/ OnOk \/ OnData \/ OnReady \/ HandleMessage
    BY <2>3 DEF Sending, Reading, SendRun, OnOk, OnData, OnReady, HandleMessage, HandleChunk, HandleEnd,
                HandleGet, HandleRun, clientVars
  <2> QED BY <1>0, <2>1, <2>2, <2>3, NextIs DEF OnMessage
<1>2. /\ Receive("end") /\ toClient # <<>>
      /\ reading' = [reading EXCEPT ![Head(toClient)[2]] = FALSE]
  BY <1>1 DEF OnEnd, Receive
<1>3. Head(toClient)[2] = f
  BY <1>t, <1>2
<1>4. 1 \in DOMAIN toClient /\ toClient[1][1] = "end" /\ toClient[1][2] = f
  BY <1>t, <1>2, <1>3 DEF Receive
<1>5. Count(toClient, "data", f) = 0
  <2>1. \A i \in DOMAIN toClient : ~ (i < 1)
    BY <1>t
  <2>2. \A i \in DOMAIN toClient : ~ (toClient[i][1] = "data" /\ toClient[i][2] = f)
    BY <1>0, <1>4, <2>1 DEF DataFirst
  <2> QED BY <1>t, <2>2, CountNone
<1>6. Count(toClient, "end", f) # 0
  BY <1>t, <1>4, CountType
<1>7. ReadOf(f, Count(toWorker, "get", f), Count(toClient, "data", f), Count(toClient, "end", f))
  BY <1>0 DEF Reads
<1>8. Count(toWorker, "get", f) \in Nat /\ Count(toClient, "end", f) \in Nat
  BY <1>0, CountType DEF TypeOK
<1>9. Count(toClient, "end", f) = 1
  BY <1>6, <1>7, <1>8 DEF ReadOf
<1>10. PICK x \in seen[f] : getParts[f] = <<x>>
  BY <1>5, <1>7, <1>9 DEF ReadOf
<1> QED BY <1>10, OnePart

\* A read gives what the file contained at one moment of it, whatever is written
\* meanwhile and however often it was read before.
THEOREM ReadsGiveSnapshots == Spec => ReadsAreSnapshots
<1> USE TransferAssumption
<1>1. Init => ReadInv
  BY ReadInit
<1>2. ReadInv /\ [Next]_vars => ReadInv'
  BY ReadStep
<1>3. ReadInv /\ [Next]_vars =>
        [\A f \in Name : reading[f] /\ ~ reading'[f] => FlattenSeq(getParts[f]) \in seen[f]]_vars
  BY ReadEnds
<1> QED BY <1>1, <1>2, <1>3, PTL DEF Spec, ReadsAreSnapshots

----------------------------------------------------------------------------
(* Files are whole.                                                          *)

\* Some of a write of f was sent, and not all of it acknowledged.
Partial(v, f) ==
  /\ call[v].file = f
  /\ call[v].state \in {"ready", "sent", "failed"}
  /\ call[v].next > 1

Prefix(w, k) == [i \in 1 .. k |-> <<w, i>>]

\* The chunks of a write that the worker holds, when n of them are on their way.
Taken(w, n) == IF n # 0 THEN call[w].next - 2
               ELSE IF call[w].next - 1 <= Parts[w] THEN call[w].next - 1 ELSE 0

OneAtATime == \A f \in Name \ mixed : \A v, w \in Writer : Partial(v, f) /\ Partial(w, f) => v = w

FileOf(f, n) ==
  /\ \A w \in Writer : Partial(w, f) => files[f] = Prefix(w, Taken(w, n))
  /\ (\A w \in Writer : ~ Partial(w, f)) => files[f] = <<>>

FilesInv == \A f \in Name \ mixed : FileOf(f, Count(toWorker, "chunk", f))

DiskInv ==
  \A f \in Name \ mixed : disk[f] # Missing =>
    \E w \in Writer : call[w].state # "idle" /\ call[w].file = f /\ disk[f] = Contents(w)

DoneInv ==
  /\ \A i \in Entry : call[i].state = "done" => disk[Upload[i]] # Missing
  /\ client # "uploading" => \A i \in Entry : call[i].state = "done"

\* The last chunk is acknowledged when the file is there.
Acked(f, n) ==
  n # 0 /\ promise[f] # None /\ call[promise[f]].next > Parts[promise[f]] + 1 => disk[f] # Missing
OkInv == \A f \in Name : Acked(f, Count(toClient, "ok", f))

RunInv ==
  /\ \A i \in DOMAIN toWorker : toWorker[i][1] = "run" => client # "uploading"
  /\ \A i \in DOMAIN toClient : toClient[i][1] = "ready" => client # "uploading"

WholeParts == OneAtATime /\ FilesInv /\ DiskInv /\ DoneInv /\ OkInv
WholeInv == MsgInv /\ WholeParts /\ RunInv

LEMMA WholeImplied == TransferAssumption /\ WholeInv => WholeFiles
<1> SUFFICES ASSUME TransferAssumption, WholeInv PROVE WholeFiles
  OBVIOUS
<1>1. DiskInv /\ DoneInv
  BY DEF WholeInv, WholeParts
<1> QED BY <1>1 DEF WholeFiles, DiskInv, DoneInv

LEMMA WholeInit == TransferAssumption /\ Init => WholeInv
<1> SUFFICES ASSUME TransferAssumption, Init PROVE WholeInv
  OBVIOUS
<1>1. /\ toWorker = <<>> /\ toClient = <<>> /\ client = "uploading"
      /\ \A f \in Name : files[f] = <<>> /\ disk[f] = Missing /\ promise[f] = None
      /\ \A w \in Writer : call[w].state = "idle"
  BY DEF Init
<1>2. Entry \subseteq Writer
  BY UploadIs
<1>3. \A w \in Writer : \A f : ~ Partial(w, f)
  BY <1>1 DEF Partial
<1>4. OneAtATime /\ FilesInv
  BY <1>1, <1>3 DEF OneAtATime, FilesInv, FileOf
<1>5. DiskInv /\ DoneInv /\ OkInv /\ RunInv
  BY <1>1, <1>2 DEF DiskInv, DoneInv, OkInv, Acked, RunInv
<1>6. MsgInv
  BY MsgInit
<1> QED BY <1>4, <1>5, <1>6 DEF WholeInv, WholeParts

\* The machine is started after the upload.
LEMMA RunStep ==
  ASSUME TransferAssumption, TypeInv, RunInv, [Next]_vars
  PROVE  RunInv'
<1>0. TypeOK /\ EntryFiles /\ toWorker \in Seq(ToWorkerMessage) /\ toClient \in Seq(ToClientMessage)
  BY TypesImplied DEF TypeInv, RestType
<1>1. \/ UNCHANGED toWorker
      \/ \E x \in ToWorkerMessage :
           toWorker' = Append(toWorker, x) /\ (x[1] # "run" \/ client' # "uploading")
      \/ \E h : Handle(h)
  <2>1. CASE Sending
    <3>1. PICK w \in Writer, f \in Name, n \in Nat \ {0} : Refused(w, f, n) \/ Sent(w, f, n)
      BY <2>1 DEF Sending
    <3> DEFINE x == <<"chunk", f, Chunk(w, n)>>
    <3>2. x \in ToWorkerMessage /\ x[1] = "chunk"
      BY ChunkIs, WorkerMessages
    <3>3. toWorker' = toWorker \/ toWorker' = Append(toWorker, x)
      BY <3>1 DEF Refused, Sent
    <3> HIDE DEF x
    <3> QED BY <3>2, <3>3
  <2>2. ASSUME NEW f \in Name, ReadFile(f)
        PROVE  \E x \in ToWorkerMessage : toWorker' = Append(toWorker, x) /\ x[1] # "run"
    <3>1. <<"get", f>> \in ToWorkerMessage /\ <<"get", f>>[1] = "get" /\ toWorker' = Append(toWorker, <<"get", f>>)
      BY <2>2, WorkerMessages DEF ReadFile
    <3> QED BY <3>1
  <2>3. CASE SendRun
    <3>1. toWorker' = Append(toWorker, <<"run">>) /\ client' = "starting" /\ <<"run">> \in ToWorkerMessage
      BY <2>3, WorkerMessages DEF SendRun
    <3> QED BY <3>1
  <2>4. CASE Reading \/ OnMessage \/ UNCHANGED vars
    BY <2>4 DEF Reading, OnMessage, OnOk, OnData, OnEnd, OnReady, vars
  <2>5. CASE HandleMessage
    BY <2>5 DEF HandleMessage, HandleChunk, HandleEnd, HandleGet, HandleRun
  <2> QED BY <1>0, <2>1, <2>2, <2>3, <2>4, <2>5, NextIs
<1>2. client # "uploading" => client' # "uploading"
  <2>1. CASE Sending \/ Reading
    BY <2>1 DEF Sending, Reading
  <2>2. ASSUME NEW f \in Name, ReadFile(f) PROVE client' = client
    BY <2>2 DEF ReadFile
  <2>3. CASE SendRun \/ OnMessage \/ HandleMessage \/ UNCHANGED vars
    BY <2>3 DEF SendRun, OnMessage, OnOk, OnData, OnEnd, OnReady, HandleMessage, HandleChunk, HandleEnd,
                HandleGet, HandleRun, vars, clientVars
  <2> QED BY <1>0, <2>1, <2>2, <2>3, NextIs
<1>3. \A i \in DOMAIN toWorker' : toWorker'[i][1] = "run" => client' # "uploading"
  <2>1. CASE UNCHANGED toWorker
    BY <1>2, <2>1 DEF RunInv
  <2>2. ASSUME NEW x \in ToWorkerMessage, toWorker' = Append(toWorker, x), x[1] # "run" \/ client' # "uploading"
        PROVE  \A i \in DOMAIN toWorker' : toWorker'[i][1] = "run" => client' # "uploading"
    <3>1. \A i \in DOMAIN toWorker' : \/ i \in DOMAIN toWorker /\ toWorker'[i] = toWorker[i]
                                      \/ toWorker'[i] = x
      BY <1>0, <2>2, ToWorkerIs
    <3> QED BY <1>2, <2>2, <3>1 DEF RunInv
  <2>3. ASSUME NEW h, Handle(h)
        PROVE  \A i \in DOMAIN toWorker' : toWorker'[i][1] = "run" => client' # "uploading"
    BY <1>0, <1>2, <2>3, HandleLeaves DEF RunInv
  <2> QED BY <1>1, <2>1, <2>2, <2>3
<1>4. \/ UNCHANGED toClient
      \/ \E x \in ToClientMessage :
           toClient' = Append(toClient, x) /\ (x[1] # "ready" \/ client' # "uploading")
      \/ \E h : Receive(h)
      \/ HandleGet /\ disk[Head(toWorker)[2]] # Missing
  <2>1. CASE Sending \/ Reading \/ SendRun \/ UNCHANGED vars
    BY <2>1 DEF Sending, Reading, SendRun, vars
  <2>2. ASSUME NEW f \in Name, ReadFile(f) PROVE UNCHANGED toClient
    BY <2>2 DEF ReadFile
  <2>3. CASE OnMessage
    BY <2>3 DEF OnMessage, OnOk, OnData, OnEnd, OnReady
  <2>4. CASE HandleChunk \/ HandleEnd
    <3> DEFINE f == Head(toWorker)[2]
               x == <<"ok", f>>
    <3>1. f \in Name
      BY <1>0, <2>4, HandleIs DEF HandleChunk, HandleEnd
    <3>2. x \in ToClientMessage /\ x[1] = "ok"
      BY <3>1, ClientMessages
    <3>3. toClient' = toClient \/ toClient' = Append(toClient, x)
      BY <2>4 DEF HandleChunk, HandleEnd
    <3> HIDE DEF x
    <3> QED BY <3>2, <3>3
  <2>5. CASE HandleGet
    BY <2>5 DEF HandleGet
  <2>6. CASE HandleRun
    <3>1. toWorker # <<>> /\ Head(toWorker)[1] = "run" /\ client' = client
      BY <2>6 DEF HandleRun, Handle, clientVars
    <3>2. 1 \in DOMAIN toWorker /\ toWorker[1] = Head(toWorker)
      BY <1>0, <3>1
    <3>3. client' # "uploading"
      BY <3>1, <3>2 DEF RunInv
    <3>4. toClient' = Append(toClient, <<"ready">>) /\ <<"ready">> \in ToClientMessage
      BY <2>6, ClientMessages DEF HandleRun
    <3> QED BY <3>3, <3>4
  <2> QED BY <1>0, <2>1, <2>2, <2>3, <2>4, <2>5, <2>6, NextIs DEF HandleMessage
<1>5. \A i \in DOMAIN toClient' : toClient'[i][1] = "ready" => client' # "uploading"
  <2>1. CASE UNCHANGED toClient
    BY <1>2, <2>1 DEF RunInv
  <2>2. ASSUME NEW x \in ToClientMessage, toClient' = Append(toClient, x), x[1] # "ready" \/ client' # "uploading"
        PROVE  \A i \in DOMAIN toClient' : toClient'[i][1] = "ready" => client' # "uploading"
    <3>1. \A i \in DOMAIN toClient' : \/ i \in DOMAIN toClient /\ toClient'[i] = toClient[i]
                                      \/ toClient'[i] = x
      BY <1>0, <2>2
    <3> QED BY <1>2, <2>2, <3>1 DEF RunInv
  <2>3. ASSUME NEW h, Receive(h)
        PROVE  \A i \in DOMAIN toClient' : toClient'[i][1] = "ready" => client' # "uploading"
    BY <1>0, <1>2, <2>3, ReceiveShifts DEF RunInv
  <2>4. CASE HandleGet /\ disk[Head(toWorker)[2]] # Missing
    <3> DEFINE a == <<"data", Head(toWorker)[2], disk[Head(toWorker)[2]]>>
               b == <<"end", Head(toWorker)[2]>>
    <3>1. toClient' = toClient \o <<a, b>> /\ a[1] = "data" /\ b[1] = "end"
      BY <2>4 DEF HandleGet
    <3> HIDE DEF a, b
    <3>2. \A i \in DOMAIN toClient' : \/ i \in DOMAIN toClient /\ toClient'[i] = toClient[i]
                                      \/ toClient'[i] = a
                                      \/ toClient'[i] = b
      BY <1>0, <3>1
    <3> QED BY <1>2, <3>1, <3>2 DEF RunInv
  <2> QED BY <1>4, <2>1, <2>2, <2>3, <2>4
<1> QED BY <1>3, <1>5 DEF RunInv

\* Steps that leave the writes, the files and their messages alone.
LEMMA StillWhole ==
  ASSUME WholeParts, UNCHANGED <<call, promise, files, disk, mixed>>,
         \A f \in Name : Count(toWorker', "chunk", f) = Count(toWorker, "chunk", f),
         \A f \in Name : Count(toClient', "ok", f) = Count(toClient, "ok", f),
         client' # "uploading" => client # "uploading" \/ \A i \in Entry : call[i].state = "done"
  PROVE  WholeParts'
<1>1. \A v, f : Partial(v, f)' <=> Partial(v, f)
  BY DEF Partial
<1>2. \A v, n : Taken(v, n)' = Taken(v, n)
  BY DEF Taken
<1>3. OneAtATime'
  BY <1>1 DEF WholeParts, OneAtATime
<1>4. FilesInv'
  BY <1>1, <1>2 DEF WholeParts, FilesInv, FileOf
<1>5. DiskInv' /\ DoneInv' /\ OkInv'
  BY DEF WholeParts, DiskInv, DoneInv, OkInv, Acked
<1> QED BY <1>3, <1>4, <1>5 DEF WholeParts

\* A write keeps its file, and is not done but by its last acknowledgement.
Goes(w) ==
  /\ \A v \in Writer \ {w} : call'[v] = call[v]
  /\ call[w].state # "done" /\ call'[w].state # "idle"
  /\ call[w].state # "idle" => call'[w].file = call[w].file

\* Files that do not change still come from one write.
LEMMA DiskStep ==
  ASSUME WholeParts, NEW w \in Writer, Goes(w), mixed \subseteq mixed', UNCHANGED disk
  PROVE  DiskInv'
<1> SUFFICES ASSUME NEW f \in Name \ mixed', disk[f] # Missing
             PROVE  \E v \in Writer : call'[v].state # "idle" /\ call'[v].file = f /\ disk[f] = Contents(v)
  BY DEF DiskInv
<1>1. PICK v \in Writer : call[v].state # "idle" /\ call[v].file = f /\ disk[f] = Contents(v)
  BY DEF WholeParts, DiskInv
<1>2. call'[v].state # "idle" /\ call'[v].file = f
  BY <1>1 DEF Goes
<1> QED BY <1>1, <1>2

\* A write that is not done does not change what is known of those that are.
LEMMA DoneStep ==
  ASSUME TransferAssumption, WholeParts, NEW w \in Writer, Goes(w), call'[w].state # "done",
         UNCHANGED <<disk, client>>
  PROVE  DoneInv'
<1>1. Entry \subseteq Writer
  BY UploadIs
<1>2. \A i \in Entry : call'[i].state = "done" => call[i].state = "done"
  BY <1>1 DEF Goes
<1>3. client # "uploading" => \A i \in Entry : call'[i].state = "done"
  BY <1>1 DEF Goes, WholeParts, DoneInv
<1> QED BY <1>2, <1>3 DEF WholeParts, DoneInv

LEMMA WholeSending ==
  ASSUME TransferAssumption, WholeInv, TypeInv', Sending
  PROVE  WholeParts'
<1>0. /\ TypeOK /\ TypeInv /\ CallType /\ StateInv /\ OneChunkPerName
      /\ OneAtATime /\ FilesInv /\ DiskInv /\ DoneInv /\ OkInv /\ WholeParts
  BY TypesImplied DEF WholeInv, WholeParts, MsgInv, TypeInv
<1>t. call \in [Writer -> Call] /\ promise \in [Name -> Writer \cup {None}] /\ mixed \subseteq Name
      /\ toWorker \in Seq(ToWorkerMessage) /\ toClient \in Seq(ToClientMessage)
  BY <1>0 DEF CallType, TypeInv, RestType
<1>n. \A k, f : Count(toWorker, k, f) \in Nat /\ Count(toClient, k, f) \in Nat
  BY <1>t, CountType
<1>1. PICK w \in Writer, f \in Name, n \in Nat \ {0} :
           /\ Sends(w, f, n)
           /\ Refused(w, f, n) \/ Sent(w, f, n)
           /\ UNCHANGED <<client, reading, getParts, toClient, files, disk, seen>>
           /\ n <= Parts[w] + 1 /\ Parts[w] \in Nat
           /\ call[w].state # "sent" /\ w # None /\ \A g \in Name : promise[g] # w
           /\ \A v \in Writer \ {w} : call'[v] = call[v]
           /\ call'[w].state \in {"failed", "sent"} /\ call'[w].file = f
  BY <1>0, SendingIs
<1>2. Goes(w)
  BY <1>1 DEF Goes, Sends
<1>3. call[w].next \in Nat /\ (n > 1 => Partial(w, f) /\ call[w].next = n)
      /\ (n = 1 => \A g : ~ Partial(w, g))
      /\ \A g : Partial(w, g) => g = f
  BY <1>1, <1>t DEF Sends, Partial, Call
<1>4. \A g : \A v \in Writer \ {w} : Partial(v, g)' <=> Partial(v, g)
  BY <1>1 DEF Partial
<1>5. mixed \subseteq mixed'
  BY <1>1 DEF Refused, Sent
<1>6. DiskInv'
  BY <1>0, <1>1, <1>2, <1>5, DiskStep
<1>7. DoneInv'
  BY <1>0, <1>1, <1>2, DoneStep
<1>8. CASE Refused(w, f, n)
  <2>1. UNCHANGED <<promise, toWorker, mixed>> /\ call'[w].next = n
    BY <1>t, <1>8 DEF Refused
  <2>2. \A g : Partial(w, g)' <=> Partial(w, g)
    <3>1. \A g : Partial(w, g)' <=> (g = f /\ n > 1)
      BY <1>1, <1>8, <1>t, <2>1 DEF Partial, Refused
    <3> QED BY <1>3, <3>1
  <2>3. \A g : \A v \in Writer : Partial(v, g)' <=> Partial(v, g)
    BY <1>4, <2>2
  <2>4. \A g : \A v \in Writer : Partial(v, g) => call'[v].next = call[v].next
    BY <1>1, <1>3, <2>1
  <2>5. \A g, k : \A v \in Writer : Partial(v, g) => Taken(v, k)' = Taken(v, k)
    BY <2>4 DEF Taken
  <2>6. OneAtATime'
    BY <1>0, <2>1, <2>3 DEF OneAtATime
  <2>7. FilesInv'
    BY <1>0, <1>1, <2>1, <2>3, <2>5 DEF FilesInv, FileOf
  <2>8. OkInv'
    <3>1. \A g \in Name : promise[g] # None => promise[g] \in Writer \ {w}
      BY <1>1, <1>t
    <3> QED BY <1>0, <1>1, <2>1, <3>1 DEF OkInv, Acked
  <2> QED BY <1>6, <1>7, <2>6, <2>7, <2>8 DEF WholeParts
<1>9. CASE Sent(w, f, n)
  <2> DEFINE x == <<"chunk", f, Chunk(w, n)>>
  <2>1. /\ promise[f] = None /\ toWorker' = Append(toWorker, x)
        /\ promise'[f] = w /\ \A g \in Name \ {f} : promise'[g] = promise[g]
        /\ call'[w].state = "sent" /\ call'[w].next = n + 1
        /\ mixed' = IF Unfinished(w, f) THEN mixed \cup {f} ELSE mixed
    BY <1>t, <1>9 DEF Sent
  <2>2. x \in ToWorkerMessage /\ x[1] = "chunk" /\ x[2] = f
    BY ChunkIs, WorkerMessages
  <2> HIDE DEF x
  <2>3. \A g : OneMore(toWorker, x, toWorker', "chunk", g)
    BY <1>0, <2>1, <2>2, ToWorkerIs
  <2>4. /\ Count(toWorker, "chunk", f) = 0 /\ Count(toClient, "ok", f) = 0
        /\ Count(toWorker', "chunk", f) = 1
        /\ \A g : g # f => Count(toWorker', "chunk", g) = Count(toWorker, "chunk", g)
    <3>1. One(f, Count(toWorker, "chunk", f) + Count(toClient, "ok", f))
      BY <1>0, OneIs
    <3>2. Count(toWorker, "chunk", f) + Count(toClient, "ok", f) = 0
      BY <2>1, <3>1 DEF One
    <3>3. Count(toWorker, "chunk", f) = 0 /\ Count(toClient, "ok", f) = 0
      BY <1>n, <3>2
    <3> QED BY <2>2, <2>3, <3>3 DEF OneMore, Is
  <2>5. \A g : Partial(w, g)' <=> g = f
    BY <1>1, <2>1 DEF Partial
  <2>6. f \notin mixed' => \A v \in Writer \ {w} : ~ Partial(v, f)
    BY <2>1 DEF Unfinished, Partial
  <2>7. OneAtATime'
    <3> SUFFICES ASSUME NEW g \in Name \ mixed', NEW u \in Writer, NEW v \in Writer,
                        Partial(u, g)', Partial(v, g)'
                 PROVE  u = v
      BY DEF OneAtATime
    <3>1. CASE g = f
      BY <1>4, <2>6, <3>1
    <3>2. CASE g # f
      BY <1>0, <1>4, <1>5, <2>5, <3>2 DEF OneAtATime
    <3> QED BY <3>1, <3>2
  <2>8. ASSUME NEW g \in Name \ mixed'
        PROVE  FileOf(g, Count(toWorker, "chunk", g))'
    <3>1. CASE g = f
      <4>1. f \in Name \ mixed /\ \A v \in Writer \ {w} : ~ Partial(v, f)
        BY <1>5, <2>6, <3>1
      <4>2. files[f] = Prefix(w, n - 1)
        <5>1. FileOf(f, 0)
          BY <1>0, <2>4, <4>1 DEF FilesInv
        <5>2. CASE n = 1
          <6>1. files[f] = <<>>
            BY <1>3, <4>1, <5>1, <5>2 DEF FileOf
          <6>2. Prefix(w, n - 1) = <<>>
            BY <5>2 DEF Prefix
          <6> QED BY <6>1, <6>2
        <5>3. CASE n > 1
          <6>1. Taken(w, 0) = n - 1
            BY <1>1, <1>3, <5>3 DEF Taken
          <6> QED BY <1>3, <5>1, <5>3, <6>1 DEF FileOf
        <5> QED BY <5>2, <5>3
      <4>3. Taken(w, 1)' = n - 1
        BY <2>1 DEF Taken
      <4>4. \A v \in Writer : Partial(v, f)' <=> v = w
        BY <1>4, <2>5, <4>1
      <4>5. /\ \A v \in Writer : Partial(v, f)' => files'[f] = Prefix(v, Taken(v, 1)')
            /\ ~ \A v \in Writer : ~ Partial(v, f)'
        BY <1>1, <4>2, <4>3, <4>4
      <4>6. FileOf(f, 1)'
        BY <4>5 DEF FileOf, Prefix
      <4> QED BY <2>4, <3>1, <4>6 DEF FileOf
    <3>2. CASE g # f
      <4>1. FileOf(g, Count(toWorker, "chunk", g)) /\ g \in Name \ mixed
        BY <1>0, <1>5 DEF FilesInv
      <4>2. \A v \in Writer : /\ Partial(v, g)' <=> Partial(v, g)
                              /\ Partial(v, g) => v # w
        BY <1>3, <1>4, <2>5, <3>2
      <4>3. \A v \in Writer \ {w} : \A k : Taken(v, k)' = Taken(v, k)
        BY <1>1 DEF Taken
      <4> QED BY <1>1, <2>4, <3>2, <4>1, <4>2, <4>3 DEF FileOf
    <3> QED BY <3>1, <3>2
  <2>9. FilesInv'
    BY <2>8 DEF FilesInv
  <2>10. OkInv'
    <3> SUFFICES ASSUME NEW g \in Name PROVE Acked(g, Count(toClient, "ok", g))'
      BY DEF OkInv
    <3>1. CASE g = f
      BY <1>1, <2>4, <3>1 DEF Acked
    <3>2. CASE g # f
      <4>1. promise'[g] = promise[g] /\ (promise[g] # None => promise[g] \in Writer \ {w})
        BY <1>1, <1>t, <2>1, <3>2
      <4> QED BY <1>0, <1>1, <4>1 DEF OkInv, Acked
    <3> QED BY <3>1, <3>2
  <2> QED BY <1>6, <1>7, <2>7, <2>9, <2>10 DEF WholeParts
<1> QED BY <1>1, <1>8, <1>9

LEMMA WholeReading ==
  ASSUME TransferAssumption, WholeInv, Reading
  PROVE  WholeParts'
<1>0. /\ TypeInv /\ CallType
      /\ OneAtATime /\ FilesInv /\ DiskInv /\ DoneInv /\ OkInv /\ WholeParts
  BY DEF WholeInv, WholeParts, MsgInv, TypeInv
<1>t. call \in [Writer -> Call] /\ promise \in [Name -> Writer \cup {None}]
  BY <1>0 DEF CallType
<1>1. PICK w \in Write :
           /\ w \in Writer /\ w \notin Entry
           /\ call[w].state \in {"idle", "ready"} /\ w # None /\ \A g \in Name : promise[g] # w
           /\ \A v \in Writer \ {w} : call'[v] = call[v]
           /\ \/ call[w].state = "idle" /\ call'[w].state = "ready" /\ call'[w].next = 1
              \/ /\ call[w].state = "ready" /\ call'[w].state = "failed"
                 /\ call'[w].file = call[w].file /\ call'[w].next = call[w].next
           /\ UNCHANGED <<client, promise, reading, getParts, toWorker, toClient, files, disk, mixed, seen>>
  BY <1>0, ReadingIs
<1>2. Goes(w) /\ call'[w].state # "done"
  BY <1>1 DEF Goes
<1>3. \A g : \A v \in Writer : Partial(v, g)' <=> Partial(v, g)
  BY <1>1 DEF Partial
<1>4. \A g, k : \A v \in Writer : Partial(v, g) => Taken(v, k)' = Taken(v, k)
  BY <1>1 DEF Partial, Taken
<1>5. OneAtATime' /\ FilesInv'
  BY <1>0, <1>1, <1>3, <1>4 DEF OneAtATime, FilesInv, FileOf
<1>6. DiskInv' /\ DoneInv'
  BY <1>0, <1>1, <1>2, DiskStep, DoneStep
<1>7. OkInv'
  <2>1. \A g \in Name : promise[g] # None => promise[g] \in Writer \ {w}
    BY <1>1, <1>t
  <2> QED BY <1>0, <1>1, <2>1 DEF OkInv, Acked
<1> QED BY <1>5, <1>6, <1>7 DEF WholeParts

LEMMA WholeOk ==
  ASSUME TransferAssumption, WholeInv, OnOk
  PROVE  WholeParts'
<1>0. /\ TypeOK /\ TypeInv /\ CallType /\ EntryFiles /\ StateInv /\ OneChunkPerName
      /\ OneAtATime /\ FilesInv /\ DiskInv /\ DoneInv /\ OkInv /\ WholeParts
  BY TypesImplied DEF WholeInv, WholeParts, MsgInv, TypeInv
<1>t. call \in [Writer -> Call] /\ promise \in [Name -> Writer \cup {None}]
      /\ toWorker \in Seq(ToWorkerMessage) /\ toClient \in Seq(ToClientMessage)
  BY <1>0 DEF CallType, TypeInv, RestType
<1>n. \A k, f : Count(toWorker, k, f) \in Nat /\ Count(toClient, k, f) \in Nat
  BY <1>t, CountType
<1>1. PICK f \in Name :
           /\ Head(toClient)[1] = "ok" /\ Head(toClient)[2] = f
           /\ promise' = [promise EXCEPT ![f] = None]
           /\ promise[f] # None =>
                /\ promise[f] \in Writer /\ call[promise[f]].state = "sent" /\ call[promise[f]].file = f
                /\ call' = [call EXCEPT ![promise[f]] =
                              [state |-> Acknowledged(promise[f]), file |-> f, next |-> call[promise[f]].next]]
           /\ UNCHANGED <<client, toWorker, files, disk, mixed>>
  BY <1>0, OnOkIs
<1>2. Receive("ok")
  BY DEF OnOk
<1>3. /\ Count(toClient, "ok", f) = Count(toClient', "ok", f) + 1
      /\ \A g : g # f => Count(toClient, "ok", g) = Count(toClient', "ok", g)
      /\ \A g : Count(toClient', "ok", g) \in Nat
  BY <1>0, <1>1, <1>2, ReceiveCounts
<1>4. promise[f] # None /\ Count(toWorker, "chunk", f) = 0 /\ Count(toClient, "ok", f) # 0
  <2>1. One(f, Count(toWorker, "chunk", f) + Count(toClient, "ok", f))
    BY <1>0, OneIs
  <2>2. Count(toWorker, "chunk", f) + Count(toClient, "ok", f) # 0
    BY <1>n, <1>3
  <2>3. promise[f] # None /\ Count(toWorker, "chunk", f) + Count(toClient, "ok", f) = 1
    BY <2>1, <2>2 DEF One
  <2> QED BY <1>n, <1>3, <2>3
<1>w. PICK w : w = promise[f]
  OBVIOUS
<1>5. /\ w \in Writer /\ call[w].state = "sent" /\ call[w].file = f
      /\ call[w].next \in Nat /\ call[w].next >= 2 /\ Parts[w] \in Nat
  BY <1>0, <1>1, <1>4, <1>t, <1>w DEF StateInv, Call, TransferAssumption
<1>6. /\ call'[w].state = Acknowledged(w) /\ call'[w].next = call[w].next /\ call'[w].file = f
      /\ \A v \in Writer \ {w} : call'[v] = call[v]
  BY <1>1, <1>4, <1>5, <1>t, <1>w
<1>7. w # None /\ promise'[f] = None /\ \A g \in Name \ {f} : promise'[g] = promise[g] /\ promise[g] # w
  BY <1>0, <1>1, <1>4, <1>5, <1>t, <1>w DEF CallType
<1>8. Goes(w)
  BY <1>5, <1>6 DEF Goes, Acknowledged
<1>9. DiskInv'
  BY <1>0, <1>1, <1>5, <1>8, DiskStep
<1>10. DoneInv'
  <2>1. CASE Acknowledged(w) # "done"
    BY <1>0, <1>1, <1>5, <1>6, <1>8, <2>1, DoneStep
  <2>2. CASE Acknowledged(w) = "done"
    <3>1. call[w].next > Parts[w] + 1
      BY <2>2 DEF Acknowledged
    <3>2. disk[f] # Missing
      BY <1>0, <1>4, <1>7, <1>w, <3>1 DEF OkInv, Acked
    <3>3. w \in Entry => Upload[w] = f
      BY <1>0, <1>5 DEF EntryFiles
    <3>4. Entry \subseteq Writer
      BY UploadIs
    <3>5. \A i \in Entry : call[i].state = "done" => call'[i].state = "done"
      BY <1>6, <2>2, <3>4
    <3>6. \A i \in Entry : call'[i].state = "done" => disk[Upload[i]] # Missing
      BY <1>0, <1>6, <3>2, <3>3, <3>4 DEF DoneInv
    <3> QED BY <1>0, <1>1, <3>5, <3>6 DEF DoneInv
  <2> QED BY <2>1, <2>2
<1>11. OkInv'
  <2> SUFFICES ASSUME NEW g \in Name PROVE Acked(g, Count(toClient, "ok", g))'
    BY DEF OkInv
  <2>1. CASE g = f
    BY <1>7, <2>1 DEF Acked
  <2>2. CASE g # f
    <3>1. promise'[g] = promise[g] /\ (promise[g] # None => promise[g] \in Writer \ {w})
      BY <1>7, <1>t, <2>2
    <3>2. Acked(g, Count(toClient, "ok", g)) /\ Count(toClient, "ok", g) = Count(toClient', "ok", g)
      BY <1>0, <1>3, <2>2 DEF OkInv
    <3> QED BY <1>1, <1>6, <3>1, <3>2 DEF Acked
  <2> QED BY <2>1, <2>2
<1>12. \A g : \A v \in Writer \ {w} : Partial(v, g)' <=> Partial(v, g)
  BY <1>6 DEF Partial
<1>13. /\ Partial(w, f) /\ \A g : Partial(w, g) => g = f
       /\ \A g : Partial(w, g)' <=> (g = f /\ Acknowledged(w) # "done")
  BY <1>5, <1>6 DEF Partial, Acknowledged
<1>14. OneAtATime'
  BY <1>0, <1>1, <1>12, <1>13 DEF OneAtATime
<1>15. \A v \in Writer : \A k : Taken(v, k)' = Taken(v, k)
  BY <1>6 DEF Taken
<1>16. ASSUME NEW g \in Name \ mixed
       PROVE  FileOf(g, Count(toWorker, "chunk", g))'
  <2>1. FileOf(g, Count(toWorker, "chunk", g))
    BY <1>0 DEF FilesInv
  <2>2. CASE g # f \/ Acknowledged(w) # "done"
    <3>1. \A v \in Writer : Partial(v, g)' <=> Partial(v, g)
      BY <1>12, <1>13, <2>2
    <3> QED BY <1>1, <1>15, <2>1, <3>1 DEF FileOf
  <2>3. CASE g = f /\ Acknowledged(w) = "done"
    <3>1. \A v \in Writer : ~ Partial(v, f)'
      <4>1. \A v \in Writer \ {w} : ~ Partial(v, f)
        BY <1>0, <1>5, <1>13, <2>3 DEF OneAtATime
      <4>2. ~ Partial(w, f)'
        BY <1>13, <2>3
      <4> QED BY <1>12, <4>1, <4>2
    <3>2. Taken(w, 0) = 0
      BY <1>5, <2>3 DEF Taken, Acknowledged
    <3>3. files[f] = Prefix(w, 0)
      BY <1>4, <1>5, <1>13, <2>1, <2>3, <3>2 DEF FileOf
    <3>4. Prefix(w, 0) = <<>>
      BY DEF Prefix
    <3> QED BY <1>1, <2>3, <3>1, <3>3, <3>4 DEF FileOf
  <2> QED BY <2>2, <2>3
<1>17. FilesInv'
  BY <1>1, <1>16 DEF FilesInv
<1> QED BY <1>9, <1>10, <1>11, <1>14, <1>17 DEF WholeParts

\* The chunk that the worker takes, and where it belongs.
LEMMA WholeChunk ==
  ASSUME TransferAssumption, WholeInv, HandleChunk \/ HandleEnd
  PROVE  WholeParts'
<1>0. /\ TypeOK /\ TypeInv /\ CallType /\ StateInv /\ ChunkInv /\ OneChunkPerName
      /\ OneAtATime /\ FilesInv /\ DiskInv /\ DoneInv /\ OkInv /\ WholeParts
  BY TypesImplied DEF WholeInv, WholeParts, MsgInv, TypeInv
<1>t. /\ call \in [Writer -> Call] /\ promise \in [Name -> Writer \cup {None}]
      /\ toWorker \in Seq(ToWorkerMessage) /\ toClient \in Seq(ToClientMessage)
      /\ files \in [Name -> File] /\ disk \in [Name -> File \cup {Missing}]
  BY <1>0 DEF CallType, TypeInv, RestType
<1>n. \A k, f : Count(toWorker, k, f) \in Nat /\ Count(toClient, k, f) \in Nat
  BY <1>t, CountType
<1>f. PICK f, d : f = Head(toWorker)[2] /\ d = Head(toWorker)[3]
  OBVIOUS
<1>w. PICK w : w = promise[f]
  OBVIOUS
<1>1. Handle("chunk") /\ f \in Name /\ toWorker # <<>>
  BY <1>0, <1>f, HandleIs DEF HandleChunk, HandleEnd
<1>2. 1 \in DOMAIN toWorker /\ toWorker[1] = Head(toWorker) /\ Head(toWorker)[1] = "chunk"
  BY <1>1, <1>t DEF Handle
<1>3. w # None /\ d = Chunk(w, call[w].next - 1)
  BY <1>0, <1>2, <1>f, <1>w DEF ChunkInv
<1>4. /\ w \in Writer /\ call[w].state = "sent" /\ call[w].file = f
      /\ call[w].next \in Nat /\ call[w].next >= 2 /\ call[w].next <= Parts[w] + 2 /\ Parts[w] \in Nat
  BY <1>0, <1>1, <1>3, <1>t, <1>w DEF CallType, StateInv, Call, TransferAssumption
<1>5. /\ UNCHANGED <<call, promise, mixed, client>>
      /\ \/ /\ d # None /\ files' = [files EXCEPT ![f] = Append(files[f], d)]
            /\ UNCHANGED disk
            /\ toClient' = Append(toClient, <<"ok", f>>)
         \/ /\ d = None /\ files' = [files EXCEPT ![f] = <<>>]
            /\ \/ disk' = disk /\ toClient' = toClient
               \/ disk' = [disk EXCEPT ![f] = files[f]]
                  /\ toClient' = Append(toClient, <<"ok", f>>)
  BY <1>f DEF HandleChunk, HandleEnd, clientVars
<1>6. /\ Count(toWorker, "chunk", f) = Count(toWorker', "chunk", f) + 1
      /\ \A g : g # f => Count(toWorker, "chunk", g) = Count(toWorker', "chunk", g)
      /\ \A g : Count(toWorker', "chunk", g) \in Nat
  BY <1>0, <1>1, <1>f, HandleCounts
<1>7. Count(toWorker, "chunk", f) = 1 /\ Count(toWorker', "chunk", f) = 0 /\ Count(toClient, "ok", f) = 0
  <2>1. One(f, Count(toWorker, "chunk", f) + Count(toClient, "ok", f))
    BY <1>0, <1>1, OneIs
  <2>2. Count(toWorker, "chunk", f) + Count(toClient, "ok", f) # 0
    BY <1>n, <1>6
  <2>3. Count(toWorker, "chunk", f) + Count(toClient, "ok", f) = 1
    BY <2>1, <2>2 DEF One
  <2> QED BY <1>n, <1>6, <2>3
<1>8. \A g : g # f => Count(toClient', "ok", g) = Count(toClient, "ok", g)
  <2>1. CASE toClient' = toClient
    BY <2>1
  <2>2. CASE toClient' = Append(toClient, <<"ok", f>>)
    <3> DEFINE x == <<"ok", f>>
    <3>1. x \in ToClientMessage /\ x[1] = "ok" /\ x[2] = f
      BY <1>1, ClientMessages
    <3> HIDE DEF x
    <3>2. \A g : OneMore(toClient, x, toClient', "ok", g)
      BY <1>0, <2>2, <3>1, ToClientIs DEF x
    <3> QED BY <3>1, <3>2 DEF OneMore, Is
  <2> QED BY <1>5, <2>1, <2>2
<1>9. /\ d # None <=> call[w].next - 1 <= Parts[w]
      /\ d # None => d = <<w, call[w].next - 1>>
      /\ d = None => call[w].next - 1 = Parts[w] + 1
  <2>1. call[w].next - 1 \in Nat
    BY <1>4
  <2> QED BY <1>3, <1>4, <2>1, ChunkIs
<1>10. /\ \A v, g : Partial(v, g)' <=> Partial(v, g)
       /\ \A v, k : Taken(v, k)' = Taken(v, k)
       /\ Partial(w, f)
  BY <1>4, <1>5 DEF Partial, Taken
<1>11. OneAtATime'
  BY <1>0, <1>5, <1>10 DEF OneAtATime
<1>12. f \notin mixed => files[f] = Prefix(w, call[w].next - 2)
  <2> SUFFICES ASSUME f \notin mixed PROVE files[f] = Prefix(w, call[w].next - 2)
    OBVIOUS
  <2>1. FileOf(f, 1)
    BY <1>0, <1>1, <1>7 DEF FilesInv
  <2>2. Taken(w, 1) = call[w].next - 2
    BY DEF Taken
  <2> QED BY <1>4, <1>10, <2>1, <2>2 DEF FileOf
<1>13. f \notin mixed => files'[f] = Prefix(w, Taken(w, 0))
  <2> SUFFICES ASSUME f \notin mixed PROVE files'[f] = Prefix(w, Taken(w, 0))
    OBVIOUS
  <2>1. CASE d # None
    <3>1. files'[f] = Append(files[f], d)
      BY <1>1, <1>5, <1>t, <2>1
    <3>2. Taken(w, 0) = call[w].next - 1
      BY <1>9, <2>1 DEF Taken
    <3>3. Append(Prefix(w, call[w].next - 2), <<w, call[w].next - 1>>) = Prefix(w, call[w].next - 1)
      <4>1. ASSUME NEW m \in Nat
            PROVE  Append(Prefix(w, m), <<w, m + 1>>) = Prefix(w, m + 1)
        BY DEF Prefix
      <4>2. call[w].next - 2 \in Nat /\ (call[w].next - 2) + 1 = call[w].next - 1
        BY <1>4
      <4> QED BY <4>1, <4>2
    <3> QED BY <1>9, <1>12, <2>1, <3>1, <3>2, <3>3
  <2>2. CASE d = None
    <3>1. files'[f] = <<>>
      BY <1>1, <1>5, <1>t, <2>2
    <3>2. Taken(w, 0) = 0
      BY <1>4, <1>9, <2>2 DEF Taken
    <3> QED BY <3>1, <3>2 DEF Prefix
  <2> QED BY <2>1, <2>2
<1>14. \A g \in Name \ {f} : files'[g] = files[g] /\ disk'[g] = disk[g]
  BY <1>5, <1>t
<1>15. ASSUME NEW g \in Name \ mixed
       PROVE  FileOf(g, Count(toWorker, "chunk", g))'
  <2>1. CASE g = f
    <3>1. \A v \in Writer : Partial(v, f) => v = w
      BY <1>0, <1>4, <1>10, <2>1 DEF OneAtATime
    <3>2. FileOf(f, 0)'
      <4>1. \A v \in Writer : Partial(v, f)' => files'[f] = Prefix(v, Taken(v, 0)')
        BY <1>10, <1>13, <2>1, <3>1
      <4>2. ~ \A v \in Writer : ~ Partial(v, f)'
        BY <1>4, <1>10
      <4> QED BY <4>1, <4>2 DEF FileOf, Prefix
    <3> QED BY <1>7, <2>1, <3>2 DEF FileOf
  <2>2. CASE g # f
    <3>1. FileOf(g, Count(toWorker, "chunk", g)) /\ Count(toWorker', "chunk", g) = Count(toWorker, "chunk", g)
      BY <1>0, <1>6, <2>2 DEF FilesInv
    <3> QED BY <1>10, <1>14, <2>2, <3>1 DEF FileOf
  <2> QED BY <2>1, <2>2
<1>16. FilesInv'
  BY <1>5, <1>15 DEF FilesInv
<1>17. disk' = disk \/ (d = None /\ disk'[f] = files[f] /\ files[f] # Missing)
  <2>1. files[f] \in File /\ Missing \notin File
    BY <1>1, <1>t DEF TransferAssumption, File
  <2> QED BY <1>1, <1>5, <1>t, <2>1
<1>18. DiskInv'
  <2> SUFFICES ASSUME NEW g \in Name \ mixed, disk'[g] # Missing
               PROVE  \E v \in Writer : call[v].state # "idle" /\ call[v].file = g /\ disk'[g] = Contents(v)
    BY SMTT(30), <1>5 DEF DiskInv, Contents
  <2>1. CASE disk'[g] = disk[g]
    BY <1>0, <2>1 DEF DiskInv
  <2>2. CASE disk'[g] # disk[g]
    <3>1. g = f /\ d = None /\ disk'[f] = files[f]
      BY <1>14, <1>17, <2>2
    <3>2. call[w].next - 2 = Parts[w]
      BY <1>4, <1>9, <3>1
    <3>3. disk'[f] = Contents(w)
      BY <1>12, <3>1, <3>2 DEF Prefix, Contents
    <3> QED BY <1>4, <3>1, <3>3
  <2> QED BY <2>1, <2>2
<1>19. \A g \in Name : disk[g] # Missing => disk'[g] # Missing
  BY <1>14, <1>17
<1>20. DoneInv'
  <2>1. \A i \in Entry : Upload[i] \in Name
    BY UploadIs
  <2> QED BY <1>0, <1>5, <1>19, <2>1 DEF DoneInv
<1>21. OkInv'
  <2> SUFFICES ASSUME NEW g \in Name PROVE Acked(g, Count(toClient, "ok", g))'
    BY DEF OkInv
  <2>1. CASE g # f
    BY <1>0, <1>5, <1>8, <1>14, <2>1 DEF OkInv, Acked
  <2>2. CASE g = f /\ d # None
    <3>1. ~ (call[w].next > Parts[w] + 1)
      BY <1>4, <1>9, <2>2
    <3> QED BY <1>5, <1>w, <2>2, <3>1 DEF Acked
  <2>3. CASE g = f /\ d = None /\ toClient' = toClient
    BY <1>7, <2>3 DEF Acked
  <2>4. CASE g = f /\ d = None /\ disk' = [disk EXCEPT ![f] = files[f]]
    <3>1. disk'[f] # Missing
      <4>1. files[f] \in File /\ Missing \notin File
        BY <1>1, <1>t DEF TransferAssumption, File
      <4> QED BY <1>1, <1>t, <2>4, <4>1
    <3> QED BY <2>4, <3>1 DEF Acked
  <2> QED BY <1>5, <2>1, <2>2, <2>3, <2>4
<1> QED BY <1>11, <1>16, <1>18, <1>20, <1>21 DEF WholeParts

\* Every step keeps the files whole.
LEMMA WholeStep == TransferAssumption /\ WholeInv /\ [Next]_vars => WholeInv'
<1> SUFFICES ASSUME TransferAssumption, WholeInv, [Next]_vars PROVE WholeInv'
  OBVIOUS
<1>0. /\ TypeOK /\ TypeInv /\ EntryFiles /\ MsgInv /\ WholeParts /\ RunInv
      /\ toClient \in Seq(ToClientMessage)
  BY TypesImplied DEF WholeInv, MsgInv, TypeInv, RestType
<1>1. MsgInv' /\ RunInv' /\ TypeInv'
  BY <1>0, MsgStep, RunStep DEF MsgInv
<1> SUFFICES WholeParts'
  BY <1>1 DEF WholeInv
<1>2. ASSUME NEW f \in Name, ReadFile(f) PROVE WholeParts'
  <2> DEFINE x == <<"get", f>>
  <2>1. toWorker' = Append(toWorker, x) /\ x \in ToWorkerMessage /\ x[1] = "get"
        /\ UNCHANGED <<client, call, promise, files, disk, mixed, toClient>>
    BY <1>2, WorkerMessages DEF ReadFile
  <2> HIDE DEF x
  <2>2. \A g : OneMore(toWorker, x, toWorker', "chunk", g)
    BY <1>0, <2>1, ToWorkerIs
  <2>3. \A g \in Name : Count(toWorker', "chunk", g) = Count(toWorker, "chunk", g)
    BY <2>1, <2>2 DEF OneMore, Is
  <2> QED BY <1>0, <2>1, <2>3, StillWhole
<1>3. CASE SendRun
  <2> DEFINE x == <<"run">>
  <2>1. toWorker' = Append(toWorker, x) /\ x \in ToWorkerMessage /\ x[1] = "run"
        /\ (\A i \in Entry : call[i].state = "done")
        /\ UNCHANGED <<call, promise, files, disk, mixed, toClient>>
    BY <1>3, WorkerMessages DEF SendRun
  <2> HIDE DEF x
  <2>2. \A g : OneMore(toWorker, x, toWorker', "chunk", g)
    BY <1>0, <2>1, ToWorkerIs
  <2>3. \A g \in Name : Count(toWorker', "chunk", g) = Count(toWorker, "chunk", g)
    BY <2>1, <2>2 DEF OneMore, Is
  <2> QED BY <1>0, <2>1, <2>3, StillWhole
<1>4. CASE OnData \/ OnEnd \/ OnReady
  <2>1. PICK h \in {"data", "end", "ready"} : Receive(h) /\ (h = "ready" \/ client' = client)
    BY <1>4 DEF OnData, OnEnd, OnReady
  <2>2. UNCHANGED <<call, promise, files, disk, mixed, toWorker>>
    BY <1>4 DEF OnData, OnEnd, OnReady
  <2>3. \A g : Count(toClient', "ok", g) = Count(toClient, "ok", g)
    BY <1>0, <2>1, ReceiveCounts
  <2>4. client' # "uploading" => client # "uploading"
    <3>1. CASE h = "ready"
      <4>1. 1 \in DOMAIN toClient /\ toClient[1][1] = "ready"
        BY <1>0, <2>1, <3>1 DEF Receive
      <4> QED BY <1>0, <4>1 DEF RunInv
    <3> QED BY <2>1, <3>1
  <2> QED BY <1>0, <2>2, <2>3, <2>4, StillWhole
<1>5. CASE HandleGet \/ HandleRun
  <2>1. PICK h \in {"get", "run"} : Handle(h)
    BY <1>5 DEF HandleGet, HandleRun
  <2>2. UNCHANGED <<client, call, promise, files, disk, mixed>>
    BY <1>5 DEF HandleGet, HandleRun, clientVars
  <2>3. \A g : Count(toWorker', "chunk", g) = Count(toWorker, "chunk", g)
    BY <1>0, <2>1, HandleCounts
  <2>4. \A g : Count(toClient', "ok", g) = Count(toClient, "ok", g)
    <3>1. CASE HandleRun
      <4> DEFINE x == <<"ready">>
      <4>1. x \in ToClientMessage /\ x[1] = "ready" /\ toClient' = Append(toClient, x)
        BY <3>1, ClientMessages DEF HandleRun
      <4> HIDE DEF x
      <4>2. \A g : OneMore(toClient, x, toClient', "ok", g)
        BY <1>0, <4>1, ToClientIs
      <4> QED BY <4>1, <4>2 DEF OneMore, Is
    <3>2. CASE HandleGet /\ disk[Head(toWorker)[2]] = Missing
      BY <3>2 DEF HandleGet
    <3>3. CASE HandleGet /\ disk[Head(toWorker)[2]] # Missing
      BY <1>0, <3>3, GetCounts
    <3> QED BY <1>5, <3>1, <3>2, <3>3
  <2> QED BY <1>0, <2>2, <2>3, <2>4, StillWhole
<1>6. CASE UNCHANGED vars
  BY <1>0, <1>6, StillWhole DEF vars, clientVars
<1>7. CASE Sending \/ Reading \/ OnOk \/ HandleChunk \/ HandleEnd
  BY <1>1, <1>7, WholeSending, WholeReading, WholeOk, WholeChunk
<1>8. CASE Next
  BY <1>0, <1>8, <1>2, <1>3, <1>4, <1>5, <1>7, NextIs DEF OnMessage, HandleMessage
<1> QED BY <1>6, <1>8

\* What a file contains is what one write was given, unless two writes of that
\* name were under way together, and the machine does not start before everything
\* that it starts from is there.
THEOREM FilesAreWhole == Spec => []WholeFiles
<1> USE TransferAssumption
<1>1. Init => WholeInv
  BY WholeInit
<1>2. WholeInv /\ [Next]_vars => WholeInv'
  BY WholeStep
<1>3. WholeInv => WholeFiles
  BY WholeImplied
<1> QED BY <1>1, <1>2, <1>3, PTL DEF Spec

=============================================================================
