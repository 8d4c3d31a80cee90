---------------------------- MODULE FileTransfer ----------------------------
(***************************************************************************)
(* Files in chunks: fsWriteFile, fsReadFile and the upload of the initial   *)
(* bundles and files (src/protocol/protocol.ts), and the worker that puts   *)
(* files together (src/dos/dosbox/cpp/worker-protocol.cpp).                 *)
(*                                                                         *)
(* A write sends a chunk, waits until it is acknowledged, and goes on; the  *)
(* last message has no data and makes the worker write the file.  Both      *)
(* sides find a chunk's file, and the client its promise, by name only.     *)
(* The content of a chunk is named by its write and its number.             *)
(***************************************************************************)
EXTENDS Naturals, Sequences, FiniteSets, SequencesExt

CONSTANTS
  Name,     \* the names of files, and the numbers of bundles
  Bundle,   \* those that are numbers of bundles
  BadName,  \* names that the file system of the worker cannot create
  Write,    \* calls of fsWriteFile
  Stream,   \* those of them that are given a stream
  Parts,    \* the number of chunks of a write, or of an entry of the upload
  Upload,   \* the names of the initial bundles and files, in their order
  None,     \* no promise
  Missing   \* no such file

Entry  == DOMAIN Upload
Writer == Write \cup Entry

ASSUME TransferAssumption ==
  /\ Bundle \subseteq Name
  /\ BadName \subseteq Name
  /\ Stream \subseteq Write
  /\ Upload \in Seq(Name \ BadName)
  /\ Write \cap Entry = {}
  /\ Parts \in [Writer -> Nat]
  /\ None \notin Writer \cup (Writer \X Nat)
  /\ Missing \notin Seq(Writer \X Nat)

VARIABLES
  client,    \* "uploading", "starting" or "ready"
  call,      \* of each write: its state, its file and the next chunk to send
  promise,   \* dataChunkPromise: the write that waits for a name, or None
  reading,   \* fsGetFilePromise: is the file being read?
  getParts,  \* fsGetFileParts: what was received of it
  toWorker,  \* messages to the worker
  toClient,  \* messages to the client
  files,     \* Module.files and Module.bundles: the chunks of files not complete
  disk,      \* the files, and the bundles
  mixed,     \* history: files whose chunks came from two unfinished writes
  seen       \* history: what a file contained since it is being read

clientVars == <<client, call, promise, reading, getParts, mixed>>
vars == <<clientVars, toWorker, toClient, files, disk, seen>>

Contents(w) == [i \in 1 .. Parts[w] |-> <<w, i>>]

Init ==
  /\ client = "uploading"
  /\ call = [w \in Writer |-> [state |-> "idle", file |-> None, next |-> 1]]
  /\ promise = [f \in Name |-> None]
  /\ reading = [f \in Name |-> FALSE]
  /\ getParts = [f \in Name |-> <<>>]
  /\ toWorker = <<>>
  /\ toClient = <<>>
  /\ files = [f \in Name |-> <<>>]
  /\ disk = [f \in Name |-> Missing]
  /\ mixed = {}
  /\ seen = [f \in Name |-> {}]

----------------------------------------------------------------------------
(* The client writes.                                                       *)

\* The chunk numbered next; after the last one there is none, and the file ends.
Chunk(w, n) == IF n <= Parts[w] THEN <<w, n>> ELSE None

\* Some of another write of f was sent, but not its end.
Unfinished(w, f) ==
  \E v \in Writer \ {w} :
    /\ call[v].file = f
    /\ call[v].state \in {"ready", "sent", "failed"}
    /\ call[v].next > 1

\* Mutant: a chunk is sent although the one before it is not acknowledged.
SendChunkAnyway(w, f, n) ==
  /\ promise' = [promise EXCEPT ![f] = w]
  /\ call' = [call EXCEPT ![w] = [state |-> "sent", file |-> f, next |-> n + 1]]
  /\ toWorker' = Append(toWorker, <<"chunk", f, Chunk(w, n)>>)
  /\ mixed' = IF Unfinished(w, f) THEN mixed \cup {f} ELSE mixed

\* sendFullDataChunk: it throws while a chunk of that name is not acknowledged,
\* and the write it belongs to ends there.
SendChunk(w, f, n) ==
  IF promise[f] # None
    THEN /\ call' = [call EXCEPT ![w] = [state |-> "failed", file |-> f, next |-> n]]
         /\ UNCHANGED <<promise, toWorker, mixed>>
    ELSE /\ promise' = [promise EXCEPT ![f] = w]
         /\ call' = [call EXCEPT ![w] = [state |-> "sent", file |-> f, next |-> n + 1]]
         /\ toWorker' = Append(toWorker, <<"chunk", f, Chunk(w, n)>>)
         /\ mixed' = IF Unfinished(w, f) THEN mixed \cup {f} ELSE mixed

\* fsWriteFile of an array, which sends at once, or of a stream, which is read first.
WriteFile(w, f) ==
  /\ client = "ready"
  /\ call[w].state = "idle"
  /\ IF w \in Stream
       THEN /\ call' = [call EXCEPT ![w] = [state |-> "ready", file |-> f, next |-> 1]]
            /\ UNCHANGED <<promise, toWorker, mixed>>
       ELSE SendChunk(w, f, 1)
  /\ UNCHANGED <<client, reading, getParts, toClient, files, disk, seen>>

\* fsWriteFile and sendDataChunk go on after an await: the last chunk was
\* acknowledged, and the stream has the next one.
SendNext(w) ==
  /\ call[w].state = "ready"
  /\ SendChunk(w, call[w].file, call[w].next)
  /\ UNCHANGED <<client, reading, getParts, toClient, files, disk, seen>>

\* reader.read rejects, and with it the write.
StreamFails(w) ==
  /\ call[w].state = "ready"
  /\ call' = [call EXCEPT ![w].state = "failed"]
  /\ UNCHANGED <<client, promise, reading, getParts, toWorker, toClient, files, disk, mixed, seen>>

\* sendBundles: the next entry, when the ones before it are done.
SendEntry(i) ==
  /\ client = "uploading"
  /\ call[i].state = "idle"
  /\ \A j \in Entry : j < i => call[j].state = "done"
  /\ SendChunk(i, Upload[i], 1)
  /\ UNCHANGED <<client, reading, getParts, toClient, files, disk, seen>>

\* Mutant: the machine is started without waiting for the last entry.
SendRunEarly ==
  /\ client = "uploading"
  /\ \A i \in Entry : call[i].state # "idle"
  /\ client' = "starting"
  /\ toWorker' = Append(toWorker, <<"run">>)
  /\ UNCHANGED <<call, promise, reading, getParts, toClient, files, disk, mixed, seen>>

\* sendBundles().then: wc-run.
SendRun ==
  /\ client = "uploading"
  /\ \A i \in Entry : call[i].state = "done"
  /\ client' = "starting"
  /\ toWorker' = Append(toWorker, <<"run">>)
  /\ UNCHANGED <<call, promise, reading, getParts, toClient, files, disk, mixed, seen>>

----------------------------------------------------------------------------
(* The client reads.                                                        *)

\* Mutant: what an earlier read of the file received is kept.
ReadFileAgain(f) ==
  /\ client = "ready"
  /\ ~ reading[f]
  /\ reading' = [reading EXCEPT ![f] = TRUE]
  /\ seen' = [seen EXCEPT ![f] = {disk[f]}]
  /\ toWorker' = Append(toWorker, <<"get", f>>)
  /\ UNCHANGED <<client, call, promise, getParts, toClient, files, disk, mixed>>

\* fsReadFile; a second read of the file is refused while the first one goes on.
ReadFile(f) ==
  /\ client = "ready"
  /\ ~ reading[f]
  /\ reading' = [reading EXCEPT ![f] = TRUE]
  /\ getParts' = [getParts EXCEPT ![f] = <<>>]
  /\ seen' = [seen EXCEPT ![f] = {disk[f]}]
  /\ toWorker' = Append(toWorker, <<"get", f>>)
  /\ UNCHANGED <<client, call, promise, toClient, files, disk, mixed>>

----------------------------------------------------------------------------
(* onServerMessage.                                                         *)

Receive(kind) ==
  /\ toClient # <<>>
  /\ Head(toClient)[1] = kind
  /\ toClient' = Tail(toClient)

\* Mutant: the promise that is resolved is not forgotten.
OnOkKept ==
  LET f == Head(toClient)[2]
      w == promise[f]
  IN  /\ Receive("ok")
      /\ UNCHANGED promise
      /\ call' = IF w = None THEN call
                 ELSE [call EXCEPT ![w].state = IF call[w].next > Parts[w] + 1 THEN "done" ELSE "ready"]
      /\ UNCHANGED <<client, reading, getParts, toWorker, files, disk, mixed, seen>>

\* ws-send-data-chunk of type "ok": the write goes on, or is done.
OnOk ==
  LET f == Head(toClient)[2]
      w == promise[f]
  IN  /\ Receive("ok")
      /\ promise' = [promise EXCEPT ![f] = None]
      /\ call' = IF w = None THEN call
                 ELSE [call EXCEPT ![w].state = IF call[w].next > Parts[w] + 1 THEN "done" ELSE "ready"]
      /\ UNCHANGED <<client, reading, getParts, toWorker, files, disk, mixed, seen>>

\* ws-send-data-chunk of type "file" with data.
OnData ==
  LET f == Head(toClient)[2]
  IN  /\ Receive("data")
      /\ getParts' = [getParts EXCEPT ![f] = Append(@, Head(toClient)[3])]
      /\ UNCHANGED <<client, call, promise, reading, toWorker, files, disk, mixed, seen>>

\* The same without data: the read is over.
OnEnd ==
  /\ Receive("end")
  /\ reading' = [reading EXCEPT ![Head(toClient)[2]] = FALSE]
  /\ UNCHANGED <<client, call, promise, getParts, toWorker, files, disk, mixed, seen>>

\* ws-server-ready.
OnReady ==
  /\ Receive("ready")
  /\ client' = "ready"
  /\ UNCHANGED <<call, promise, reading, getParts, toWorker, files, disk, mixed, seen>>

----------------------------------------------------------------------------
(* The worker.                                                              *)

Handle(kind) ==
  /\ toWorker # <<>>
  /\ Head(toWorker)[1] = kind
  /\ toWorker' = Tail(toWorker)

\* wc-send-data-chunk with data.
HandleChunk ==
  LET f == Head(toWorker)[2]
      d == Head(toWorker)[3]
  IN  /\ Handle("chunk")
      /\ d # None
      /\ files' = [files EXCEPT ![f] = Append(@, d)]
      /\ toClient' = Append(toClient, <<"ok", f>>)
      /\ UNCHANGED <<clientVars, disk, seen>>

\* Mutant: a file that is complete is not acknowledged.
HandleEndSilent ==
  LET f == Head(toWorker)[2]
  IN  /\ Handle("chunk")
      /\ Head(toWorker)[3] = None
      /\ files' = [files EXCEPT ![f] = <<>>]
      /\ disk' = [disk EXCEPT ![f] = files[f]]
      /\ seen' = [seen EXCEPT ![f] = @ \cup {files[f]}]
      /\ UNCHANGED <<clientVars, toClient>>

\* Mutant: the chunks are kept when the file is written.
HandleEndKept ==
  LET f == Head(toWorker)[2]
  IN  /\ Handle("chunk")
      /\ Head(toWorker)[3] = None
      /\ disk' = [disk EXCEPT ![f] = files[f]]
      /\ seen' = [seen EXCEPT ![f] = @ \cup {files[f]}]
      /\ toClient' = Append(toClient, <<"ok", f>>)
      /\ UNCHANGED <<clientVars, files>>

\* wc-send-data-chunk without data: the chunks are taken away and the file is
\* written.  Where that fails the handler throws, and there is no answer.
HandleEnd ==
  LET f == Head(toWorker)[2]
  IN  /\ Handle("chunk")
      /\ Head(toWorker)[3] = None
      /\ files' = [files EXCEPT ![f] = <<>>]
      /\ IF f \in BadName THEN UNCHANGED <<disk, seen, toClient>>
         ELSE /\ disk' = [disk EXCEPT ![f] = files[f]]
              /\ seen' = [seen EXCEPT ![f] = @ \cup {files[f]}]
              /\ toClient' = Append(toClient, <<"ok", f>>)
      /\ UNCHANGED clientVars

\* wc-fs-get-file: a file that is not there throws, and there is no answer.
HandleGet ==
  LET f == Head(toWorker)[2]
  IN  /\ Handle("get")
      /\ toClient' = IF disk[f] = Missing THEN toClient
                     ELSE toClient \o <<<<"data", f, disk[f]>>, <<"end", f>>>>
      /\ UNCHANGED <<clientVars, files, disk, seen>>

\* wc-run.
HandleRun ==
  /\ Handle("run")
  /\ toClient' = Append(toClient, <<"ready">>)
  /\ UNCHANGED <<clientVars, files, disk, seen>>

Uploading == SendRun \/ \E i \in Entry : SendEntry(i)
OnMessage == OnOk \/ OnData \/ OnEnd \/ OnReady
HandleMessage == HandleChunk \/ HandleEnd \/ HandleGet \/ HandleRun

Next ==
  \/ \E w \in Write, f \in Name \ Bundle : WriteFile(w, f)
  \/ \E w \in Writer : SendNext(w)
  \/ \E w \in Stream : StreamFails(w)
  \/ \E f \in Name \ Bundle : ReadFile(f)
  \/ Uploading
  \/ OnMessage
  \/ HandleMessage

Spec == Init /\ [][Next]_vars

\* Both event loops handle what is queued, awaits go on when their promise is
\* settled, and a stream has its next chunk at some time.
Fairness ==
  /\ WF_vars(Uploading)
  /\ WF_vars(OnMessage)
  /\ WF_vars(HandleMessage)
  /\ \A w \in Writer : WF_vars(SendNext(w))

LiveSpec == Spec /\ Fairness

----------------------------------------------------------------------------
(* Properties.                                                              *)

File == Seq(Writer \X Nat)
ToWorkerMessage ==
  ({"chunk"} \X Name \X ((Writer \X Nat) \cup {None})) \cup ({"get"} \X Name) \cup {<<"run">>}
ToClientMessage ==
  ({"ok", "end"} \X Name) \cup ({"data"} \X Name \X File) \cup {<<"ready">>}

\* The type invariant; a promise is that of a write that sent a chunk and waits.
TypeOK ==
  /\ client \in {"uploading", "starting", "ready"}
  /\ call \in [Writer -> [state : {"idle", "ready", "sent", "done", "failed"},
                         file : Name \cup {None}, next : Nat \ {0}]]
  /\ \A w \in Writer : call[w].state = "idle" \/ call[w].file \in Name
  /\ promise \in [Name -> Writer \cup {None}]
  /\ \A f \in Name : promise[f] # None =>
       call[promise[f]].state = "sent" /\ call[promise[f]].file = f
  /\ reading \in [Name -> BOOLEAN]
  /\ getParts \in [Name -> Seq(File)]
  /\ toWorker \in Seq(ToWorkerMessage)
  /\ toClient \in Seq(ToClientMessage)
  /\ files \in [Name -> File]
  /\ disk \in [Name -> File \cup {Missing}]
  /\ mixed \subseteq Name
  /\ seen \in [Name -> SUBSET (File \cup {Missing})]

Count(queue, kind, f) ==
  Cardinality({i \in DOMAIN queue : queue[i][1] = kind /\ queue[i][2] = f})

\* The promise of a name stands for one chunk, which is on its way to the worker
\* or acknowledged: with two, the answer to the one would let the write of the
\* other go on.  Only a name that cannot be created keeps a promise for nothing.
OneChunkPerName ==
  \A f \in Name :
    LET n == Count(toWorker, "chunk", f) + Count(toClient, "ok", f)
    IN  IF promise[f] = None THEN n = 0
        ELSE n = 1 \/ (n = 0 /\ f \in BadName)

\* What a file contains is what one write was given, from its first chunk to its
\* last, unless two writes of that name were under way together or one of them
\* was given up half way; and the machine does not start before everything that
\* it starts from is there.
WholeFiles ==
  /\ \A f \in Name \ mixed :
       disk[f] # Missing => \E w \in Writer : call[w].file = f /\ disk[f] = Contents(w)
  /\ client # "uploading" => \A i \in Entry : disk[Upload[i]] # Missing

\* A read gives what the file contained at one moment between the call and its
\* answer, also while the file is being replaced and after earlier reads of it.
ReadsAreSnapshots ==
  [][\A f \in Name : reading[f] /\ ~ reading'[f] => FlattenSeq(getParts[f]) \in seen[f]]_vars

\* A write is done or refused in the end, whoever else writes the same name,
\* unless the worker cannot create the file.
WritesSettle ==
  \A w \in Writer :
    call[w].state \in {"ready", "sent"} ~>
      (call[w].state \in {"done", "failed"} \/ call[w].file \in BadName)

============================================================================
