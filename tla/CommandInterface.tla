-------------------------- MODULE CommandInterface --------------------------
(***************************************************************************)
(* A running session: the client's command interface                       *)
(* (src/protocol/protocol.ts), the worker that answers it                   *)
(* (src/dos/dosbox/cpp/worker-protocol.cpp) and the emulated machine inside *)
(* the worker, which gives the worker's event loop a chance only while it   *)
(* sleeps (native/jsdos/jsdos-asyncify.cpp).                                *)
(*                                                                         *)
(* Client and worker exchange messages over two first-in first-out queues.  *)
(* The sleep of the machine goes through the same queues: the worker posts  *)
(* ws-sync-sleep, the client posts wc-sync-sleep back, and that wakes the   *)
(* machine, after every message sent before it was handled.                 *)
(***************************************************************************)
EXTENDS Naturals, Sequences, FiniteSets, Functions

CONSTANTS
  Caller,       \* those who use the command interface at the same time
  Asked,        \* bound of the model: the slots they make use of
  MaxQueue,     \* bound of the model: messages that wait in the worker
  MaxErrors,    \* bound of the model: archives that cannot be made
  Asyncify      \* the build: Asyncify rewinds the sleeping machine, or JSPI resumes it

\* The promises of the command interface.  A call for one of Joined takes the
\* promise that is already there; a second delete is refused.
Joined == {"stats", "fs-tree", "running-program"}
Slot == Joined \cup {"fs-delete-file", "drives", "pack", "exit"}

ASSUME InterfaceAssumption ==
  /\ IsFiniteSet(Caller)
  /\ Asked \subseteq Slot \ {"drives"}
  /\ MaxQueue \in Nat
  /\ MaxErrors \in Nat
  /\ Asyncify \in BOOLEAN

VARIABLES
  client,       \* "starting", "ready", "failed" or "exited"
  toWorker,     \* messages to the worker
  toClient,     \* messages to the client
  pending,      \* slots whose promise field is set
  holders,      \* the callers that hold the promise of a slot
  call,         \* what each caller waits for, and whether it asked for a full archive
  machine,      \* "off", "running", "asleep" or "done"
  paused,       \* Module.paused
  ticking,      \* the machine went to sleep paused: the interval looks for a resume
  exitRequested,\* jsdos_exit
  aborted,      \* the runtime was aborted
  errors,       \* archives that could not be made so far (bound)
  pausedLate    \* history: pause was called after exit

clientVars == <<client, pending, holders, call, pausedLate>>
workerVars == <<machine, paused, ticking, exitRequested, aborted, errors>>
vars == <<client, toWorker, toClient, pending, holders, call, machine, paused, ticking,
          exitRequested, aborted, errors, pausedLate>>

Nothing == [wait |-> "idle", full |-> FALSE]

\* The bundles are in the worker and wc-run was sent.
Init ==
  /\ client = "starting"
  /\ toWorker = <<"run">>
  /\ toClient = <<>>
  /\ pending = {}
  /\ holders = [s \in Slot |-> {}]
  /\ call = [c \in Caller |-> Nothing]
  /\ machine = "off"
  /\ paused = FALSE
  /\ ticking = FALSE
  /\ exitRequested = FALSE
  /\ aborted = FALSE
  /\ errors = 0
  /\ pausedLate = FALSE

----------------------------------------------------------------------------
(* The calls of the client.                                                 *)

MayCall(c) ==
  /\ client = "ready"
  /\ call[c] = Nothing
  /\ Len(toWorker) < MaxQueue

Wait(c, s, full) == call' = [call EXCEPT ![c] = [wait |-> s, full |-> full]]

\* A promise of its own for the caller of a request that is sent.
Open(c, s) ==
  /\ pending' = pending \cup {s}
  /\ holders' = [holders EXCEPT ![s] = {c}]
  /\ toWorker' = Append(toWorker, s)

Join(c, s) ==
  /\ holders' = [holders EXCEPT ![s] = @ \cup {c}]
  /\ UNCHANGED <<pending, toWorker>>

\* Mutant: every call makes a promise and sends a request.
AskAgain(c, s) ==
  /\ MayCall(c)
  /\ Open(c, s)
  /\ Wait(c, s, FALSE)
  /\ UNCHANGED <<client, toClient, workerVars, pausedLate>>

\* asyncifyStats, fsTree, getRunningProgram.
Ask(c, s) ==
  /\ MayCall(c)
  /\ IF s \in pending THEN Join(c, s) ELSE Open(c, s)
  /\ Wait(c, s, FALSE)
  /\ UNCHANGED <<client, toClient, workerVars, pausedLate>>

\* fsDeleteFile.
Delete(c) ==
  /\ MayCall(c)
  /\ "fs-delete-file" \notin pending
  /\ Open(c, "fs-delete-file")
  /\ Wait(c, "fs-delete-file", FALSE)
  /\ UNCHANGED <<client, toClient, workerVars, pausedLate>>

\* persist, up to its await: it asks the drives first, unless an archive is
\* being made.
Persist(c, full) ==
  LET s == IF "pack" \in pending THEN "pack" ELSE "drives"
  IN  /\ MayCall(c)
      /\ IF s \in pending THEN Join(c, s) ELSE Open(c, s)
      /\ Wait(c, s, full)
      /\ UNCHANGED <<client, toClient, workerVars, pausedLate>>

\* Mutant: exit leaves a paused machine paused.
ExitPaused(c) ==
  /\ MayCall(c)
  /\ IF "exit" \in pending THEN Join(c, "exit")
     ELSE /\ pending' = pending \cup {"exit"}
          /\ holders' = [holders EXCEPT !["exit"] = {c}]
          /\ toWorker' = Append(toWorker, "exit")
  /\ Wait(c, "exit", FALSE)
  /\ UNCHANGED <<client, toClient, workerVars, pausedLate>>

\* exit, which resumes the machine first.
Exit(c) ==
  /\ MayCall(c)
  /\ IF "exit" \in pending THEN Join(c, "exit")
     ELSE /\ pending' = pending \cup {"exit"}
          /\ holders' = [holders EXCEPT !["exit"] = {c}]
          /\ toWorker' = toWorker \o <<"resume", "exit">>
  /\ Wait(c, "exit", FALSE)
  /\ UNCHANGED <<client, toClient, workerVars, pausedLate>>

Tell(m) ==
  /\ client = "ready"
  /\ Len(toWorker) < MaxQueue
  /\ toWorker' = Append(toWorker, m)
  /\ pausedLate' = (pausedLate \/ (m = "pause" /\ "exit" \in pending))
  /\ UNCHANGED <<client, toClient, pending, holders, call, workerVars>>

Pause == Tell("pause")
Resume == Tell("resume")

----------------------------------------------------------------------------
(* onServerMessage.                                                         *)

Receive(m) ==
  /\ client \in {"starting", "ready"}
  /\ toClient # <<>>
  /\ Head(toClient) = m
  /\ toClient' = Tail(toClient)

\* Mutant: the promise field is not reset.
SettleOnly(s) ==
  /\ call' = [c \in Caller |-> IF c \in holders[s] THEN Nothing ELSE call[c]]
  /\ holders' = [holders EXCEPT ![s] = {}]
  /\ UNCHANGED pending

\* The promise of a slot is resolved and the slot is free again.
Settle(s) ==
  /\ call' = [c \in Caller |-> IF c \in holders[s] THEN Nothing ELSE call[c]]
  /\ holders' = [holders EXCEPT ![s] = {}]
  /\ pending' = pending \ {s}

\* ws-asyncify-stats, ws-fs-tree, ws-get-running-program, ws-fs-delete-file, and
\* onPersist, which ignores an archive nobody waits for.
OnAnswer(s) ==
  /\ Receive(s)
  /\ IF s \in pending THEN Settle(s) ELSE UNCHANGED <<call, holders, pending>>
  /\ UNCHANGED <<client, toWorker, workerVars, pausedLate>>

\* ws-persist-sockdrives: each caller of persist goes on in its turn.  Those who
\* cannot do with the drives' changes make a promise and a request each; the
\* fields keep the promise of the last.
OnDrives(m) ==
  LET packers == {c \in holders["drives"] : m = "drives-null" \/ call[c].full}
      Turns == {order \in [1 .. Cardinality(packers) -> packers] : IsInjective(order)}
      Pack(c) == IF call[c].full THEN "pack-full" ELSE "pack"
  IN  /\ Receive(m)
      /\ m \in {"drives-null", "drives-changes"}
      /\ call' = [c \in Caller |-> IF c \in packers THEN [call[c] EXCEPT !.wait = "pack"]
                                  ELSE IF c \in holders["drives"] THEN Nothing ELSE call[c]]
      /\ IF packers = {}
           THEN /\ pending' = pending \ {"drives"}
                /\ holders' = [holders EXCEPT !["drives"] = {}]
                /\ UNCHANGED toWorker
           ELSE \E order \in Turns :
                /\ pending' = (pending \ {"drives"}) \cup {"pack"}
                /\ holders' = [holders EXCEPT !["drives"] = {}, !["pack"] = {order[Len(order)]}]
                /\ toWorker' = toWorker \o [i \in 1 .. Len(order) |-> Pack(order[i])]
      /\ UNCHANGED <<client, workerVars, pausedLate>>

\* ws-sync-sleep.
OnSyncSleep ==
  /\ Receive("sync-sleep")
  /\ toWorker' = Append(toWorker, "sync-sleep")
  /\ UNCHANGED <<clientVars, workerVars>>

\* transport.exit: the worker is terminated.
Terminate ==
  /\ toWorker' = <<>>
  /\ machine' = "done"
  /\ ticking' = FALSE
  /\ UNCHANGED <<paused, exitRequested, aborted, errors>>

\* ws-server-ready, after a panic or without one.
OnServerReady(m) ==
  /\ Receive(m)
  /\ \/ m = "server-ready" /\ client' = "ready" /\ UNCHANGED <<toWorker, workerVars>>
     \/ m = "panic-ready" /\ client' = "failed" /\ Terminate
  /\ UNCHANGED <<pending, holders, call, pausedLate>>

\* ws-exit: only the promise of exit is settled.
OnExit ==
  /\ Receive("exit")
  /\ client' = "exited"
  /\ IF "exit" \in pending THEN Settle("exit") ELSE UNCHANGED <<call, holders, pending>>
  /\ Terminate
  /\ UNCHANGED pausedLate

----------------------------------------------------------------------------
(* The worker.  It handles a message whenever the machine does not run.     *)

Handle(m) ==
  /\ machine # "running"
  /\ toWorker # <<>>
  /\ Head(toWorker) = m
  /\ toWorker' = Tail(toWorker)

\* wc-run: the machine runs up to its first sleep.  A bundle that cannot be
\* extracted is reported as a panic, and the machine starts all the same.
HandleRun ==
  /\ Handle("run")
  /\ machine' = "asleep"
  /\ \E ready \in {"server-ready", "panic-ready"} :
       toClient' = toClient \o <<"sync-sleep", ready>>
  /\ UNCHANGED <<clientVars, paused, ticking, exitRequested, aborted, errors>>

\* Mutant: resuming wakes the machine at once.
HandleResumeWaking ==
  /\ Handle("resume")
  /\ paused' = FALSE
  /\ toClient' = IF machine = "asleep" THEN Append(toClient, "sync-sleep") ELSE toClient
  /\ UNCHANGED <<clientVars, machine, ticking, exitRequested, aborted, errors>>

HandleResume ==
  /\ Handle("resume")
  /\ paused' = FALSE
  /\ UNCHANGED <<clientVars, toClient, machine, ticking, exitRequested, aborted, errors>>

HandlePause ==
  /\ Handle("pause")
  /\ paused' = TRUE
  /\ UNCHANGED <<clientVars, toClient, machine, ticking, exitRequested, aborted, errors>>

HandleExit ==
  /\ Handle("exit")
  /\ exitRequested' = TRUE
  /\ UNCHANGED <<clientVars, toClient, machine, paused, ticking, aborted, errors>>

\* Both kinds of archive are answered with ws-persist.
Answer(s) ==
  CASE s = "drives"    -> {"drives-null", "drives-changes"}
    [] s = "pack-full" -> {"pack"}
    [] OTHER           -> {s}

\* Mutant: a worker whose machine has not slept out does not answer.
HandleRequestIdle(s) ==
  /\ Handle(s)
  /\ IF paused THEN UNCHANGED toClient
     ELSE \E m \in Answer(s) : toClient' = Append(toClient, m)
  /\ UNCHANGED <<clientVars, workerVars>>

\* The requests; they are answered in the handler.
HandleRequest(s) ==
  /\ Handle(s)
  /\ \E m \in Answer(s) : toClient' = Append(toClient, m)
  /\ UNCHANGED <<clientVars, workerVars>>

\* A full archive that cannot be made: the runtime is aborted and nobody is
\* answered.  (One of the changes is answered with null instead.)
HandlePackFails ==
  /\ Handle("pack-full")
  /\ errors < MaxErrors
  /\ errors' = errors + 1
  /\ aborted' = TRUE
  /\ UNCHANGED <<clientVars, toClient, machine, paused, ticking, exitRequested>>

\* After an abort Asyncify's wakeUp returns at once; JSPI's resolves a promise,
\* whatever happened.
Dead == aborted /\ Asyncify

\* wc-sync-sleep: the machine wakes, or, before its time, sleeps on.  The wake-up
\* of a dead machine is used up all the same.
HandleSyncSleep ==
  /\ Handle("sync-sleep")
  /\ \/ /\ machine' = (IF machine = "asleep" /\ ~ Dead THEN "running" ELSE machine)
        /\ UNCHANGED toClient
     \/ toClient' = Append(toClient, "sync-sleep") /\ UNCHANGED machine
  /\ UNCHANGED <<clientVars, paused, ticking, exitRequested, aborted, errors>>

\* sync_sleep: the machine, running, goes to sleep.
Sleep ==
  /\ machine = "running"
  /\ machine' = "asleep"
  /\ ticking' = paused
  /\ toClient' = IF paused THEN toClient ELSE Append(toClient, "sync-sleep")
  /\ UNCHANGED <<clientVars, toWorker, paused, exitRequested, aborted, errors>>

\* Mutant: the interval stops without a message.
TickSilent ==
  /\ ticking
  /\ ~ paused
  /\ ticking' = FALSE
  /\ UNCHANGED <<clientVars, toWorker, toClient, machine, paused, exitRequested, aborted, errors>>

\* The interval of a paused sleep finds the machine resumed.
Tick ==
  /\ ticking
  /\ ~ paused
  /\ ticking' = FALSE
  /\ toClient' = Append(toClient, "sync-sleep")
  /\ UNCHANGED <<clientVars, toWorker, machine, paused, exitRequested, aborted, errors>>

\* server_run returns, because exit was requested or the guest ended by itself,
\* or the machine crashes: ws-exit either way.
Finish ==
  /\ machine = "running"
  /\ machine' = "done"
  /\ toClient' = Append(toClient, "exit")
  /\ UNCHANGED <<clientVars, toWorker, paused, ticking, exitRequested, aborted, errors>>

Requests == Joined \cup {"fs-delete-file", "drives", "pack", "pack-full"}

OnMessage ==
  \/ \E s \in Joined \cup {"fs-delete-file", "pack"} : OnAnswer(s)
  \/ \E m \in {"drives-null", "drives-changes"} : OnDrives(m)
  \/ OnSyncSleep
  \/ \E m \in {"server-ready", "panic-ready"} : OnServerReady(m)
  \/ OnExit

HandleMessage ==
  \/ HandleRun
  \/ HandleResume
  \/ HandlePause
  \/ HandleExit
  \/ \E s \in Requests : HandleRequest(s)
  \/ HandlePackFails
  \/ HandleSyncSleep

User ==
  \/ \E c \in Caller :
       \/ \E s \in Joined \cap Asked : Ask(c, s)
       \/ "fs-delete-file" \in Asked /\ Delete(c)
       \/ \E full \in BOOLEAN : "pack" \in Asked /\ Persist(c, full)
       \/ "exit" \in Asked /\ Exit(c)
  \/ Pause
  \/ Resume

Next == User \/ OnMessage \/ HandleMessage \/ Sleep \/ Tick \/ Finish

Spec == Init /\ [][Next]_vars

\* Both event loops handle what is queued, the interval fires, a machine that
\* runs sleeps or ends, and one asked to exit does not put it off forever.
\* Nobody has to call anything.
Fairness ==
  /\ WF_vars(OnMessage)
  /\ WF_vars(HandleMessage)
  /\ SF_vars(HandleSyncSleep /\ machine' = "running")
  /\ WF_vars(Sleep \/ Finish)
  /\ SF_vars(exitRequested /\ Finish)
  /\ WF_vars(Tick)

LiveSpec == Spec /\ Fairness

----------------------------------------------------------------------------
(* Properties.                                                              *)

ToWorkerMessage == Requests \cup {"run", "pause", "resume", "exit", "sync-sleep"}
ToClientMessage ==
  Joined \cup {"fs-delete-file", "pack", "drives-null", "drives-changes", "sync-sleep",
               "server-ready", "panic-ready", "exit"}

\* The type invariant; a promise that was never made has no holders.
TypeOK ==
  /\ client \in {"starting", "ready", "failed", "exited"}
  /\ toWorker \in Seq(ToWorkerMessage)
  /\ toClient \in Seq(ToClientMessage)
  /\ pending \subseteq Slot
  /\ holders \in [Slot -> SUBSET Caller]
  /\ \A s \in Slot : s \in pending <=> holders[s] # {}
  /\ call \in [Caller -> [wait : Slot \cup {"idle"}, full : BOOLEAN]]
  /\ machine \in {"off", "running", "asleep", "done"}
  /\ paused \in BOOLEAN
  /\ ticking \in BOOLEAN
  /\ exitRequested \in BOOLEAN
  /\ aborted \in BOOLEAN
  /\ errors \in 0 .. MaxErrors
  /\ pausedLate \in BOOLEAN

Count(queue, m) == Cardinality({i \in DOMAIN queue : queue[i] = m})

\* A sleeping machine has exactly one wake-up coming, on its way in one of the
\* queues or in the interval of a paused sleep, and a machine that does not sleep
\* has none: a second one would find no one to wake (Module.sync_wakeUp is gone),
\* and without one the machine stops.  Only a machine that a failed archive has
\* aborted sleeps without one, and even that never has two.
WakeUps ==
  Count(toWorker, "sync-sleep") + Count(toClient, "sync-sleep") + (IF ticking THEN 1 ELSE 0)

OneWakeUp ==
  client \in {"starting", "ready"} =>
    /\ WakeUps <= (IF machine = "asleep" THEN 1 ELSE 0)
    /\ machine = "asleep" /\ ~ Dead => WakeUps = 1

\* A promise stands for one request: it is on its way to the worker or its
\* answer is on its way back.  Were there more, an old answer would settle the
\* promise of a new request.
OneAnswerPerPromise ==
  client = "ready" =>
    \A s \in Joined \cup {"fs-delete-file"} :
      Count(toWorker, s) + Count(toClient, s) = (IF s \in pending THEN 1 ELSE 0)

\* Whoever waits holds the promise that will be settled, however calls join and
\* promises are replaced; the archive of persist is left to PersistIsAnswered.
NobodyIsForgotten ==
  \A c \in Caller : call[c].wait \in Slot \ {"pack"} => c \in holders[call[c].wait]

\* Every call is answered unless the session ends, whether the machine is
\* running, asleep or paused.
CallsAreAnswered ==
  \A c \in Caller :
    call[c].wait \in Joined \cup {"fs-delete-file", "drives"} ~>
      (call[c].wait \in {"idle", "pack"} \/ client = "exited")

\* exit settles, also when the machine was paused, unless the user pauses again
\* after it, or an archive that could not be made has aborted the machine: that
\* one never wakes to see the request.
ExitSettles == "exit" \in pending ~> (client = "exited" \/ pausedLate \/ Dead)

\* The machine goes on unless it is paused, or aborted by a failed archive.
MachineKeepsRunning == machine = "asleep" ~> (machine # "asleep" \/ paused \/ Dead)

\* emulators.ts:151: persist dumps the file system, or the changes of the drives.
\* Every call of it is answered unless the session ends.
PersistIsAnswered ==
  \A c \in Caller : call[c].wait \in {"drives", "pack"} ~>
    (call[c].wait \notin {"drives", "pack"} \/ client = "exited")

============================================================================
