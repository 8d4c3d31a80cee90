----------------------------- MODULE KeyEvents -----------------------------
(***************************************************************************)
(* Keys on their way to the machine: the client stamps them with its time   *)
(* (src/protocol/protocol.ts), the worker queues them, and the machine      *)
(* takes them from the queue with the distances in time that the client saw *)
(* (native/jsdos/jsdos-events.cpp).                                         *)
(*                                                                         *)
(* Only differences of times matter.  The time at which the next key is due *)
(* is kept as the time until then, and how long a key is down is counted up *)
(* to Hold, so that the machine may be late by any amount.                  *)
(***************************************************************************)
EXTENDS Integers, Sequences, SequencesExt

CONSTANTS
  Key,      \* the keys
  Hold,     \* the 16 ms of simulateKeyPress and DoKeyEvents
  Width,    \* the number of values of a uint64_t
  MaxTime,  \* bound of the model: the client sends before this time
  MaxSent   \* bound of the model: messages that are sent

ASSUME KeyAssumption ==
  /\ Hold \in Nat \ {0}
  /\ Width \in Nat \ {0}
  /\ MaxTime \in Nat
  /\ MaxTime + Hold < Width \div 2
  /\ MaxSent \in Nat

VARIABLES
  clock,      \* Date.now() - startedAt
  keyMatrix,  \* keyMatrix of the client
  toWorker,   \* wc-add-key messages under way
  keyEvents,  \* keyEvents of the machine
  wait,       \* executeNextKeyEventAt, as the time until then; 0 if it is over
  down,       \* the keys that are down for the programs in the machine
  sent,       \* messages sent so far (bound)
  newest,     \* history: the time of the last message sent
  back        \* history: was a message sent with a time before that?

vars == <<clock, keyMatrix, toWorker, keyEvents, wait, down, sent, newest, back>>

Max2(a, b) == IF a > b THEN a ELSE b
Min2(a, b) == IF a < b THEN a ELSE b

\* A key that is down: for how long, since which time of the client, and whether
\* no other key went down since.
Down == [age : 0 .. Hold, time : 0 .. MaxTime + Hold, alone : BOOLEAN]
Up == [age |-> -1]

Init ==
  /\ clock = 0
  /\ keyMatrix = [k \in Key |-> FALSE]
  /\ toWorker = <<>>
  /\ keyEvents = <<>>
  /\ wait = 0
  /\ down = [k \in Key |-> Up]
  /\ sent = 0
  /\ newest = 0
  /\ back = FALSE

----------------------------------------------------------------------------
(* The client.                                                              *)

KeyEvent(k, pressed, time) == [key |-> k, pressed |-> pressed, time |-> time]

Post(events) ==
  /\ sent + Len(events) <= MaxSent
  /\ sent' = sent + Len(events)
  /\ toWorker' = toWorker \o events
  /\ back' = (back \/ (events # <<>> /\ events[1].time < newest))
  /\ newest' = (IF events = <<>> THEN newest ELSE Last(events).time)

\* sendKeyEvent and addKey: a key that is in this state already is not sent.
SendKeyEvent(k, pressed) ==
  /\ clock < MaxTime
  /\ keyMatrix[k] # pressed
  /\ keyMatrix' = [keyMatrix EXCEPT ![k] = pressed]
  /\ Post(<<KeyEvent(k, pressed, clock)>>)
  /\ UNCHANGED <<clock, keyEvents, wait, down>>

\* Mutant: the state of the key is not looked at.
SimulateKeyPressAlways(k) ==
  /\ clock < MaxTime
  /\ keyMatrix' = [keyMatrix EXCEPT ![k] = FALSE]
  /\ Post(<<KeyEvent(k, TRUE, clock), KeyEvent(k, FALSE, clock + Hold)>>)
  /\ UNCHANGED <<clock, keyEvents, wait, down>>

\* simulateKeyPress of one key: its release is sent at once, with a time to come.
SimulateKeyPress(k) ==
  LET press == IF keyMatrix[k] THEN <<>> ELSE <<KeyEvent(k, TRUE, clock)>>
  IN  /\ clock < MaxTime
      /\ keyMatrix' = [keyMatrix EXCEPT ![k] = FALSE]
      /\ Post(Append(press, KeyEvent(k, FALSE, clock + Hold)))
      /\ UNCHANGED <<clock, keyEvents, wait, down>>

----------------------------------------------------------------------------
(* The machine.                                                             *)

\* Mutant: a release makes the next key due at once, too.
ServerAddKeyAtOnce ==
  /\ toWorker # <<>>
  /\ toWorker' = Tail(toWorker)
  /\ keyEvents' = Append(keyEvents, Head(toWorker))
  /\ wait' = IF keyEvents = <<>> THEN 0 ELSE wait
  /\ UNCHANGED <<clock, keyMatrix, down, sent, newest, back>>

\* server_add_key: a key that is pressed while nothing waits is due at once.
ServerAddKey ==
  /\ toWorker # <<>>
  /\ toWorker' = Tail(toWorker)
  /\ keyEvents' = Append(keyEvents, Head(toWorker))
  /\ wait' = IF keyEvents = <<>> /\ Head(toWorker).pressed THEN 0 ELSE wait
  /\ UNCHANGED <<clock, keyMatrix, down, sent, newest, back>>

\* Are the keys from the i-th to the j-th all released?
Released(i, j) == \A l \in i .. j : ~ keyEvents[l].pressed

\* The keys that are down once KEYBOARD_AddKey was called for the first n: of the
\* events of a key the last one counts, and a key that is down is not alone any
\* more when another one goes down after it.
AddKeys(n) ==
  [k \in Key |->
     LET mine == {i \in 1 .. n : keyEvents[i].key = k}
         last == CHOOSE i \in mine : \A j \in mine : j <= i
     IN  IF mine = {}
           THEN IF down[k] = Up THEN Up ELSE [down[k] EXCEPT !.alone = @ /\ Released(1, n)]
           ELSE IF keyEvents[last].pressed
                  THEN [age |-> 0, time |-> keyEvents[last].time, alone |-> Released(last + 1, n)]
                  ELSE Up]

\* Are the first n keys all due, when the first one is?
Together(n) == \A i \in 1 .. n : keyEvents[i].time = keyEvents[1].time

\* Mutant: the difference of the two times is taken the other way round.
DoKeyEventsSwapped ==
  \E n \in 1 .. Len(keyEvents) :
    /\ wait = 0
    /\ Together(n)
    /\ n < Len(keyEvents) => ~ Together(n + 1)
    /\ down' = AddKeys(n)
    /\ keyEvents' = SubSeq(keyEvents, n + 1, Len(keyEvents))
    /\ wait' = IF n = Len(keyEvents) THEN Hold
               ELSE (keyEvents[n].time - keyEvents[n + 1].time) % Width
    /\ UNCHANGED <<clock, keyMatrix, toWorker, sent, newest, back>>

\* DoKeyEvents: after a key the next one is due as much later as the client saw
\* it later, computed without a sign; after the last one, Hold later.
DoKeyEvents ==
  \E n \in 1 .. Len(keyEvents) :
    /\ wait = 0
    /\ Together(n)
    /\ n < Len(keyEvents) => ~ Together(n + 1)
    /\ down' = AddKeys(n)
    /\ keyEvents' = SubSeq(keyEvents, n + 1, Len(keyEvents))
    /\ wait' = IF n = Len(keyEvents) THEN Hold
               ELSE (keyEvents[n + 1].time - keyEvents[n].time) % Width
    /\ UNCHANGED <<clock, keyMatrix, toWorker, sent, newest, back>>

\* A millisecond passes.  Half of 2^64 milliseconds never do.
Pass ==
  /\ clock' = Min2(clock + 1, MaxTime)
  /\ wait' = IF wait > Width \div 2 THEN wait ELSE Max2(wait - 1, 0)
  /\ down' = [k \in Key |-> IF down[k] = Up THEN Up
                            ELSE [down[k] EXCEPT !.age = Min2(@ + 1, Hold)]]
  /\ UNCHANGED <<keyMatrix, toWorker, keyEvents, sent, newest, back>>

Next ==
  \/ \E k \in Key, pressed \in BOOLEAN : SendKeyEvent(k, pressed)
  \/ \E k \in Key : SimulateKeyPress(k)
  \/ ServerAddKey
  \/ DoKeyEvents
  \/ Pass

Spec == Init /\ [][Next]_vars

\* Messages are handled, the machine looks at its queue again and again, and time
\* passes.
Fairness == WF_vars(ServerAddKey) /\ WF_vars(DoKeyEvents) /\ WF_vars(Pass)

LiveSpec == Spec /\ Fairness

----------------------------------------------------------------------------
(* Properties.                                                              *)

Event == [key : Key, pressed : BOOLEAN, time : 0 .. MaxTime + Hold]

\* Do the presses and releases of k in a queue take turns, from a state in which
\* k is down, or not, to another one?
TakesTurns(k, q, before, after) ==
  LET mine == {i \in DOMAIN q : q[i].key = k}
  IN  /\ mine = {} => (after <=> before)
      /\ \A i \in mine : (\A j \in mine : i <= j) => (q[i].pressed <=> ~ before)
      /\ \A i \in mine : (\A j \in mine : j <= i) => (q[i].pressed <=> after)
      /\ \A i, j \in mine :
           i < j /\ (\A l \in mine : l <= i \/ j <= l) => (q[j].pressed <=> ~ q[i].pressed)

\* The type invariant; for every key presses and releases take turns, from what
\* the programs see now to what the client's matrix says.
TypeOK ==
  /\ clock \in 0 .. MaxTime
  /\ keyMatrix \in [Key -> BOOLEAN]
  /\ toWorker \in Seq(Event)
  /\ keyEvents \in Seq(Event)
  /\ wait \in 0 .. Width - 1
  /\ down \in [Key -> Down \cup {Up}]
  /\ sent \in 0 .. MaxSent
  /\ newest \in 0 .. MaxTime + Hold
  /\ back \in BOOLEAN
  /\ \A k \in Key : TakesTurns(k, keyEvents \o toWorker, down[k] # Up, keyMatrix[k])

\* A key that is pressed and released with no other in between is down for as
\* long as the client saw it, or for 16 ms at least, however late the machine
\* takes the two and however they are spread over messages: a program that looks
\* at the keyboard once a frame sees it.
PressesAreHeld ==
  [][\A k \in Key, i \in DOMAIN keyEvents :
       /\ down[k] # Up /\ down'[k] = Up
       /\ keyEvents[i].key = k
       /\ down[k].alone /\ \A j \in 1 .. i : ~ keyEvents[j].pressed
       => down[k].age >= Min2(Hold, keyEvents[i].time - down[k].time)]_vars

\* Every key arrives, unless the client sent one with a time before that of the
\* one sent before it: the difference of the two then is nearly 2^64 ms, and
\* neither it nor any key after it is ever due.
KeysGetThrough == toWorker \o keyEvents # <<>> ~> (toWorker \o keyEvents = <<>> \/ back)

============================================================================
