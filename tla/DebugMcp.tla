------------------------------ MODULE DebugMcp ------------------------------
(***************************************************************************)
(* The control client of the debugger (native/jsdos/jsdos-debug-mcp.cpp):   *)
(* it connects to a controller, takes requests, one to a line, executes     *)
(* them when the emulator polls, and sends the answers back.  When the      *)
(* connection is lost, what is queued in either direction stays, and a      *)
(* timer connects again.                                                    *)
(*                                                                         *)
(* The lines of the controller are numbered in the order in which it starts *)
(* them; a frame holds pieces of lines, not whole ones.  An answer is named *)
(* by the line it answers.  What a request does to the machine, and the     *)
(* output of it that is captured for the answer, are left out.              *)
(***************************************************************************)
EXTENDS Naturals, Sequences, SequencesExt

CONSTANTS
  MaxIncoming,  \* MAX_INCOMING_MESSAGES
  MaxOutgoing,  \* MAX_OUTGOING_MESSAGES
  MaxBuffer,    \* MAX_RECEIVE_BUFFER, in pieces of a line
  MaxLines      \* bound of the model: lines that the controller starts

ASSUME DebugAssumption ==
  /\ MaxIncoming \in Nat \ {0}
  /\ MaxOutgoing \in Nat \ {0}
  /\ MaxBuffer \in Nat \ {0}
  /\ MaxLines \in Nat

VARIABLES
  running,      \* g_running
  socket,       \* g_socket: "none", "connecting" or "open"
  connected,    \* g_connected
  scheduled,    \* g_reconnect_scheduled
  timers,       \* calls of Reconnect that are pending
  buffer,       \* g_receive_buffer: for each piece, the line it belongs to
  incoming,     \* g_incoming: lines, as the pieces they were put together from
  outgoing,     \* g_outgoing: the lines answered, or Event
  line,         \* the controller: the line it is in the middle of, or 0
  made,         \* the controller: lines started
  sent          \* history: the lines whose answers were handed to the socket

conn == <<socket, connected, scheduled, timers, buffer, line>>
vars == <<running, conn, incoming, outgoing, made, sent>>

Event == 0

Init ==
  /\ running = FALSE
  /\ socket = "none"
  /\ connected = FALSE
  /\ scheduled = FALSE
  /\ timers = 0
  /\ buffer = <<>>
  /\ incoming = <<>>
  /\ outgoing = <<>>
  /\ line = 0
  /\ made = 0
  /\ sent = {}

----------------------------------------------------------------------------
(* The connection.                                                          *)

ScheduleReconnect ==
  IF running /\ ~ scheduled
    THEN scheduled' = TRUE /\ timers' = timers + 1
    ELSE UNCHANGED <<scheduled, timers>>

\* Mutant: the receive buffer survives its connection.
DropKeepingBuffer ==
  /\ socket' = "none"
  /\ connected' = FALSE
  /\ line' = 0
  /\ UNCHANGED buffer

\* CloseSocket up to its last line: the controller drops its half line, too.
Drop ==
  /\ socket' = "none"
  /\ connected' = FALSE
  /\ buffer' = <<>>
  /\ line' = 0

CloseSocket == Drop /\ ScheduleReconnect

\* Connect: the socket may not be created, or not take its callbacks; then the
\* timer is set.  The timer that runs Connect is done before: `left` are the others.
Connect(flag, left) ==
  \/ /\ socket' = "connecting"
     /\ scheduled' = flag
     /\ timers' = left
  \/ /\ scheduled' = TRUE
     /\ timers' = (IF flag THEN left ELSE left + 1)
     /\ UNCHANGED socket

\* Mutant: the timer does not say that it is done.
ReconnectKeepingFlag ==
  /\ timers > 0
  /\ IF running /\ socket = "none"
       THEN Connect(scheduled, timers - 1)
       ELSE timers' = timers - 1 /\ UNCHANGED <<socket, scheduled>>
  /\ UNCHANGED <<running, connected, buffer, line, incoming, outgoing, made, sent>>

Reconnect ==
  /\ timers > 0
  /\ IF running /\ socket = "none"
       THEN Connect(FALSE, timers - 1)
       ELSE scheduled' = FALSE /\ timers' = timers - 1 /\ UNCHANGED socket
  /\ UNCHANGED <<running, connected, buffer, line, incoming, outgoing, made, sent>>

\* ControlServer_Start.
Start ==
  /\ ~ running
  /\ running' = TRUE
  /\ incoming' = <<>>
  /\ outgoing' = <<>>
  /\ buffer' = <<>>
  /\ Connect(scheduled, timers)
  /\ UNCHANGED <<connected, line, made, sent>>

\* ControlServer_Stop; a timer that is set stays.
Stop ==
  /\ running
  /\ running' = FALSE
  /\ Drop
  /\ incoming' = <<>>
  /\ outgoing' = <<>>
  /\ UNCHANGED <<scheduled, timers, made, sent>>

\* OnError and OnClose.
OnClose ==
  /\ socket # "none"
  /\ CloseSocket
  /\ UNCHANGED <<running, incoming, outgoing, made, sent>>

----------------------------------------------------------------------------
(* Sending.                                                                 *)

\* The lines answered by the first n messages of a queue.
Answers(queue, n) == {queue[i] : i \in 1 .. n} \ {Event}

\* Mutant: a message leaves the queue before it is sent, and returns to its end.
FlushRequeued(queue) ==
  \E n \in 0 .. Len(queue) :
    /\ outgoing' = (IF n = Len(queue) THEN <<>>
                    ELSE Append(SubSeq(queue, n + 2, Len(queue)), queue[n + 1]))
    /\ sent' = sent \cup Answers(queue, n)
    /\ IF n = Len(queue)
         THEN socket' = "open" /\ connected' = TRUE /\ UNCHANGED <<scheduled, timers, buffer, line>>
         ELSE CloseSocket

\* FlushOutgoing over a connection: the first n messages are taken by the socket,
\* and the next one is not; it stays, and the connection is given up.
Flush(queue) ==
  \E n \in 0 .. Len(queue) :
    /\ outgoing' = SubSeq(queue, n + 1, Len(queue))
    /\ sent' = sent \cup Answers(queue, n)
    /\ IF n = Len(queue)
         THEN socket' = "open" /\ connected' = TRUE /\ UNCHANGED <<scheduled, timers, buffer, line>>
         ELSE CloseSocket

\* Mutant: what waited is sent with the next message.
OnOpenQuiet ==
  /\ socket = "connecting"
  /\ socket' = "open"
  /\ connected' = TRUE
  /\ UNCHANGED <<running, scheduled, timers, buffer, line, incoming, outgoing, made, sent>>

OnOpen ==
  /\ socket = "connecting"
  /\ Flush(outgoing)
  /\ UNCHANGED <<running, incoming, made>>

\* ControlServer_Send; at the limit the oldest message goes.
Send(m) ==
  LET kept  == IF Len(outgoing) >= MaxOutgoing THEN Tail(outgoing) ELSE outgoing
      queue == Append(kept, m)
  IN  IF connected THEN Flush(queue)
      ELSE outgoing' = queue /\ UNCHANGED <<conn, sent>>

\* ControlServer_SendEvent.
SendEvent ==
  /\ running
  /\ Send(Event)
  /\ UNCHANGED <<running, incoming, made>>

----------------------------------------------------------------------------
(* Receiving.                                                               *)

QueueIncoming(l) ==
  Append(IF Len(incoming) >= MaxIncoming THEN Tail(incoming) ELSE incoming, l)

\* OnMessage and ProcessReceiveBuffer.  A frame goes on with the line the
\* controller is in, or starts one; it ends that line, or begins another after
\* it, or does neither.
OnMessage(ends, begins) ==
  LET current == IF line = 0 THEN made + 1 ELSE line
      last    == IF ends /\ begins THEN current + 1 ELSE current
      size    == IF ends /\ begins THEN 2 ELSE 1
  IN  /\ socket = "open"
      /\ begins => ends
      /\ last <= MaxLines
      /\ made' = (IF last > made THEN last ELSE made)
      /\ IF Len(buffer) + size > MaxBuffer
           THEN CloseSocket /\ UNCHANGED incoming
           ELSE /\ line' = (IF ends /\ ~ begins THEN 0 ELSE last)
                /\ incoming' = (IF ends THEN QueueIncoming(Append(buffer, current)) ELSE incoming)
                /\ buffer' = (IF ~ ends THEN Append(buffer, current)
                              ELSE IF begins THEN <<last>> ELSE <<>>)
                /\ UNCHANGED <<socket, connected, scheduled, timers>>
      /\ UNCHANGED <<running, outgoing, sent>>

\* OnMessage: a frame that is not text.
OnBinary ==
  /\ socket = "open"
  /\ CloseSocket
  /\ UNCHANGED <<running, incoming, outgoing, made, sent>>

\* Mutant: the last line received is executed first.
PollNewest ==
  /\ running
  /\ incoming # <<>>
  /\ incoming' = Front(incoming)
  /\ Send(Last(Last(incoming)))
  /\ UNCHANGED <<running, made>>

\* One round of ControlServer_Poll: a request is answered, well formed or not.
\* A debugger command may let the machine sleep, and events come in between.
Poll ==
  /\ running
  /\ incoming # <<>>
  /\ incoming' = Tail(incoming)
  /\ Send(Last(Head(incoming)))
  /\ UNCHANGED <<running, made>>

Next ==
  \/ Start
  \/ Stop
  \/ Reconnect
  \/ OnOpen
  \/ OnClose
  \/ OnBinary
  \/ \E ends, begins \in BOOLEAN : OnMessage(ends, begins)
  \/ Poll
  \/ SendEvent

Spec == Init /\ [][Next]_vars

\* The timer fires; a socket that is asked for is opened or fails, and of
\* endless tries one succeeds.  Nobody has to start, stop or send.
Fairness ==
  /\ WF_vars(Reconnect)
  /\ SF_vars(Reconnect /\ socket' = "connecting")
  /\ SF_vars(OnOpen /\ connected')

LiveSpec == Spec /\ Fairness

----------------------------------------------------------------------------
(* Properties.                                                              *)

\* The type invariant; a connection is one of an open socket, a timer is set
\* exactly when the flag says so, and a stopped client holds nothing.
TypeOK ==
  /\ running \in BOOLEAN
  /\ socket \in {"none", "connecting", "open"}
  /\ connected = (socket = "open")
  /\ scheduled \in BOOLEAN
  /\ timers = (IF scheduled THEN 1 ELSE 0)
  /\ buffer \in Seq(1 .. MaxLines)
  /\ incoming \in Seq(Seq(1 .. MaxLines))
  /\ outgoing \in Seq(0 .. MaxLines)
  /\ line \in 0 .. MaxLines
  /\ made \in 0 .. MaxLines
  /\ sent \subseteq 1 .. MaxLines
  /\ Len(buffer) <= MaxBuffer
  /\ Len(incoming) <= MaxIncoming
  /\ Len(outgoing) <= MaxOutgoing
  /\ running \/ (socket = "none" /\ incoming = <<>> /\ outgoing = <<>>)

Whole(l) == \A i, j \in DOMAIN l : l[i] = l[j]

\* A request that is executed is a line the controller sent over one connection:
\* what a lost connection left in the buffer is never put in front of the first
\* line of the next one, where the two might read as another command.
WholeRequests == \A i \in DOMAIN incoming : Whole(incoming[i])

\* Answers are sent in the order of the requests and none twice, whichever
\* connections are lost while answers are queued and flushed: one that waits is
\* later than every answer that was sent and every one that waits before it.  A
\* controller matches answers to requests by reading them in turn.
AnswersInOrder ==
  \A i \in DOMAIN outgoing : outgoing[i] # Event =>
    /\ \A l \in sent : l < outgoing[i]
    /\ \A j \in 1 .. i - 1 : outgoing[j] < outgoing[i]

\* While the client runs there is always something that goes on: a socket, or a
\* timer that will make one; and over an open connection nothing waits in the
\* queue for a later message to push it out.
NeverStranded ==
  /\ running /\ socket = "none" => timers > 0
  /\ connected => outgoing = <<>>

\* A client that runs is connected in the end, however often sockets fail and
\* whether the timer was set before or after it was stopped and started again.
Connects == running ~> (connected \/ ~ running)

============================================================================
