--------------------------- MODULE DebugMcpProofs ---------------------------
(* Theorems about DebugMcp, for every limit of the queues and of the buffer.  *)
EXTENDS DebugMcp, TLAPS

----------------------------------------------------------------------------
(* The inductive invariant.                                                  *)

Line == 1 .. MaxLines

\* The line that the next piece belongs to.
Frontier == IF line = 0 THEN made + 1 ELSE line

\* The controller is in the line it started last, and that line is in the buffer.
LineInv ==
  /\ line # 0 => line = made
  /\ \A i \in DOMAIN buffer : buffer[i] = line

\* Requests wait in the order of their lines, and all are before the frontier.
RequestsInOrder ==
  /\ \A j \in DOMAIN incoming : incoming[j] # <<>> /\ Whole(incoming[j]) /\ incoming[j][1] < Frontier
  /\ \A j, k \in DOMAIN incoming : j < k => incoming[j][1] < incoming[k][1]

\* All of a queue and a set are before the number n.
Before(queue, S, n) == (\A i \in DOMAIN queue : queue[i] < n) /\ (\A l \in S : l < n)

\* What was answered is before what waits to be executed, and before the frontier.
AnsweredFirst ==
  /\ Before(outgoing, sent, Frontier)
  /\ \A j \in DOMAIN incoming : Before(outgoing, sent, incoming[j][1])

\* The part of the invariant that is about the connection.
ConnInv ==
  /\ socket \in {"none", "connecting", "open"}
  /\ connected = (socket = "open")
  /\ scheduled \in BOOLEAN
  /\ timers = (IF scheduled THEN 1 ELSE 0)
  /\ buffer \in Seq(Line) /\ Len(buffer) <= MaxBuffer
  /\ line \in 0 .. MaxLines /\ made \in 0 .. MaxLines
  /\ LineInv
  /\ running \in BOOLEAN
  /\ running \/ socket = "none"
  /\ running /\ socket = "none" => timers > 0

\* The part of it that is about the queues.
QueueInv ==
  /\ incoming \in Seq(Seq(Line)) /\ Len(incoming) <= MaxIncoming
  /\ outgoing \in Seq(0 .. MaxLines) /\ Len(outgoing) <= MaxOutgoing
  /\ sent \in SUBSET Line
  /\ RequestsInOrder
  /\ AnsweredFirst
  /\ AnswersInOrder
  /\ running \/ (incoming = <<>> /\ outgoing = <<>>)
  /\ connected => outgoing = <<>>

IInv == ConnInv /\ QueueInv

\* The invariant implies what the runs check.
LEMMA Implied ==
  IInv => TypeOK /\ WholeRequests /\ AnswersInOrder /\ NeverStranded
<1> SUFFICES ASSUME IInv PROVE TypeOK /\ WholeRequests /\ AnswersInOrder /\ NeverStranded
  OBVIOUS
<1>1. TypeOK
  BY DEF IInv, ConnInv, QueueInv, TypeOK, Line
<1>2. WholeRequests
  BY DEF IInv, QueueInv, RequestsInOrder, WholeRequests
<1>3. AnswersInOrder
  BY DEF IInv, QueueInv
<1>4. NeverStranded
  BY DEF IInv, ConnInv, QueueInv, NeverStranded
<1> QED BY <1>1, <1>2, <1>3, <1>4

----------------------------------------------------------------------------
(* Facts about queues.                                                       *)

\* A queue of answers in which each is later than those before it and those of S.
Sorted(queue, S) ==
  \A i \in DOMAIN queue : queue[i] # Event =>
    /\ \A l \in S : l < queue[i]
    /\ \A j \in 1 .. i - 1 : queue[j] < queue[i]

\* A part of a queue from one of its places to its end.
LEMMA Rest ==
  ASSUME NEW S, NEW q \in Seq(S), NEW n \in 0 .. Len(q)
  PROVE  /\ SubSeq(q, n + 1, Len(q)) \in Seq(S)
         /\ Len(SubSeq(q, n + 1, Len(q))) = Len(q) - n
         /\ \A i \in 1 .. Len(q) - n : SubSeq(q, n + 1, Len(q))[i] = q[i + n]
OBVIOUS

\* Sending the first messages of a sorted queue leaves a sorted one.
LEMMA FlushSorted ==
  ASSUME NEW q \in Seq(0 .. MaxLines), NEW S \in SUBSET Line, Sorted(q, S),
         NEW n \in 0 .. Len(q), MaxLines \in Nat
  PROVE  /\ SubSeq(q, n + 1, Len(q)) \in Seq(0 .. MaxLines)
         /\ Len(SubSeq(q, n + 1, Len(q))) = Len(q) - n
         /\ S \cup Answers(q, n) \in SUBSET Line
         /\ Sorted(SubSeq(q, n + 1, Len(q)), S \cup Answers(q, n))
         /\ \A b \in Nat : Before(q, S, b) =>
              Before(SubSeq(q, n + 1, Len(q)), S \cup Answers(q, n), b)
<1> DEFINE rest == SubSeq(q, n + 1, Len(q))
<1>1. /\ rest \in Seq(0 .. MaxLines)
      /\ Len(rest) = Len(q) - n
      /\ \A i \in 1 .. Len(q) - n : rest[i] = q[i + n]
      /\ DOMAIN rest = 1 .. Len(q) - n
      /\ Len(q) \in Nat /\ DOMAIN q = 1 .. Len(q)
  BY Rest
<1> HIDE DEF rest
<1>2. \A i \in 1 .. n : i \in DOMAIN q /\ q[i] \in 0 .. MaxLines
  OBVIOUS
<1>3. S \cup Answers(q, n) \in SUBSET Line
  <2>1. \A x \in Answers(q, n) : x \in 0 .. MaxLines /\ x # 0
    BY <1>2 DEF Answers, Event
  <2>2. \A x \in 0 .. MaxLines : x # 0 => x \in Line
    BY DEF Line
  <2> QED BY <2>1, <2>2
<1>4. \A i \in DOMAIN rest : i \in 1 .. Len(q) - n /\ i + n \in DOMAIN q /\ rest[i] = q[i + n]
  <2>1. \A i \in 1 .. Len(q) - n : i + n \in 1 .. Len(q)
    OBVIOUS
  <2> QED BY <1>1, <2>1
<1>5. Sorted(rest, S \cup Answers(q, n))
  <2> SUFFICES ASSUME NEW i \in DOMAIN rest, rest[i] # Event
               PROVE  /\ \A l \in S \cup Answers(q, n) : l < rest[i]
                      /\ \A j \in 1 .. i - 1 : rest[j] < rest[i]
    BY DEF Sorted
  <2>1. i + n \in DOMAIN q /\ rest[i] = q[i + n] /\ i \in 1 .. Len(q) - n
    BY <1>4
  <2>2. \A l \in S : l < rest[i]
    BY <2>1 DEF Sorted
  <2>3. \A k \in 1 .. n : q[k] < rest[i]
    BY SMTT(30), <2>1 DEF Sorted
  <2>4. \A j \in 1 .. i - 1 : rest[j] < rest[i]
    <3> SUFFICES ASSUME NEW j \in 1 .. i - 1 PROVE rest[j] < rest[i]
      OBVIOUS
    <3>1. j \in 1 .. Len(q) - n /\ j + n \in 1 .. (i + n) - 1
      BY SMTT(30), <2>1
    <3>2. rest[j] = q[j + n]
      BY <3>1, <1>1
    <3> QED BY <3>1, <3>2, <2>1 DEF Sorted
  <2> QED BY <2>2, <2>3, <2>4 DEF Answers
<1>6. ASSUME NEW b \in Nat, Before(q, S, b) PROVE Before(rest, S \cup Answers(q, n), b)
  <2>1. \A i \in DOMAIN rest : i + n \in DOMAIN q /\ rest[i] = q[i + n]
    BY <1>4
  <2>2. \A k \in 1 .. n : k \in DOMAIN q
    OBVIOUS
  <2> QED BY <2>1, <2>2, <1>6 DEF Before, Answers
<1> QED BY <1>1, <1>3, <1>5, <1>6 DEF rest

\* Leaving out the head of a queue keeps what is said of it.
LEMMA TailSorted ==
  ASSUME NEW q \in Seq(0 .. MaxLines), NEW S \in SUBSET Line, q # <<>>, Sorted(q, S)
  PROVE  /\ Sorted(Tail(q), S)
         /\ \A b \in Nat : Before(q, S, b) => Before(Tail(q), S, b)
<1>1. /\ Tail(q) \in Seq(0 .. MaxLines)
      /\ \A i \in DOMAIN Tail(q) : i + 1 \in DOMAIN q /\ Tail(q)[i] = q[i + 1]
  OBVIOUS
<1>2. ASSUME NEW i \in DOMAIN Tail(q), Tail(q)[i] # Event
      PROVE  /\ \A l \in S : l < Tail(q)[i]
             /\ \A j \in 1 .. i - 1 : Tail(q)[j] < Tail(q)[i]
  <2>1. i + 1 \in DOMAIN q /\ Tail(q)[i] = q[i + 1] /\ i \in Nat
    BY <1>1
  <2>2. \A j \in 1 .. i - 1 : j \in DOMAIN Tail(q) /\ j + 1 \in 1 .. (i + 1) - 1
    BY <2>1
  <2>3. \A j \in 1 .. i - 1 : Tail(q)[j] = q[j + 1]
    BY <2>2, <1>1
  <2> QED BY <2>1, <2>2, <2>3, <1>2 DEF Sorted
<1>3. Sorted(Tail(q), S)
  BY <1>2 DEF Sorted
<1>4. \A b \in Nat : Before(q, S, b) => Before(Tail(q), S, b)
  BY <1>1 DEF Before
<1> QED BY <1>3, <1>4

\* A message that is later than all others, or an event, is added at the end.
LEMMA AppendSorted ==
  ASSUME MaxLines \in Nat, NEW q \in Seq(0 .. MaxLines), NEW S \in SUBSET Line, Sorted(q, S),
         NEW m \in 0 .. MaxLines, m = Event \/ Before(q, S, m)
  PROVE  /\ Append(q, m) \in Seq(0 .. MaxLines)
         /\ Sorted(Append(q, m), S)
         /\ \A b \in Nat : Before(q, S, b) /\ m < b => Before(Append(q, m), S, b)
<1>1. /\ Append(q, m) \in Seq(0 .. MaxLines)
      /\ Len(Append(q, m)) = Len(q) + 1
      /\ \A i \in DOMAIN q : Append(q, m)[i] = q[i]
      /\ Append(q, m)[Len(q) + 1] = m
  OBVIOUS
<1>2. ASSUME NEW i \in DOMAIN Append(q, m), Append(q, m)[i] # Event
      PROVE  /\ \A l \in S : l < Append(q, m)[i]
             /\ \A j \in 1 .. i - 1 : Append(q, m)[j] < Append(q, m)[i]
  <2>1. \A j \in 1 .. i - 1 : j \in DOMAIN q /\ Append(q, m)[j] = q[j]
    BY <1>1
  <2>2. CASE i \in DOMAIN q
    BY <2>2, <2>1, <1>1, <1>2 DEF Sorted
  <2>3. CASE i = Len(q) + 1
    BY <2>3, <2>1, <1>1, <1>2 DEF Before
  <2> QED BY <2>2, <2>3, <1>1
<1>3. \A i \in DOMAIN Append(q, m) : i \in DOMAIN q \/ i = Len(q) + 1
  BY <1>1
<1> QED BY <1>1, <1>2, <1>3 DEF Sorted, Before

----------------------------------------------------------------------------
(* The connection.                                                           *)

\* Dropping a connection; nothing that is before the frontier gets after it.
LEMMA DropStep ==
  ASSUME DebugAssumption, ConnInv, Drop, made' \in 0 .. MaxLines, made <= made'
  PROVE  /\ socket' = "none" /\ connected' = FALSE /\ line' = 0
         /\ buffer' \in Seq(Line) /\ Len(buffer') <= MaxBuffer
         /\ LineInv'
         /\ Frontier' \in Nat /\ Frontier \in Nat /\ Frontier <= Frontier'
<1>1. buffer' = <<>> /\ line' = 0 /\ socket' = "none" /\ connected' = FALSE
  BY DEF Drop
<1>2. LineInv' /\ buffer' \in Seq(Line) /\ Len(buffer') <= MaxBuffer
  BY <1>1 DEF LineInv, DebugAssumption
<1>3. Frontier' = made' + 1
  BY <1>1 DEF Frontier
<1>4. Frontier \in Nat /\ Frontier <= made + 1
  <2>1. CASE line = 0
    BY <2>1 DEF Frontier, ConnInv, DebugAssumption
  <2>2. CASE line # 0
    BY <2>2 DEF Frontier, ConnInv, LineInv, DebugAssumption
  <2> QED BY <2>1, <2>2
<1>5. Frontier' \in Nat /\ Frontier <= Frontier'
  <2>1. made \in Nat /\ made' \in Nat /\ made <= made'
    BY DEF ConnInv, DebugAssumption
  <2>2. ASSUME NEW a \in Nat, NEW b \in Nat, NEW f \in Nat, a <= b, f <= a + 1
        PROVE  b + 1 \in Nat /\ f <= b + 1
    BY <2>2
  <2>3. made' + 1 \in Nat /\ Frontier <= made' + 1
    BY <1>4, <2>1, <2>2
  <2> QED BY <1>3, <2>3
<1> QED BY <1>1, <1>2, <1>4, <1>5

\* A client that runs and closes its socket has a timer.
LEMMA CloseStep ==
  ASSUME DebugAssumption, ConnInv, CloseSocket, running, running' = running,
         made' \in 0 .. MaxLines, made <= made'
  PROVE  /\ ConnInv'
         /\ connected' = FALSE
         /\ Frontier' \in Nat /\ Frontier \in Nat /\ Frontier <= Frontier'
<1>1. Drop /\ ScheduleReconnect
  BY DEF CloseSocket
<1>2. /\ scheduled' = TRUE
      /\ timers' = 1
  BY <1>1 DEF ScheduleReconnect, ConnInv
<1>3. /\ socket' = "none" /\ connected' = FALSE /\ line' = 0
      /\ buffer' \in Seq(Line) /\ Len(buffer') <= MaxBuffer
      /\ LineInv'
      /\ Frontier' \in Nat /\ Frontier \in Nat /\ Frontier <= Frontier'
  BY <1>1, DropStep
<1>4. /\ socket' \in {"none", "connecting", "open"}
      /\ connected' = (socket' = "open")
      /\ scheduled' \in BOOLEAN
      /\ timers' = (IF scheduled' THEN 1 ELSE 0)
  BY <1>2, <1>3
<1>5. line' \in 0 .. MaxLines /\ made' \in 0 .. MaxLines
  BY <1>3 DEF DebugAssumption
<1>6. /\ running' \in BOOLEAN
      /\ running' \/ socket' = "none"
      /\ running' /\ socket' = "none" => timers' > 0
  BY <1>2, <1>3
<1>7. ConnInv'
  BY <1>3, <1>4, <1>5, <1>6 DEF ConnInv
<1> QED BY <1>3, <1>7

\* Connecting, by the timer or by a start, leaves a socket or a timer.
LEMMA ConnectStep ==
  ASSUME DebugAssumption, NEW flag \in BOOLEAN, NEW left, left = (IF flag THEN 1 ELSE 0),
         socket = "none", Connect(flag, left)
  PROVE  /\ socket' \in {"none", "connecting"}
         /\ scheduled' \in BOOLEAN
         /\ timers' = (IF scheduled' THEN 1 ELSE 0)
         /\ socket' = "none" => timers' > 0
<1>1. CASE socket' = "connecting" /\ scheduled' = flag /\ timers' = left
  BY <1>1
<1>2. CASE scheduled' = TRUE /\ timers' = (IF flag THEN left ELSE left + 1) /\ UNCHANGED socket
  BY <1>2
<1> QED BY <1>1, <1>2 DEF Connect

\* Flushing keeps the order of what waits, and what was sent before it.
LEMMA FlushStep ==
  ASSUME DebugAssumption, ConnInv, running, running' = running, made' = made,
         sent \in SUBSET Line,
         NEW q \in Seq(0 .. MaxLines), Len(q) <= MaxOutgoing, Sorted(q, sent),
         socket # "none", Flush(q)
  PROVE  /\ ConnInv'
         /\ outgoing' \in Seq(0 .. MaxLines) /\ Len(outgoing') <= MaxOutgoing
         /\ sent' \in SUBSET Line
         /\ Sorted(outgoing', sent')
         /\ connected' => outgoing' = <<>>
         /\ \A b \in Nat : Before(q, sent, b) => Before(outgoing', sent', b)
         /\ Frontier' \in Nat /\ Frontier \in Nat /\ Frontier <= Frontier'
<1>1. PICK n \in 0 .. Len(q) :
        /\ outgoing' = SubSeq(q, n + 1, Len(q))
        /\ sent' = sent \cup Answers(q, n)
        /\ IF n = Len(q)
             THEN socket' = "open" /\ connected' = TRUE /\ UNCHANGED <<scheduled, timers, buffer, line>>
             ELSE CloseSocket
  BY DEF Flush
<1>2. MaxLines \in Nat /\ MaxOutgoing \in Nat
  BY DEF DebugAssumption
<1>3. /\ outgoing' \in Seq(0 .. MaxLines)
      /\ Len(outgoing') = Len(q) - n
      /\ sent' \in SUBSET Line
      /\ Sorted(outgoing', sent')
      /\ \A b \in Nat : Before(q, sent, b) => Before(outgoing', sent', b)
  BY <1>1, <1>2, FlushSorted
<1>4. Len(outgoing') <= MaxOutgoing
  BY <1>3, <1>2
<1>5. CASE n = Len(q)
  <2>1. socket' = "open" /\ connected' = TRUE /\ UNCHANGED <<scheduled, timers, buffer, line>>
    BY <1>1, <1>5
  <2>2. LineInv' /\ Frontier' = Frontier
    BY <2>1 DEF LineInv, Frontier, ConnInv
  <2>3. Frontier \in Nat
    BY DEF Frontier, ConnInv
  <2>4. ConnInv'
    BY <2>1, <2>2 DEF ConnInv
  <2>5. outgoing' = <<>>
    BY <1>3, <1>5
  <2> QED BY <1>3, <1>4, <2>2, <2>3, <2>4, <2>5
<1>6. CASE n # Len(q)
  <2>1. CloseSocket
    BY <1>1, <1>6
  <2>2. made' \in 0 .. MaxLines /\ made <= made'
    BY DEF ConnInv
  <2>3. /\ ConnInv'
        /\ connected' = FALSE
        /\ Frontier' \in Nat /\ Frontier \in Nat /\ Frontier <= Frontier'
    BY <2>1, <2>2, CloseStep
  <2> QED BY <1>3, <1>4, <2>3
<1> QED BY <1>5, <1>6

\* Sending a message that is later than all others, or an event.
LEMMA SendStep ==
  ASSUME DebugAssumption, IInv, running, running' = running, made' = made,
         NEW m \in 0 .. MaxLines, m = Event \/ Before(outgoing, sent, m), Send(m)
  PROVE  /\ ConnInv'
         /\ outgoing' \in Seq(0 .. MaxLines) /\ Len(outgoing') <= MaxOutgoing
         /\ sent' \in SUBSET Line
         /\ Sorted(outgoing', sent')
         /\ connected' => outgoing' = <<>>
         /\ \A b \in Nat : Before(outgoing, sent, b) /\ m < b => Before(outgoing', sent', b)
         /\ Frontier' \in Nat /\ Frontier \in Nat /\ Frontier <= Frontier'
<1> DEFINE kept == IF Len(outgoing) >= MaxOutgoing THEN Tail(outgoing) ELSE outgoing
           queue == Append(kept, m)
<1>1. /\ outgoing \in Seq(0 .. MaxLines) /\ Len(outgoing) \in Nat /\ Len(outgoing) <= MaxOutgoing
      /\ sent \in SUBSET Line
      /\ Sorted(outgoing, sent)
      /\ MaxOutgoing \in Nat \ {0} /\ MaxLines \in Nat
  BY DEF IInv, QueueInv, AnswersInOrder, Sorted, DebugAssumption
<1>2. /\ kept \in Seq(0 .. MaxLines) /\ Len(kept) \in Nat /\ Len(kept) < MaxOutgoing
      /\ Sorted(kept, sent)
      /\ \A b \in Nat : Before(outgoing, sent, b) => Before(kept, sent, b)
  <2>1. CASE Len(outgoing) >= MaxOutgoing
    <3>1. outgoing # <<>> /\ kept = Tail(outgoing)
      BY <1>1, <2>1
    <3>2. Tail(outgoing) \in Seq(0 .. MaxLines) /\ Len(Tail(outgoing)) = Len(outgoing) - 1
      BY <1>1, <3>1
    <3>3. Sorted(Tail(outgoing), sent) /\ \A b \in Nat : Before(outgoing, sent, b) => Before(Tail(outgoing), sent, b)
      BY <1>1, <3>1, TailSorted
    <3>4. Len(Tail(outgoing)) \in Nat /\ Len(Tail(outgoing)) < MaxOutgoing
      <4>1. Len(outgoing) >= 1
        BY <1>1, <2>1
      <4>2. ASSUME NEW a \in Nat, NEW b \in Nat, a <= b, a >= 1
            PROVE  a - 1 \in Nat /\ a - 1 < b
        BY <4>2
      <4> QED BY <3>2, <4>1, <4>2, <1>1
    <3> QED BY <3>1, <3>2, <3>3, <3>4
  <2>2. CASE ~ (Len(outgoing) >= MaxOutgoing)
    BY <2>2, <1>1
  <2> QED BY <2>1, <2>2
<1> HIDE DEF kept
<1>3. m = Event \/ Before(kept, sent, m)
  BY <1>2, <1>1
<1>4. /\ queue \in Seq(0 .. MaxLines)
      /\ Sorted(queue, sent)
      /\ \A b \in Nat : Before(kept, sent, b) /\ m < b => Before(queue, sent, b)
  BY <1>1, <1>2, <1>3, AppendSorted
<1>5. Len(queue) <= MaxOutgoing
  <2>1. Len(queue) = Len(kept) + 1
    BY <1>2
  <2> QED BY <2>1, <1>2, <1>1
<1> HIDE DEF queue
<1>6. \A b \in Nat : Before(outgoing, sent, b) /\ m < b => Before(queue, sent, b)
  BY <1>2, <1>4
<1>7. IF connected THEN Flush(queue) ELSE outgoing' = queue /\ UNCHANGED <<conn, sent>>
  BY DEF Send, kept, queue
<1>8. ConnInv
  BY DEF IInv
<1>9. CASE connected
  <2>1. socket # "none"
    BY <1>8, <1>9 DEF ConnInv
  <2> QED BY <1>7, <1>9, <2>1, <1>8, <1>1, <1>4, <1>5, <1>6, FlushStep
<1>10. CASE ~ connected
  <2>1. outgoing' = queue /\ UNCHANGED <<socket, connected, scheduled, timers, buffer, line, sent>>
    BY <1>7, <1>10 DEF conn
  <2>2. ConnInv' /\ Frontier' = Frontier /\ Frontier \in Nat
    BY <2>1, <1>8 DEF ConnInv, LineInv, Frontier
  <2> QED BY <2>1, <2>2, <1>1, <1>4, <1>5, <1>6, <1>10
<1> QED BY <1>9, <1>10

----------------------------------------------------------------------------
(* The steps.                                                                *)

\* Nothing changes what is known of the queues when the frontier moves on.
LEMMA BeforeMore ==
  ASSUME MaxLines \in Nat, NEW q \in Seq(0 .. MaxLines), NEW S \in SUBSET Line,
         NEW a \in Nat, NEW b \in Nat, a <= b, Before(q, S, a)
  PROVE  Before(q, S, b)
<1>1. \A i \in DOMAIN q : q[i] \in Nat
  OBVIOUS
<1>2. \A l \in S : l \in Nat
  BY DEF Line
<1> QED BY <1>1, <1>2 DEF Before

\* The queue of requests stays, and what is answered or sent is no news.
LEMMA QueueStep ==
  ASSUME DebugAssumption, IInv, running' = running, running \/ outgoing' = <<>>,
         incoming' = incoming,
         outgoing' \in Seq(0 .. MaxLines), Len(outgoing') <= MaxOutgoing,
         sent' \in SUBSET Line, Sorted(outgoing', sent'), connected' => outgoing' = <<>>,
         \A b \in Nat : Before(outgoing, sent, b) /\ 0 < b => Before(outgoing', sent', b),
         Frontier' \in Nat, Frontier \in Nat, Frontier <= Frontier'
  PROVE  QueueInv'
<1>1. MaxLines \in Nat /\ Frontier > 0
  BY DEF DebugAssumption, Frontier, IInv, ConnInv
<1>2. /\ incoming \in Seq(Seq(Line)) /\ Len(incoming) <= MaxIncoming
      /\ RequestsInOrder /\ AnsweredFirst
      /\ running \/ incoming = <<>>
  BY DEF IInv, QueueInv
<1>3. \A j \in DOMAIN incoming : incoming[j] # <<>> /\ incoming[j] \in Seq(Line) /\ incoming[j][1] \in Nat /\ incoming[j][1] > 0
  <2> SUFFICES ASSUME NEW j \in DOMAIN incoming
               PROVE  incoming[j] # <<>> /\ incoming[j] \in Seq(Line) /\ incoming[j][1] \in Nat /\ incoming[j][1] > 0
    OBVIOUS
  <2>1. incoming[j] # <<>> /\ incoming[j] \in Seq(Line)
    BY <1>2 DEF RequestsInOrder
  <2>2. incoming[j][1] \in Line
    BY <2>1
  <2> QED BY <2>1, <2>2 DEF Line
<1>4. RequestsInOrder'
  BY <1>2, <1>3 DEF RequestsInOrder
<1>5. Before(outgoing', sent', Frontier')
  <2>1. Before(outgoing', sent', Frontier)
    BY <1>1, <1>2 DEF AnsweredFirst
  <2> QED BY <2>1, <1>1, BeforeMore
<1>6. \A j \in DOMAIN incoming : Before(outgoing', sent', incoming[j][1])
  BY <1>2, <1>3 DEF AnsweredFirst
<1>7. AnsweredFirst'
  BY <1>5, <1>6 DEF AnsweredFirst, Before
<1>8. AnswersInOrder'
  BY DEF AnswersInOrder, Sorted
<1> QED BY <1>2, <1>4, <1>7, <1>8 DEF QueueInv

\* Steps of the connection that leave the queues alone.
LEMMA SameQueues ==
  ASSUME DebugAssumption, IInv, ConnInv', UNCHANGED <<running, incoming, outgoing, sent>>,
         connected' => connected,
         Frontier' \in Nat, Frontier \in Nat, Frontier <= Frontier'
  PROVE  IInv'
<1>1. /\ outgoing' \in Seq(0 .. MaxLines) /\ Len(outgoing') <= MaxOutgoing
      /\ sent' \in SUBSET Line
      /\ Sorted(outgoing', sent')
      /\ connected' => outgoing' = <<>>
      /\ running \/ outgoing' = <<>>
  BY DEF IInv, QueueInv, AnswersInOrder, Sorted
<1>2. \A b \in Nat : Before(outgoing, sent, b) /\ 0 < b => Before(outgoing', sent', b)
  OBVIOUS
<1>3. QueueInv'
  BY <1>1, <1>2, QueueStep
<1> QED BY <1>3 DEF IInv

LEMMA StartStep ==
  ASSUME DebugAssumption, IInv, Start
  PROVE  IInv'
<1>1. /\ ~ running /\ running' = TRUE
      /\ incoming' = <<>> /\ outgoing' = <<>> /\ buffer' = <<>>
      /\ Connect(scheduled, timers)
      /\ UNCHANGED <<connected, line, made, sent>>
  BY DEF Start
<1>2. /\ socket = "none" /\ connected = FALSE
      /\ scheduled \in BOOLEAN /\ timers = (IF scheduled THEN 1 ELSE 0)
      /\ line \in 0 .. MaxLines /\ made \in 0 .. MaxLines
      /\ line # 0 => line = made
  BY <1>1 DEF IInv, ConnInv, LineInv
<1>3. /\ socket' \in {"none", "connecting"}
      /\ scheduled' \in BOOLEAN
      /\ timers' = (IF scheduled' THEN 1 ELSE 0)
      /\ socket' = "none" => timers' > 0
  BY <1>1, <1>2, ConnectStep
<1>4. LineInv' /\ Frontier' = Frontier /\ buffer' \in Seq(Line) /\ Len(buffer') <= MaxBuffer
  BY <1>1, <1>2 DEF LineInv, Frontier, DebugAssumption
<1>5. /\ socket' \in {"none", "connecting", "open"}
      /\ connected' = (socket' = "open")
  BY <1>1, <1>2, <1>3
<1>6. ConnInv'
  BY <1>1, <1>2, <1>3, <1>4, <1>5 DEF ConnInv
<1>7. sent' \in SUBSET Line /\ \A l \in sent' : l < Frontier'
  BY <1>1, <1>4 DEF IInv, QueueInv, AnsweredFirst, Before
<1>8. RequestsInOrder' /\ AnsweredFirst' /\ AnswersInOrder'
  BY <1>1, <1>7 DEF RequestsInOrder, AnsweredFirst, Before, AnswersInOrder
<1>9. QueueInv'
  BY <1>1, <1>7, <1>8 DEF QueueInv, DebugAssumption
<1> QED BY <1>6, <1>9 DEF IInv

LEMMA StopStep ==
  ASSUME DebugAssumption, IInv, Stop
  PROVE  IInv'
<1>1. /\ running' = FALSE
      /\ Drop
      /\ incoming' = <<>> /\ outgoing' = <<>>
      /\ UNCHANGED <<scheduled, timers, made, sent>>
  BY DEF Stop
<1>2. made' \in 0 .. MaxLines /\ made <= made' /\ ConnInv
  BY <1>1 DEF IInv, ConnInv, DebugAssumption
<1>3. /\ socket' = "none" /\ connected' = FALSE /\ line' = 0
      /\ buffer' \in Seq(Line) /\ Len(buffer') <= MaxBuffer
      /\ LineInv'
      /\ Frontier' \in Nat /\ Frontier \in Nat /\ Frontier <= Frontier'
  BY <1>1, <1>2, DropStep
<1>4. /\ scheduled' \in BOOLEAN
      /\ timers' = (IF scheduled' THEN 1 ELSE 0)
  BY <1>1, <1>2 DEF ConnInv
<1>5. line' \in 0 .. MaxLines
  BY <1>3 DEF DebugAssumption
<1>6. ConnInv'
  BY <1>1, <1>2, <1>3, <1>4, <1>5 DEF ConnInv
<1>7. sent' \in SUBSET Line /\ \A l \in sent' : l \in Nat /\ l < Frontier
  BY <1>1 DEF IInv, QueueInv, AnsweredFirst, Before, Line
<1>8. \A l \in sent' : l < Frontier'
  BY <1>7, <1>3
<1>9. RequestsInOrder' /\ AnsweredFirst' /\ AnswersInOrder'
  BY <1>1, <1>8 DEF RequestsInOrder, AnsweredFirst, Before, AnswersInOrder
<1>10. QueueInv'
  BY <1>1, <1>3, <1>7, <1>9 DEF QueueInv, DebugAssumption
<1> QED BY <1>6, <1>10 DEF IInv

LEMMA ReconnectStep ==
  ASSUME DebugAssumption, IInv, Reconnect
  PROVE  IInv'
<1>1. /\ timers > 0
      /\ UNCHANGED <<running, connected, buffer, line, incoming, outgoing, made, sent>>
  BY DEF Reconnect
<1>2. /\ ConnInv
      /\ scheduled = TRUE /\ timers = 1
  BY <1>1 DEF IInv, ConnInv
<1>3. LineInv' /\ Frontier' = Frontier /\ Frontier \in Nat
  BY <1>1, <1>2 DEF LineInv, Frontier, ConnInv
<1>4. /\ socket' \in {"none", "connecting", "open"}
      /\ connected' = (socket' = "open")
      /\ scheduled' \in BOOLEAN
      /\ timers' = (IF scheduled' THEN 1 ELSE 0)
      /\ running' \/ socket' = "none"
      /\ running' /\ socket' = "none" => timers' > 0
  <2>1. CASE running /\ socket = "none"
    <3>1. Connect(FALSE, timers - 1)
      BY <2>1 DEF Reconnect
    <3>2. /\ socket' \in {"none", "connecting"}
          /\ scheduled' \in BOOLEAN
          /\ timers' = (IF scheduled' THEN 1 ELSE 0)
          /\ socket' = "none" => timers' > 0
      <4>1. timers - 1 = (IF FALSE THEN 1 ELSE 0)
        BY <1>2
      <4> QED BY <3>1, <2>1, <4>1, ConnectStep
    <3>3. connected' = FALSE
      BY <1>1, <1>2, <2>1 DEF ConnInv
    <3> QED BY <3>2, <3>3, <2>1, <1>1
  <2>2. CASE ~ (running /\ socket = "none")
    <3>1. scheduled' = FALSE /\ timers' = timers - 1 /\ socket' = socket
      BY <2>2 DEF Reconnect
    <3>2. timers' = 0
      BY <3>1, <1>2
    <3> QED BY <3>1, <3>2, <2>2, <1>1, <1>2 DEF ConnInv
  <2> QED BY <2>1, <2>2
<1>5. ConnInv'
  BY <1>1, <1>2, <1>3, <1>4 DEF ConnInv
<1>6. Frontier' \in Nat /\ Frontier <= Frontier'
  BY <1>3
<1> QED BY <1>1, <1>3, <1>5, <1>6, SameQueues

\* A socket is closed by an error, or by a frame that is not text.
LEMMA ClosedStep ==
  ASSUME DebugAssumption, IInv, socket # "none", CloseSocket,
         UNCHANGED <<running, incoming, outgoing, made, sent>>
  PROVE  IInv'
<1>1. running /\ ConnInv
  BY DEF IInv, ConnInv
<1>2. made' \in 0 .. MaxLines /\ made <= made'
  BY <1>1 DEF ConnInv, DebugAssumption
<1>3. /\ ConnInv'
      /\ connected' = FALSE
      /\ Frontier' \in Nat /\ Frontier \in Nat /\ Frontier <= Frontier'
  BY <1>1, <1>2, CloseStep
<1> QED BY <1>3, SameQueues

LEMMA OnOpenStep ==
  ASSUME DebugAssumption, IInv, OnOpen
  PROVE  IInv'
<1>1. /\ socket = "connecting" /\ Flush(outgoing)
      /\ running' = running /\ incoming' = incoming /\ made' = made
  BY DEF OnOpen
<1>2. ConnInv /\ running
  BY <1>1 DEF IInv, ConnInv
<1>3. /\ outgoing \in Seq(0 .. MaxLines) /\ Len(outgoing) <= MaxOutgoing
      /\ sent \in SUBSET Line
      /\ Sorted(outgoing, sent)
  BY DEF IInv, QueueInv, AnswersInOrder, Sorted
<1>4. /\ ConnInv'
      /\ outgoing' \in Seq(0 .. MaxLines) /\ Len(outgoing') <= MaxOutgoing
      /\ sent' \in SUBSET Line
      /\ Sorted(outgoing', sent')
      /\ connected' => outgoing' = <<>>
      /\ \A b \in Nat : Before(outgoing, sent, b) => Before(outgoing', sent', b)
      /\ Frontier' \in Nat /\ Frontier \in Nat /\ Frontier <= Frontier'
  BY <1>1, <1>2, <1>3, FlushStep
<1>5. QueueInv'
  BY <1>1, <1>2, <1>4, QueueStep
<1> QED BY <1>4, <1>5 DEF IInv

LEMMA SendEventStep ==
  ASSUME DebugAssumption, IInv, SendEvent
  PROVE  IInv'
<1>1. /\ running /\ Send(Event)
      /\ running' = running /\ incoming' = incoming /\ made' = made
  BY DEF SendEvent
<1>2. Event \in 0 .. MaxLines /\ Event = 0
  BY DEF Event, DebugAssumption
<1>3. /\ ConnInv'
      /\ outgoing' \in Seq(0 .. MaxLines) /\ Len(outgoing') <= MaxOutgoing
      /\ sent' \in SUBSET Line
      /\ Sorted(outgoing', sent')
      /\ connected' => outgoing' = <<>>
      /\ \A b \in Nat : Before(outgoing, sent, b) /\ Event < b => Before(outgoing', sent', b)
      /\ Frontier' \in Nat /\ Frontier \in Nat /\ Frontier <= Frontier'
  BY <1>1, <1>2, SendStep
<1>4. QueueInv'
  BY <1>1, <1>2, <1>3, QueueStep
<1> QED BY <1>3, <1>4 DEF IInv

\* A line that ends is queued behind all others, at the limit without the oldest.
LEMMA QueueIncomingStep ==
  ASSUME DebugAssumption, IInv, NEW l \in Seq(Line), l # <<>>, Whole(l), l[1] = Frontier,
         incoming' = QueueIncoming(l), UNCHANGED <<outgoing, sent>>,
         Frontier \in Nat, Frontier' = Frontier + 1
  PROVE  /\ incoming' \in Seq(Seq(Line)) /\ Len(incoming') <= MaxIncoming
         /\ RequestsInOrder'
         /\ AnsweredFirst'
<1> DEFINE kept == IF Len(incoming) >= MaxIncoming THEN Tail(incoming) ELSE incoming
<1>1. /\ incoming \in Seq(Seq(Line)) /\ Len(incoming) \in Nat /\ Len(incoming) <= MaxIncoming
      /\ MaxIncoming \in Nat \ {0} /\ MaxLines \in Nat
      /\ RequestsInOrder /\ AnsweredFirst
      /\ outgoing \in Seq(0 .. MaxLines) /\ sent \in SUBSET Line
  BY DEF IInv, QueueInv, DebugAssumption
<1>2. \E d \in {0, 1} :
        /\ kept \in Seq(Seq(Line)) /\ Len(kept) \in Nat /\ Len(kept) < MaxIncoming
        /\ \A j \in DOMAIN kept : j + d \in DOMAIN incoming /\ kept[j] = incoming[j + d]
  <2>1. CASE Len(incoming) >= MaxIncoming
    <3>1. incoming # <<>> /\ kept = Tail(incoming) /\ Len(incoming) >= 1
      BY <1>1, <2>1
    <3>2. /\ Tail(incoming) \in Seq(Seq(Line)) /\ Len(Tail(incoming)) = Len(incoming) - 1
          /\ \A j \in DOMAIN Tail(incoming) : j + 1 \in DOMAIN incoming /\ Tail(incoming)[j] = incoming[j + 1]
      BY <1>1, <3>1
    <3>3. ASSUME NEW a \in Nat, NEW b \in Nat, a <= b, a >= 1
          PROVE  a - 1 \in Nat /\ a - 1 < b
      BY <3>3
    <3>4. Len(Tail(incoming)) \in Nat /\ Len(Tail(incoming)) < MaxIncoming
      BY ZenonT(30), <3>1, <3>2, <3>3, <1>1
    <3> QED BY <3>1, <3>2, <3>4
  <2>2. CASE ~ (Len(incoming) >= MaxIncoming)
    <3>1. kept = incoming /\ Len(incoming) < MaxIncoming
      BY <2>2, <1>1
    <3>2. \A j \in DOMAIN incoming : j + 0 \in DOMAIN incoming /\ incoming[j] = incoming[j + 0]
      BY <1>1
    <3> QED BY <3>1, <3>2, <1>1
  <2> QED BY <2>1, <2>2
<1>3. incoming' = Append(kept, l)
  BY DEF QueueIncoming
<1> HIDE DEF kept
<1>4. PICK d \in {0, 1} :
        /\ kept \in Seq(Seq(Line)) /\ Len(kept) \in Nat /\ Len(kept) < MaxIncoming
        /\ \A j \in DOMAIN kept : j + d \in DOMAIN incoming /\ kept[j] = incoming[j + d]
  BY <1>2
<1>5. /\ incoming' \in Seq(Seq(Line))
      /\ Len(incoming') = Len(kept) + 1
      /\ DOMAIN incoming' = 1 .. Len(kept) + 1
      /\ \A j \in DOMAIN kept : incoming'[j] = kept[j]
      /\ incoming'[Len(kept) + 1] = l
      /\ DOMAIN kept = 1 .. Len(kept)
  BY <1>3, <1>4
<1>6. \A j \in DOMAIN incoming' :
        \/ j \in DOMAIN kept /\ j + d \in DOMAIN incoming /\ incoming'[j] = incoming[j + d]
        \/ j = Len(kept) + 1 /\ incoming'[j] = l
  BY <1>4, <1>5
<1>7. Len(incoming') <= MaxIncoming
  BY <1>1, <1>4, <1>5
<1>8. \A j \in DOMAIN incoming : incoming[j] # <<>> /\ Whole(incoming[j]) /\ incoming[j][1] \in Nat /\ incoming[j][1] < Frontier
  <2> SUFFICES ASSUME NEW j \in DOMAIN incoming
               PROVE  incoming[j] # <<>> /\ Whole(incoming[j]) /\ incoming[j][1] \in Nat /\ incoming[j][1] < Frontier
    OBVIOUS
  <2>1. incoming[j] \in Seq(Line) /\ incoming[j] # <<>> /\ Whole(incoming[j]) /\ incoming[j][1] < Frontier
    BY <1>1 DEF RequestsInOrder
  <2>2. incoming[j][1] \in Line
    BY <2>1
  <2> QED BY <2>1, <2>2 DEF Line
<1>9. \A j \in DOMAIN incoming' : incoming'[j] # <<>> /\ Whole(incoming'[j]) /\ incoming'[j][1] < Frontier'
  BY <1>6, <1>8
<1>10. ASSUME NEW j \in DOMAIN incoming', NEW k \in DOMAIN incoming', j < k
       PROVE  incoming'[j][1] < incoming'[k][1]
  <2>1. j \in DOMAIN kept /\ j + d \in DOMAIN incoming /\ incoming'[j] = incoming[j + d]
    BY <1>5, <1>6, <1>4, <1>10
  <2>2. CASE k \in DOMAIN kept
    <3>1. k + d \in DOMAIN incoming /\ incoming'[k] = incoming[k + d] /\ j + d < k + d
      BY <2>2, <1>4, <1>5, <1>10
    <3> QED BY <2>1, <3>1, <1>1 DEF RequestsInOrder
  <2>3. CASE k = Len(kept) + 1
    BY <2>1, <2>3, <1>5, <1>8
  <2> QED BY <2>2, <2>3, <1>6
<1>11. RequestsInOrder'
  BY <1>9, <1>10 DEF RequestsInOrder, Whole
<1>12. Before(outgoing, sent, Frontier) /\ \A j \in DOMAIN incoming : Before(outgoing, sent, incoming[j][1])
  BY <1>1 DEF AnsweredFirst
<1>13. Before(outgoing, sent, Frontier + 1)
  BY <1>12, <1>1, BeforeMore
<1>14. \A j \in DOMAIN incoming' : Before(outgoing, sent, incoming'[j][1])
  BY <1>6, <1>12
<1>15. AnsweredFirst'
  BY <1>13, <1>14 DEF AnsweredFirst, Before
<1> QED BY <1>5, <1>7, <1>11, <1>15

\* A frame that the buffer takes.
LEMMA FrameStep ==
  ASSUME DebugAssumption, IInv, NEW ends \in BOOLEAN, NEW begins \in BOOLEAN,
         OnMessage(ends, begins),
         ~ (Len(buffer) + (IF ends /\ begins THEN 2 ELSE 1) > MaxBuffer)
  PROVE  IInv'
<1> DEFINE last == IF ends /\ begins THEN Frontier + 1 ELSE Frontier
<1>1. /\ socket = "open" /\ (begins => ends) /\ last <= MaxLines
      /\ made' = (IF last > made THEN last ELSE made)
      /\ line' = (IF ends /\ ~ begins THEN 0 ELSE last)
      /\ incoming' = (IF ends THEN QueueIncoming(Append(buffer, Frontier)) ELSE incoming)
      /\ buffer' = (IF ~ ends THEN Append(buffer, Frontier)
                    ELSE IF begins THEN <<last>> ELSE <<>>)
      /\ UNCHANGED <<socket, connected, scheduled, timers, running, outgoing, sent>>
  BY DEF OnMessage, Frontier
<1>2. ConnInv /\ MaxLines \in Nat /\ MaxBuffer \in Nat \ {0}
  BY DEF IInv, DebugAssumption
<1>3. /\ made \in Nat /\ Frontier \in Nat /\ Frontier > 0 /\ Frontier >= made
      /\ \A i \in DOMAIN buffer : buffer[i] = Frontier
      /\ buffer \in Seq(Line) /\ Len(buffer) \in Nat
  <2>1. buffer \in Seq(Line) /\ made \in Nat /\ line \in Nat /\ (line # 0 => line = made)
    BY <1>2 DEF ConnInv, LineInv
  <2>2. Frontier \in Nat /\ Frontier > 0 /\ Frontier >= made
    BY <2>1 DEF Frontier
  <2>3. \A i \in DOMAIN buffer : buffer[i] # 0 /\ buffer[i] = line
    BY <1>2, <2>1 DEF ConnInv, LineInv, Line
  <2>4. \A i \in DOMAIN buffer : buffer[i] = Frontier
    BY <2>3 DEF Frontier
  <2> QED BY <2>1, <2>2, <2>4
<1>4. last \in Line /\ Frontier \in Line /\ last >= Frontier /\ last \in Nat
  BY <1>1, <1>2, <1>3 DEF Line
<1>5. made' = last
  BY <1>1, <1>3, <1>4
<1> DEFINE l == Append(buffer, Frontier)
<1>6. /\ l \in Seq(Line) /\ l # <<>> /\ Len(l) = Len(buffer) + 1
      /\ \A i \in DOMAIN l : l[i] = Frontier
      /\ l[1] = Frontier
  <2>1. /\ l \in Seq(Line) /\ l # <<>> /\ Len(l) = Len(buffer) + 1
        /\ \A i \in DOMAIN l : i = Len(buffer) + 1 \/ i \in DOMAIN buffer
    BY <1>3, <1>4
  <2>2. l[Len(buffer) + 1] = Frontier /\ \A i \in DOMAIN buffer : l[i] = buffer[i]
    BY <1>3, <1>4
  <2>3. 1 \in DOMAIN l
    BY <2>1, <1>3
  <2> QED BY <1>3, <2>1, <2>2, <2>3
<1>7. Whole(l)
  BY <1>6 DEF Whole
<1>8. /\ socket' \in {"none", "connecting", "open"}
      /\ connected' = (socket' = "open")
      /\ scheduled' \in BOOLEAN
      /\ timers' = (IF scheduled' THEN 1 ELSE 0)
      /\ running' \in BOOLEAN
      /\ running' \/ socket' = "none"
      /\ running' /\ socket' = "none" => timers' > 0
  BY <1>1, <1>2 DEF ConnInv
<1>9. line' \in 0 .. MaxLines /\ made' \in 0 .. MaxLines
  BY <1>1, <1>2, <1>4, <1>5 DEF Line
<1>10. running /\ running' = running /\ (connected => outgoing = <<>>)
  BY <1>1, <1>2 DEF IInv, ConnInv, QueueInv
<1>11. /\ outgoing' \in Seq(0 .. MaxLines) /\ Len(outgoing') <= MaxOutgoing
       /\ sent' \in SUBSET Line
       /\ AnswersInOrder'
       /\ Sorted(outgoing', sent')
       /\ connected' => outgoing' = <<>>
  BY <1>1 DEF IInv, QueueInv, AnswersInOrder, Sorted
<1>12. CASE ~ ends
  <2>1. line' = Frontier /\ made' = Frontier /\ buffer' = l /\ incoming' = incoming /\ Frontier' = Frontier
    <3>1. line' = Frontier /\ made' = Frontier /\ buffer' = l /\ incoming' = incoming
      BY <1>1, <1>5, <1>12
    <3>2. Frontier' = line'
      BY <3>1, <1>3 DEF Frontier
    <3> QED BY <3>1, <3>2
  <2>2. LineInv'
    BY <2>1, <1>6 DEF LineInv
  <2>3. Len(buffer') <= MaxBuffer /\ buffer' \in Seq(Line)
    BY <2>1, <1>2, <1>3, <1>6, <1>12
  <2>4. ConnInv'
    BY <1>8, <1>9, <2>2, <2>3 DEF ConnInv
  <2> QED BY <2>1, <2>4, <1>1, <1>3, SameQueues
<1>13. CASE ends
  <2>1. incoming' = QueueIncoming(l) /\ made' = last
    BY <1>1, <1>5, <1>13
  <2>2. Frontier' = Frontier + 1 /\ LineInv' /\ buffer' \in Seq(Line) /\ Len(buffer') <= MaxBuffer
    <3>1. CASE begins
      <4>1. line' = Frontier + 1 /\ made' = Frontier + 1 /\ buffer' = <<Frontier + 1>> /\ Frontier + 1 \in Line
        BY <3>1, <1>1, <1>4, <1>5, <1>13
      <4>2. Frontier' = Frontier + 1
        BY <4>1, <1>3 DEF Frontier
      <4> QED BY <4>1, <4>2, <1>2 DEF LineInv
    <3>2. CASE ~ begins
      <4>1. line' = 0 /\ made' = Frontier /\ buffer' = <<>>
        BY <3>2, <1>1, <1>5, <1>13
      <4>2. Frontier' = Frontier + 1
        BY <4>1 DEF Frontier
      <4> QED BY <4>1, <4>2, <1>2 DEF LineInv
    <3> QED BY <3>1, <3>2
  <2>3. ConnInv'
    BY <1>8, <1>9, <2>2 DEF ConnInv
  <2> HIDE DEF l
  <2>4. /\ incoming' \in Seq(Seq(Line)) /\ Len(incoming') <= MaxIncoming
        /\ RequestsInOrder'
        /\ AnsweredFirst'
    BY <1>1, <1>3, <1>6, <1>7, <2>1, <2>2, QueueIncomingStep
  <2>5. QueueInv'
    BY <2>4, <1>10, <1>11 DEF QueueInv
  <2> QED BY <2>3, <2>5 DEF IInv
<1> QED BY <1>12, <1>13

LEMMA OnMessageStep ==
  ASSUME DebugAssumption, IInv, NEW ends \in BOOLEAN, NEW begins \in BOOLEAN,
         OnMessage(ends, begins)
  PROVE  IInv'
<1>1. CASE ~ (Len(buffer) + (IF ends /\ begins THEN 2 ELSE 1) > MaxBuffer)
  BY <1>1, FrameStep
<1>2. CASE Len(buffer) + (IF ends /\ begins THEN 2 ELSE 1) > MaxBuffer
  <2>1. /\ socket = "open" /\ CloseSocket /\ UNCHANGED <<running, incoming, outgoing, sent>>
    BY <1>2 DEF OnMessage
  <2>2. ConnInv /\ running
    BY <2>1 DEF IInv, ConnInv
  <2>3. made' \in 0 .. MaxLines /\ made <= made'
    <3> DEFINE last == IF ends /\ begins THEN Frontier + 1 ELSE Frontier
    <3>1. last <= MaxLines /\ made' = (IF last > made THEN last ELSE made)
      BY DEF OnMessage, Frontier
    <3>2. made \in 0 .. MaxLines /\ Frontier \in Nat /\ MaxLines \in Nat
      BY <2>2 DEF ConnInv, Frontier, DebugAssumption
    <3> QED BY <3>1, <3>2
  <2>4. /\ ConnInv'
        /\ connected' = FALSE
        /\ Frontier' \in Nat /\ Frontier \in Nat /\ Frontier <= Frontier'
    BY <2>1, <2>2, <2>3, CloseStep
  <2> QED BY <2>1, <2>4, SameQueues
<1> QED BY <1>1, <1>2

LEMMA PollStep ==
  ASSUME DebugAssumption, IInv, Poll
  PROVE  IInv'
<1> DEFINE m == Last(Head(incoming))
<1>1. /\ running /\ incoming # <<>> /\ incoming' = Tail(incoming) /\ Send(m)
      /\ running' = running /\ made' = made
  BY DEF Poll
<1>2. /\ incoming \in Seq(Seq(Line)) /\ Len(incoming) <= MaxIncoming
      /\ RequestsInOrder /\ AnsweredFirst
      /\ outgoing \in Seq(0 .. MaxLines) /\ sent \in SUBSET Line
      /\ MaxLines \in Nat /\ MaxIncoming \in Nat
  BY DEF IInv, QueueInv, DebugAssumption
<1>3. /\ Tail(incoming) \in Seq(Seq(Line)) /\ Len(Tail(incoming)) = Len(incoming) - 1
      /\ Len(incoming) \in Nat
      /\ \A j \in DOMAIN Tail(incoming) : j \in Nat /\ j + 1 \in DOMAIN incoming /\ Tail(incoming)[j] = incoming[j + 1]
      /\ 1 \in DOMAIN incoming /\ Head(incoming) = incoming[1]
      /\ \A j \in DOMAIN Tail(incoming) : 1 < j + 1
  BY <1>1, <1>2
<1>4. m = incoming[1][1] /\ m \in Line
  <2>1. incoming[1] \in Seq(Line) /\ incoming[1] # <<>> /\ Whole(incoming[1])
    BY SMTT(30), <1>2, <1>3 DEF RequestsInOrder
  <2>2. Len(incoming[1]) \in DOMAIN incoming[1] /\ 1 \in DOMAIN incoming[1]
    BY <2>1
  <2>3. m = incoming[1][Len(incoming[1])]
    BY <1>3 DEF Last
  <2>4. m = incoming[1][1]
    BY <2>1, <2>2, <2>3 DEF Whole
  <2>5. incoming[1][1] \in Line
    BY <2>1, <2>2
  <2> QED BY <2>4, <2>5
<1> HIDE DEF m
<1>5. m \in 0 .. MaxLines /\ m \in Nat
  BY <1>4, <1>2 DEF Line
<1>6. Before(outgoing, sent, m)
  BY <1>2, <1>3, <1>4 DEF AnsweredFirst
<1>7. /\ ConnInv'
      /\ outgoing' \in Seq(0 .. MaxLines) /\ Len(outgoing') <= MaxOutgoing
      /\ sent' \in SUBSET Line
      /\ Sorted(outgoing', sent')
      /\ connected' => outgoing' = <<>>
      /\ \A b \in Nat : Before(outgoing, sent, b) /\ m < b => Before(outgoing', sent', b)
      /\ Frontier' \in Nat /\ Frontier \in Nat /\ Frontier <= Frontier'
  BY <1>1, <1>5, <1>6, SendStep
<1>8. \A j \in DOMAIN incoming : incoming[j] # <<>> /\ Whole(incoming[j]) /\ incoming[j][1] \in Nat /\ incoming[j][1] < Frontier
  <2> SUFFICES ASSUME NEW j \in DOMAIN incoming
               PROVE  incoming[j] # <<>> /\ Whole(incoming[j]) /\ incoming[j][1] \in Nat /\ incoming[j][1] < Frontier
    OBVIOUS
  <2>1. incoming[j] \in Seq(Line) /\ incoming[j] # <<>> /\ Whole(incoming[j]) /\ incoming[j][1] < Frontier
    BY <1>2 DEF RequestsInOrder
  <2>2. incoming[j][1] \in Line
    BY <2>1
  <2> QED BY <2>1, <2>2 DEF Line
<1>9. \A j \in DOMAIN incoming' : incoming'[j] # <<>> /\ Whole(incoming'[j]) /\ incoming'[j][1] < Frontier'
  BY SMTT(30), <1>1, <1>3, <1>7, <1>8
<1>10. \A j, k \in DOMAIN incoming' : j < k => incoming'[j][1] < incoming'[k][1]
  <2> SUFFICES ASSUME NEW j \in DOMAIN incoming', NEW k \in DOMAIN incoming', j < k
               PROVE  incoming'[j][1] < incoming'[k][1]
    OBVIOUS
  <2>1. /\ j + 1 \in DOMAIN incoming /\ k + 1 \in DOMAIN incoming /\ j + 1 < k + 1
        /\ incoming'[j] = incoming[j + 1] /\ incoming'[k] = incoming[k + 1]
    BY <1>1, <1>3
  <2> QED BY <2>1, <1>2 DEF RequestsInOrder
<1>11. RequestsInOrder'
  BY <1>9, <1>10 DEF RequestsInOrder, Whole
<1>12. Before(outgoing', sent', Frontier')
  <2>1. Before(outgoing, sent, Frontier) /\ m < Frontier
    BY <1>2, <1>3, <1>4, <1>8 DEF AnsweredFirst
  <2>2. Before(outgoing', sent', Frontier)
    BY <2>1, <1>7
  <2> QED BY <2>2, <1>2, <1>7, BeforeMore
<1>13. \A j \in DOMAIN incoming' : Before(outgoing', sent', incoming'[j][1])
  <2> SUFFICES ASSUME NEW j \in DOMAIN incoming'
               PROVE  Before(outgoing', sent', incoming'[j][1])
    OBVIOUS
  <2>1. j + 1 \in DOMAIN incoming /\ 1 < j + 1 /\ incoming'[j] = incoming[j + 1]
    BY <1>1, <1>3
  <2>2. m < incoming[j + 1][1] /\ incoming[j + 1][1] \in Nat
    BY <2>1, <1>2, <1>3, <1>4, <1>8 DEF RequestsInOrder
  <2>3. Before(outgoing, sent, incoming[j + 1][1])
    BY <2>1, <1>2 DEF AnsweredFirst
  <2> QED BY <2>1, <2>2, <2>3, <1>7
<1>14. AnsweredFirst'
  BY <1>12, <1>13 DEF AnsweredFirst, Before
<1>15. AnswersInOrder'
  BY <1>7 DEF AnswersInOrder, Sorted
<1>16. incoming' \in Seq(Seq(Line)) /\ Len(incoming') <= MaxIncoming
  BY <1>1, <1>2, <1>3
<1>17. QueueInv'
  BY <1>1, <1>7, <1>11, <1>14, <1>15, <1>16 DEF QueueInv
<1> QED BY <1>7, <1>17 DEF IInv

----------------------------------------------------------------------------
(* The theorems.                                                             *)

LEMMA InitInv == ASSUME DebugAssumption, Init PROVE IInv
<1>1. LineInv /\ RequestsInOrder /\ AnsweredFirst /\ AnswersInOrder
  BY DEF Init, LineInv, RequestsInOrder, AnsweredFirst, AnswersInOrder, Before
<1>2. ConnInv
  <2>1. /\ running = FALSE /\ socket = "none" /\ connected = FALSE /\ scheduled = FALSE /\ timers = 0
        /\ buffer = <<>> /\ line = 0 /\ made = 0
    BY DEF Init
  <2>2. buffer \in Seq(Line) /\ Len(buffer) <= MaxBuffer
    BY <2>1 DEF DebugAssumption
  <2>3. line \in 0 .. MaxLines /\ made \in 0 .. MaxLines
    BY <2>1 DEF DebugAssumption
  <2>4. /\ connected = (socket = "open")
        /\ timers = (IF scheduled THEN 1 ELSE 0)
    BY <2>1
  <2> QED BY <1>1, <2>1, <2>2, <2>3, <2>4 DEF ConnInv
<1>3. QueueInv
  BY <1>1 DEF Init, QueueInv, DebugAssumption
<1> QED BY <1>2, <1>3 DEF IInv

LEMMA NextInv == ASSUME DebugAssumption, IInv, [Next]_vars PROVE IInv'
<1>1. CASE Start
  BY <1>1, StartStep
<1>2. CASE Stop
  BY <1>2, StopStep
<1>3. CASE Reconnect
  BY <1>3, ReconnectStep
<1>4. CASE OnOpen
  BY <1>4, OnOpenStep
<1>5. CASE OnClose
  BY <1>5, ClosedStep DEF OnClose
<1>6. CASE OnBinary
  <2>1. socket # "none"
    BY <1>6 DEF OnBinary
  <2> QED BY <2>1, <1>6, ClosedStep DEF OnBinary
<1>7. CASE \E ends, begins \in BOOLEAN : OnMessage(ends, begins)
  BY <1>7, OnMessageStep
<1>8. CASE Poll
  BY <1>8, PollStep
<1>9. CASE SendEvent
  BY <1>9, SendEventStep
<1>10. CASE UNCHANGED vars
  <2>1. UNCHANGED <<running, socket, connected, scheduled, timers, buffer, line, incoming, outgoing, made, sent>>
    BY <1>10 DEF vars, conn
  <2>2. ConnInv'
    BY <2>1 DEF IInv, ConnInv, LineInv
  <2>3. Frontier' = Frontier /\ Frontier \in Nat
    BY <2>1 DEF IInv, ConnInv, Frontier
  <2> QED BY <2>1, <2>2, <2>3, SameQueues
<1> QED BY <1>1, <1>2, <1>3, <1>4, <1>5, <1>6, <1>7, <1>8, <1>9, <1>10 DEF Next

\* The invariant, for every limit and every number of lines.
THEOREM DebugInvariant == Spec => []IInv
<1>1. Init => IInv
  BY InitInv, DebugAssumption
<1>2. IInv /\ [Next]_vars => IInv'
  BY NextInv, DebugAssumption
<1> QED BY <1>1, <1>2, PTL DEF Spec

\* The types: in particular the queues and the buffer keep their limits, and a
\* timer is set exactly when g_reconnect_scheduled says so.
THEOREM DebugTypeCorrect == Spec => []TypeOK
BY DebugInvariant, Implied, PTL

\* A line that ProcessReceiveBuffer queues came over one connection.
THEOREM RequestsAreWhole == Spec => []WholeRequests
BY DebugInvariant, Implied, PTL

\* FlushOutgoing and ControlServer_Send keep the answers in the order of the
\* requests, and send none twice.
THEOREM AnswersStayInOrder == Spec => []AnswersInOrder
BY DebugInvariant, Implied, PTL

\* A client that runs has a socket or a timer, and an open connection no backlog.
THEOREM ClientIsNotStranded == Spec => []NeverStranded
BY DebugInvariant, Implied, PTL

============================================================================
