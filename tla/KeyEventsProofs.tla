--------------------------- MODULE KeyEventsProofs ---------------------------
(* Theorems about KeyEvents, for any keys, any width of a time and any bounds. *)
EXTENDS KeyEvents, SequenceTheorems, WellFoundedInduction, TLAPS

----------------------------------------------------------------------------
(* The invariants.                                                           *)

Underway == keyEvents \o toWorker

\* The types alone.
TypesInv ==
  /\ clock \in 0 .. MaxTime
  /\ keyMatrix \in [Key -> BOOLEAN]
  /\ toWorker \in Seq(Event)
  /\ keyEvents \in Seq(Event)
  /\ wait \in 0 .. Width - 1
  /\ down \in [Key -> Down \cup {Up}]
  /\ sent \in 0 .. MaxSent
  /\ newest \in 0 .. MaxTime + Hold
  /\ back \in BOOLEAN

TurnsInv == \A k \in Key : TakesTurns(k, Underway, down[k] # Up, keyMatrix[k])

\* Do the first i keys of the machine's queue have times in order?
Ordered(i) == \A j, l \in 1 .. i : j <= l => keyEvents[j].time <= keyEvents[l].time

\* A key that is alone will have been down long enough when its release is due:
\* for how long it is down already, the time until the next key is due, and the
\* distance from that one to the release make up what the client saw, or Hold.
\* With an empty queue a release that comes now is due after the time that is
\* left.  A release behind a key with an earlier time is never due.
HeldInv ==
  \A k \in Key : down[k] # Up /\ down[k].alone =>
    /\ keyEvents = <<>> => down[k].age + wait >= Hold
    /\ \A i \in DOMAIN keyEvents : Released(1, i) /\ Ordered(i) =>
         down[k].age + wait + (keyEvents[i].time - keyEvents[1].time)
           >= Min2(Hold, keyEvents[i].time - down[k].time)

\* As long as the client's times never went back they are in order, and the time
\* until the next key is due is one the client saw pass, or Hold.
DueInv ==
  ~ back =>
    /\ \A i, j \in DOMAIN Underway : i <= j => Underway[i].time <= Underway[j].time
    /\ \A i \in DOMAIN Underway : Underway[i].time <= newest
    /\ wait <= MaxTime + Hold

\* A distance of times that went back is half of all values or more, and what
\* has it is in the queue.
StuckInv == wait > MaxTime + Hold => keyEvents # <<>> /\ wait > Width \div 2

IInv == TypesInv /\ TurnsInv /\ HeldInv /\ DueInv /\ StuckInv

----------------------------------------------------------------------------
(* Facts about numbers and queues.                                           *)

\* Of some places in a queue one is the last.
LEMMA LastPlace ==
  ASSUME NEW m \in Nat, NEW T \in SUBSET (1 .. m), T # {}
  PROVE  \E i \in T : \A j \in T : j <= i
<1> DEFINE R == {ss \in Nat \X Nat : ss[1] < ss[2]}
           U == {n \in Nat : n <= m /\ m - n \in T}
<1>1. IsWellFoundedOn(R, Nat)
  BY NatLessThanWellFounded DEF OpToRel
<1>2. U \subseteq Nat /\ U # {}
  <2>1. PICK t \in T : TRUE
    OBVIOUS
  <2>2. m - t \in Nat /\ m - t <= m /\ m - (m - t) = t
    BY <2>1
  <2>3. m - t \in U
    BY <2>1, <2>2
  <2> QED BY <2>3
<1>3. PICK u \in U : \A y \in U : ~ (<<y, u>> \in R)
  <2> HIDE DEF R, U
  <2> QED BY <1>1, <1>2, WFMin
<1>4. u \in Nat /\ u <= m /\ m - u \in T
  BY <1>3
<1>5. ASSUME NEW j \in T PROVE j <= m - u
  <2>1. m - j \in Nat /\ m - j <= m /\ m - (m - j) = j
    BY <1>5
  <2>2. m - j \in U
    BY <1>5, <2>1
  <2>3. ~ (m - j < u)
    BY <1>3, <1>4, <2>1, <2>2
  <2> QED BY <1>4, <2>1, <2>3
<1> QED BY <1>4, <1>5

\* The distance of two times, taken without a sign: the distance itself, or more
\* than any time of the client.
LEMMA Distance ==
  ASSUME NEW s \in 0 .. MaxTime + Hold, NEW t \in 0 .. MaxTime + Hold
  PROVE  /\ (t - s) % Width \in 0 .. Width - 1
         /\ s <= t => (t - s) % Width = t - s
         /\ s > t => (t - s) % Width > MaxTime + Hold
<1>1. 2 * (MaxTime + Hold) < Width /\ MaxTime \in Nat /\ Hold \in Nat /\ Width \in Nat \ {0}
  BY KeyAssumption
<1>2. CASE s <= t
  <2>1. t - s \in 0 .. Width - 1
    BY <1>1, <1>2
  <2>2. (t - s) % Width = t - s
    BY <1>1, <2>1
  <2> QED BY <1>2, <2>1, <2>2
<1>3. CASE s > t
  <2> DEFINE d == s - t
  <2>1. d \in 1 .. Width - 1 /\ t - s = 0 - d /\ d <= MaxTime + Hold
    BY <1>1, <1>3
  <2>2. (t - s) % Width = Width - d
    <3> HIDE DEF d
    <3> QED BY <1>1, <2>1
  <2> QED BY <1>1, <1>3, <2>1, <2>2
<1> QED BY <1>2, <1>3

\* The other way round: a distance above any time of the client is far above.
LEMMA FarDistance ==
  ASSUME NEW s \in 0 .. MaxTime + Hold, NEW t \in 0 .. MaxTime + Hold,
         (t - s) % Width > MaxTime + Hold
  PROVE  (t - s) % Width > Width \div 2
<1>1. /\ MaxTime + Hold < Width \div 2 /\ MaxTime + Hold \in Nat /\ Width \in Nat \ {0}
      /\ 2 * (Width \div 2) <= Width /\ Width \div 2 \in Nat
  BY KeyAssumption
<1>2. s > t
  BY <1>1, Distance
<1> DEFINE d == s - t
<1>3. d \in 1 .. Width - 1 /\ t - s = 0 - d /\ d <= MaxTime + Hold
  BY <1>1, <1>2
<1> HIDE DEF d
<1>4. (0 - d) % Width = Width - d
  BY <1>1, <1>3
<1> QED BY <1>1, <1>3, <1>4

\* One more event at the end of a queue keeps the turns.
LEMMA TurnsAppend ==
  ASSUME NEW q \in Seq(Event), NEW e \in Event, NEW k, NEW before \in BOOLEAN,
         NEW after \in BOOLEAN, TakesTurns(k, q, before, after),
         e.key = k => (e.pressed <=> ~ after)
  PROVE  /\ e.key = k => TakesTurns(k, Append(q, e), before, e.pressed)
         /\ e.key # k => TakesTurns(k, Append(q, e), before, after)
<1> DEFINE n == Len(q)
           mine == {i \in DOMAIN q : q[i].key = k}
           r == Append(q, e)
<1>1. /\ n \in Nat /\ DOMAIN q = 1 .. n /\ DOMAIN r = 1 .. n + 1
      /\ \A i \in 1 .. n : r[i] = q[i]
      /\ r[n + 1] = e
  OBVIOUS
<1>2. mine \subseteq 1 .. n
  BY <1>1
<1>3. CASE e.key # k
  <2>1. {i \in DOMAIN r : r[i].key = k} = mine
    BY <1>1, <1>3
  <2> QED BY <1>1, <1>2, <1>3, <2>1 DEF TakesTurns
<1>4. CASE e.key = k
  <2>1. {i \in DOMAIN r : r[i].key = k} = mine \cup {n + 1}
    BY <1>1, <1>4
  <2> DEFINE all == mine \cup {n + 1}
  <2>2. ASSUME NEW i \in all, \A j \in all : i <= j
        PROVE  r[i].pressed <=> ~ before
    <3>1. CASE i = n + 1
      <4>1. mine = {}
        BY <1>1, <1>2, <2>2, <3>1
      <4> QED BY <1>1, <1>4, <3>1, <4>1 DEF TakesTurns
    <3>2. CASE i \in mine
      BY <1>1, <1>2, <2>2, <3>2 DEF TakesTurns
    <3> QED BY <3>1, <3>2
  <2>3. ASSUME NEW i \in all, \A j \in all : j <= i
        PROVE  r[i].pressed <=> e.pressed
    BY <1>1, <1>2, <2>3
  <2>4. ASSUME NEW i \in all, NEW j \in all, i < j, \A l \in all : l <= i \/ j <= l
        PROVE  r[j].pressed <=> ~ r[i].pressed
    <3>1. i \in mine
      BY <1>1, <1>2, <2>4
    <3>2. CASE j = n + 1
      <4>1. \A l \in mine : l <= i
        BY <1>1, <1>2, <2>4, <3>2
      <4>2. q[i].pressed <=> after
        BY <3>1, <4>1 DEF TakesTurns
      <4> QED BY <1>1, <1>2, <1>4, <3>1, <3>2, <4>2
    <3>3. CASE j \in mine
      <4>1. q[j].pressed <=> ~ q[i].pressed
        BY <2>4, <3>1, <3>3 DEF TakesTurns
      <4> QED BY <1>1, <1>2, <3>1, <3>3, <4>1
    <3> QED BY <3>2, <3>3
  <2>5. TakesTurns(k, r, before, e.pressed)
    <3> HIDE DEF mine, r, n
    <3> QED BY <2>1, <2>2, <2>3, <2>4 DEF TakesTurns
  <2> QED BY <1>4, <2>5
<1> QED BY <1>3, <1>4

\* Two elements at the end of a queue.
LEMMA AppendTwo ==
  ASSUME NEW S, NEW q \in Seq(S), NEW a \in S, NEW b \in S
  PROVE  q \o Append(<<a>>, b) = Append(Append(q, a), b)
<1> DEFINE l == q \o Append(<<a>>, b)
           r == Append(Append(q, a), b)
<1>1. Append(<<a>>, b) \in Seq(S) /\ Len(Append(<<a>>, b)) = 2
      /\ Append(<<a>>, b)[1] = a /\ Append(<<a>>, b)[2] = b
  OBVIOUS
<1>2. l \in Seq(S) /\ Len(l) = Len(q) + 2
      /\ (\A i \in 1 .. Len(q) : l[i] = q[i]) /\ l[Len(q) + 1] = a /\ l[Len(q) + 2] = b
  BY <1>1
<1>3. r \in Seq(S) /\ Len(r) = Len(q) + 2
      /\ (\A i \in 1 .. Len(q) : r[i] = q[i]) /\ r[Len(q) + 1] = a /\ r[Len(q) + 2] = b
  OBVIOUS
<1> HIDE DEF l, r
<1>4. \A i \in 1 .. Len(l) : l[i] = r[i]
  BY <1>2, <1>3
<1>5. l = r
  BY <1>2, <1>3, <1>4, SeqEqual
<1> QED BY <1>5 DEF l, r

----------------------------------------------------------------------------
(* What a step does to the queue and to the keys.                            *)

\* How the queue and its parts are addressed.
LEMMA QueueParts ==
  ASSUME TypesInv
  PROVE  /\ Underway \in Seq(Event)
         /\ Len(Underway) = Len(keyEvents) + Len(toWorker)
         /\ \A i \in 1 .. Len(keyEvents) : Underway[i] = keyEvents[i]
BY DEF TypesInv, Underway

\* server_add_key moves an event on, which leaves what is under way as it is.
LEMMA ServerAddKeyKeepsQueue ==
  ASSUME TypesInv, ServerAddKey
  PROVE  Underway' = Underway
<1>1. /\ toWorker \in Seq(Event) /\ keyEvents \in Seq(Event) /\ toWorker # <<>>
      /\ toWorker' = Tail(toWorker) /\ keyEvents' = Append(keyEvents, Head(toWorker))
  BY DEF TypesInv, ServerAddKey
<1> QED BY <1>1 DEF Underway

\* What AddKeys makes of a key of which there are events, and of another one.
LEMMA AddKeysEffect ==
  ASSUME TypesInv, NEW n \in 1 .. Len(keyEvents), NEW k \in Key
  PROVE  \/ /\ \A i \in 1 .. n : keyEvents[i].key # k
            /\ down[k] = Up
            /\ AddKeys(n)[k] = Up
         \/ /\ \A i \in 1 .. n : keyEvents[i].key # k
            /\ down[k] \in Down
            /\ AddKeys(n)[k] = [down[k] EXCEPT !.alone = @ /\ Released(1, n)]
         \/ \E last \in 1 .. n :
              /\ keyEvents[last].key = k
              /\ \A j \in 1 .. n : keyEvents[j].key = k => j <= last
              /\ AddKeys(n)[k] =
                   IF keyEvents[last].pressed
                     THEN [age |-> 0, time |-> keyEvents[last].time,
                           alone |-> Released(last + 1, n)]
                     ELSE Up
<1> DEFINE mine == {i \in 1 .. n : keyEvents[i].key = k}
           last == CHOOSE i \in mine : \A j \in mine : j <= i
<1>1. AddKeys(n)[k] =
        IF mine = {}
          THEN IF down[k] = Up THEN Up ELSE [down[k] EXCEPT !.alone = @ /\ Released(1, n)]
          ELSE IF keyEvents[last].pressed
                 THEN [age |-> 0, time |-> keyEvents[last].time, alone |-> Released(last + 1, n)]
                 ELSE Up
  BY DEF AddKeys
<1>2. CASE mine = {}
  BY <1>1, <1>2 DEF TypesInv
<1>3. CASE mine # {}
  <2>1. n \in Nat /\ mine \in SUBSET (1 .. n)
    OBVIOUS
  <2>2. \E i \in mine : \A j \in mine : j <= i
    <3> HIDE DEF mine
    <3> QED BY <1>3, <2>1, LastPlace
  <2>3. last \in mine /\ \A j \in mine : j <= last
    <3> HIDE DEF mine
    <3> QED BY <2>2
  <2> HIDE DEF last
  <2> QED BY <1>1, <1>3, <2>3
<1> QED BY <1>2, <1>3

\* The queue after DoKeyEvents.
LEMMA DoKeyEventsQueue ==
  ASSUME TypesInv, NEW n \in 1 .. Len(keyEvents),
         keyEvents' = SubSeq(keyEvents, n + 1, Len(keyEvents)), toWorker' = toWorker
  PROVE  /\ keyEvents' \in Seq(Event)
         /\ Len(keyEvents') = Len(keyEvents) - n
         /\ \A i \in 1 .. Len(keyEvents) - n : keyEvents'[i] = keyEvents[i + n]
         /\ Underway' \in Seq(Event)
         /\ Len(Underway') = Len(Underway) - n
         /\ \A i \in 1 .. Len(Underway) - n : Underway'[i] = Underway[i + n]
<1>1. /\ keyEvents' \in Seq(Event)
      /\ Len(keyEvents') = Len(keyEvents) - n
      /\ \A i \in 1 .. Len(keyEvents) - n : keyEvents'[i] = keyEvents[i + n]
  BY DEF TypesInv
<1>2. toWorker \in Seq(Event) /\ keyEvents \in Seq(Event)
  BY DEF TypesInv
<1>3. /\ Underway' \in Seq(Event)
      /\ Len(Underway') = Len(keyEvents') + Len(toWorker)
      /\ Len(Underway) = Len(keyEvents) + Len(toWorker)
  BY <1>1, <1>2 DEF Underway
<1>4. ASSUME NEW i \in 1 .. Len(Underway) - n
      PROVE  Underway'[i] = Underway[i + n]
  <2>1. CASE i <= Len(keyEvents')
    BY <1>1, <1>2, <1>3, <2>1 DEF Underway
  <2>2. CASE i > Len(keyEvents')
    BY <1>1, <1>2, <1>3, <2>2 DEF Underway
  <2> QED BY <1>1, <1>2, <1>3, <2>1, <2>2
<1> QED BY <1>1, <1>2, <1>3, <1>4

----------------------------------------------------------------------------
(* Types.                                                                    *)

LEMMA InitTypes == Init => TypesInv
<1> SUFFICES ASSUME Init PROVE TypesInv
  OBVIOUS
<1>1. 0 \in 0 .. MaxTime /\ 0 \in 0 .. Width - 1 /\ 0 \in 0 .. MaxSent /\ 0 \in 0 .. MaxTime + Hold
  BY KeyAssumption
<1>2. <<>> \in Seq(Event)
  OBVIOUS
<1> QED BY <1>1, <1>2 DEF Init, TypesInv

\* What a message of the client is.
LEMMA EventType ==
  ASSUME TypesInv, NEW k \in Key, NEW p \in BOOLEAN, NEW t \in 0 .. MaxTime + Hold
  PROVE  KeyEvent(k, p, t) \in Event
BY DEF KeyEvent, Event

LEMMA SendTypes ==
  ASSUME TypesInv, NEW k \in Key, NEW pressed \in BOOLEAN, SendKeyEvent(k, pressed)
  PROVE  /\ TypesInv'
         /\ KeyEvent(k, pressed, clock) \in Event
         /\ Underway' = Append(Underway, KeyEvent(k, pressed, clock))
         /\ newest' = clock
         /\ back' = (back \/ clock < newest)
<1> DEFINE e == KeyEvent(k, pressed, clock)
<1>1. e \in Event /\ e.time = clock
  BY KeyAssumption, EventType DEF TypesInv, KeyEvent
<1>2. Post(<<e>>)
  BY DEF SendKeyEvent
<1> HIDE DEF e
<1>3. /\ toWorker' = toWorker \o <<e>> /\ sent' = sent + 1 /\ sent + 1 <= MaxSent
      /\ newest' = e.time /\ back' = (back \/ e.time < newest)
  BY <1>2 DEF Post, Last
<1>4. toWorker \in Seq(Event) /\ keyEvents \in Seq(Event)
  BY DEF TypesInv
<1>5. toWorker' \in Seq(Event) /\ Underway' = Append(Underway, e)
  BY <1>1, <1>3, <1>4 DEF Underway, SendKeyEvent
<1>6. keyMatrix' \in [Key -> BOOLEAN]
  BY DEF SendKeyEvent, TypesInv
<1>7. TypesInv'
  BY KeyAssumption, <1>1, <1>3, <1>5, <1>6 DEF SendKeyEvent, TypesInv
<1> QED BY <1>1, <1>3, <1>5, <1>7 DEF e

\* One message or two, from one key.
LEMMA SimulateTypes ==
  ASSUME TypesInv, NEW k \in Key, SimulateKeyPress(k)
  PROVE  /\ TypesInv'
         /\ KeyEvent(k, TRUE, clock) \in Event
         /\ KeyEvent(k, FALSE, clock + Hold) \in Event
         /\ keyMatrix[k] =>
              /\ Underway' = Append(Underway, KeyEvent(k, FALSE, clock + Hold))
              /\ back' = (back \/ clock + Hold < newest)
         /\ ~ keyMatrix[k] =>
              /\ Underway' = Append(Append(Underway, KeyEvent(k, TRUE, clock)),
                                    KeyEvent(k, FALSE, clock + Hold))
              /\ back' = (back \/ clock < newest)
         /\ newest' = clock + Hold
<1> DEFINE d == KeyEvent(k, TRUE, clock)
           u == KeyEvent(k, FALSE, clock + Hold)
<1>1. d \in Event /\ d.time = clock /\ u \in Event /\ u.time = clock + Hold
  <2>1. clock \in 0 .. MaxTime + Hold /\ clock + Hold \in 0 .. MaxTime + Hold
    BY KeyAssumption DEF TypesInv
  <2>2. d \in Event /\ u \in Event
    BY <2>1, EventType
  <2> QED BY <2>2 DEF KeyEvent
<1>2. /\ keyMatrix[k] => Post(Append(<<>>, u))
      /\ ~ keyMatrix[k] => Post(Append(<<d>>, u))
  BY DEF SimulateKeyPress
<1> HIDE DEF d, u
<1>3. toWorker \in Seq(Event) /\ keyEvents \in Seq(Event)
  BY DEF TypesInv
<1>4. CASE keyMatrix[k]
  <2>1. /\ toWorker' = toWorker \o <<u>> /\ sent' = sent + 1 /\ sent + 1 <= MaxSent
        /\ newest' = u.time /\ back' = (back \/ u.time < newest)
    BY <1>2, <1>4 DEF Post, Last
  <2>2. toWorker' \in Seq(Event) /\ Underway' = Append(Underway, u)
    BY <1>1, <1>3, <2>1 DEF Underway, SimulateKeyPress
  <2>3. TypesInv'
    BY KeyAssumption, <1>1, <2>1, <2>2 DEF SimulateKeyPress, TypesInv
  <2> QED BY <1>1, <1>4, <2>1, <2>2, <2>3 DEF d, u
<1>5. CASE ~ keyMatrix[k]
  <2>1. /\ toWorker' = toWorker \o Append(<<d>>, u) /\ sent' = sent + 2 /\ sent + 2 <= MaxSent
        /\ newest' = u.time /\ back' = (back \/ d.time < newest)
    <3> DEFINE es == Append(<<d>>, u)
    <3>1. Len(es) = 2 /\ es # <<>> /\ es[1] = d /\ es[2] = u
      BY <1>1
    <3>2. Post(es)
      BY <1>2, <1>5
    <3> HIDE DEF es
    <3>3. Last(es) = u
      BY <3>1 DEF Last
    <3>4. /\ toWorker' = toWorker \o es /\ sent' = sent + 2 /\ sent + 2 <= MaxSent
          /\ newest' = u.time /\ back' = (back \/ d.time < newest)
      BY <3>1, <3>2, <3>3 DEF Post
    <3> QED BY <3>4 DEF es
  <2>2. toWorker' = Append(Append(toWorker, d), u)
    BY <1>1, <1>3, <2>1, AppendTwo
  <2>3. toWorker' \in Seq(Event) /\ Underway' = Append(Append(Underway, d), u)
    <3>1. \A q \in Seq(Event) : \A e \in Event :
            Append(q, e) \in Seq(Event) /\ keyEvents \o Append(q, e) = Append(keyEvents \o q, e)
      BY <1>3
    <3>2. keyEvents' = keyEvents
      BY DEF SimulateKeyPress
    <3>3. Append(toWorker, d) \in Seq(Event)
      BY <1>1, <1>3
    <3> QED BY <1>1, <1>3, <2>2, <3>1, <3>2, <3>3 DEF Underway
  <2>4. TypesInv'
    BY KeyAssumption, <1>1, <2>1, <2>3 DEF SimulateKeyPress, TypesInv
  <2> QED BY <1>1, <1>5, <2>1, <2>3, <2>4 DEF d, u
<1> QED BY <1>4, <1>5

LEMMA ServerAddKeyTypes == TypesInv /\ ServerAddKey => TypesInv'
<1> SUFFICES ASSUME TypesInv, ServerAddKey PROVE TypesInv'
  OBVIOUS
<1>1. toWorker' \in Seq(Event) /\ keyEvents' \in Seq(Event)
  BY DEF TypesInv, ServerAddKey
<1>2. wait' \in 0 .. Width - 1
  BY KeyAssumption DEF TypesInv, ServerAddKey
<1> QED BY <1>1, <1>2 DEF TypesInv, ServerAddKey

LEMMA DoKeyEventsTypes == TypesInv /\ DoKeyEvents => TypesInv'
<1> SUFFICES ASSUME TypesInv, DoKeyEvents PROVE TypesInv'
  OBVIOUS
<1>1. PICK n \in 1 .. Len(keyEvents) :
        /\ down' = AddKeys(n)
        /\ keyEvents' = SubSeq(keyEvents, n + 1, Len(keyEvents))
        /\ wait' = IF n = Len(keyEvents) THEN Hold
                   ELSE (keyEvents[n + 1].time - keyEvents[n].time) % Width
  BY DEF DoKeyEvents
<1>2. keyEvents' \in Seq(Event)
  BY <1>1, DoKeyEventsQueue DEF DoKeyEvents
<1>3. wait' \in 0 .. Width - 1
  <2>1. CASE n = Len(keyEvents)
    BY <1>1, <2>1, KeyAssumption
  <2>2. CASE n # Len(keyEvents)
    <3>1. keyEvents[n] \in Event /\ keyEvents[n + 1] \in Event
      BY <2>2 DEF TypesInv
    <3>2. keyEvents[n].time \in 0 .. MaxTime + Hold /\ keyEvents[n + 1].time \in 0 .. MaxTime + Hold
      BY <3>1 DEF Event
    <3> QED BY <1>1, <2>2, <3>2, Distance
  <2> QED BY <2>1, <2>2
<1>4. ASSUME NEW k \in Key PROVE AddKeys(n)[k] \in Down \cup {Up}
  <2>1. \A i \in 1 .. n : keyEvents[i].time \in 0 .. MaxTime + Hold
    <3>1. \A i \in 1 .. n : keyEvents[i] \in Event
      BY DEF TypesInv
    <3> QED BY <3>1 DEF Event
  <2>2. \A t \in 0 .. MaxTime + Hold : \A i, j : [age |-> 0, time |-> t, alone |-> Released(i, j)] \in Down
    <3>1. \A i, j : Released(i, j) \in BOOLEAN
      BY DEF Released
    <3> QED BY <3>1, KeyAssumption DEF Down
  <2>3. \A d \in Down : [d EXCEPT !.alone = @ /\ Released(1, n)] \in Down
    BY DEF Down
  <2>4. ASSUME NEW last \in 1 .. n,
               AddKeys(n)[k] = IF keyEvents[last].pressed
                                 THEN [age |-> 0, time |-> keyEvents[last].time,
                                       alone |-> Released(last + 1, n)]
                                 ELSE Up
        PROVE  AddKeys(n)[k] \in Down \cup {Up}
    BY <2>1, <2>2, <2>4
  <2>5. CASE down[k] \in Down /\ AddKeys(n)[k] = [down[k] EXCEPT !.alone = @ /\ Released(1, n)]
    BY <2>3, <2>5
  <2>6. CASE AddKeys(n)[k] = Up
    BY <2>6
  <2> QED BY <2>4, <2>5, <2>6, AddKeysEffect
<1>5. down' \in [Key -> Down \cup {Up}]
  BY <1>1, <1>4 DEF AddKeys
<1> QED BY <1>2, <1>3, <1>5 DEF TypesInv, DoKeyEvents

\* Time passing makes a key neither go down nor up.
LEMMA PassTypes ==
  ASSUME TypesInv, Pass
  PROVE  /\ TypesInv'
         /\ \A k \in Key : /\ down'[k] = Up <=> down[k] = Up
                           /\ down[k] # Up =>
                                /\ down'[k].age = Min2(down[k].age + 1, Hold)
                                /\ down'[k].time = down[k].time
                                /\ down'[k].alone = down[k].alone
<1>1. ASSUME NEW k \in Key, down[k] # Up
      PROVE  /\ down'[k] \in Down
             /\ down'[k].age = Min2(down[k].age + 1, Hold)
             /\ down'[k].time = down[k].time
             /\ down'[k].alone = down[k].alone
  <2>1. down[k] \in Down /\ down'[k] = [down[k] EXCEPT !.age = Min2(@ + 1, Hold)]
    BY <1>1 DEF TypesInv, Pass
  <2>2. Min2(down[k].age + 1, Hold) \in 0 .. Hold
    BY <2>1, KeyAssumption DEF Down, Min2
  <2> QED BY <2>1, <2>2 DEF Down
<1>2. ASSUME NEW k \in Key, down[k] = Up
      PROVE  down'[k] = Up
  BY <1>2 DEF Pass
<1>3. \A d \in Down : d # Up
  BY DEF Down, Up
<1>4. down' \in [Key -> Down \cup {Up}]
  <2>1. \A k \in Key : down'[k] \in Down \cup {Up}
    BY <1>1, <1>2
  <2> QED BY <2>1 DEF Pass
<1>5. clock' \in 0 .. MaxTime /\ wait' \in 0 .. Width - 1
  <2>1. clock \in Nat /\ clock <= MaxTime /\ MaxTime \in Nat /\ clock' = Min2(clock + 1, MaxTime)
    BY KeyAssumption DEF TypesInv, Pass
  <2>2. clock' \in 0 .. MaxTime
    BY <2>1 DEF Min2
  <2>3. wait' = wait \/ wait' = Max2(wait - 1, 0)
    BY DEF Pass
  <2>4. wait \in Nat /\ wait <= Width - 1 /\ Width \in Nat
    BY KeyAssumption DEF TypesInv
  <2>5. wait' \in 0 .. Width - 1
    BY <2>3, <2>4 DEF Max2
  <2> QED BY <2>2, <2>5
<1> QED BY <1>1, <1>2, <1>3, <1>4, <1>5 DEF TypesInv, Pass

LEMMA StepTypes == TypesInv /\ [Next]_vars => TypesInv'
<1>1. TypesInv /\ UNCHANGED vars => TypesInv'
  BY DEF TypesInv, vars
<1> QED BY <1>1, SendTypes, SimulateTypes, ServerAddKeyTypes, DoKeyEventsTypes, PassTypes DEF Next

----------------------------------------------------------------------------
(* Presses and releases of a key take turns.                                 *)

\* After the first n events of a queue, is k down or not, now, if it was before?
IsStateAfter(k, q, n, before, now) ==
  \/ (\A i \in 1 .. n : q[i].key # k) /\ (now <=> before)
  \/ \E last \in 1 .. n : /\ q[last].key = k
                          /\ \A j \in 1 .. n : q[j].key = k => j <= last
                          /\ now <=> q[last].pressed

\* Events taken from the front of a queue: the turns go on after the last one
\* of the key.
LEMMA TurnsDrop ==
  ASSUME NEW q \in Seq(Event), NEW r \in Seq(Event), NEW n \in Nat, n <= Len(q),
         Len(r) = Len(q) - n, \A i \in 1 .. Len(q) - n : r[i] = q[i + n],
         NEW k, NEW before \in BOOLEAN, NEW after \in BOOLEAN, NEW now \in BOOLEAN,
         TakesTurns(k, q, before, after),
         IsStateAfter(k, q, n, before, now)
  PROVE  TakesTurns(k, r, now, after)
<1> DEFINE m == Len(q) - n
           old == {i \in DOMAIN q : q[i].key = k}
           new == {i \in DOMAIN r : r[i].key = k}
<1>1. m \in Nat /\ DOMAIN q = 1 .. n + m /\ DOMAIN r = 1 .. m
  OBVIOUS
<1>2. \A i \in new : i \in 1 .. m /\ i + n \in old /\ r[i] = q[i + n]
  BY <1>1
<1>3. ASSUME NEW i \in old, i > n
      PROVE  i - n \in new /\ i - n \in 1 .. m
  <2>1. i \in 1 .. n + m /\ q[i].key = k
    BY <1>1
  <2>2. i - n \in 1 .. m /\ (i - n) + n = i
    BY <1>1, <1>3, <2>1
  <2>3. r[i - n] = q[i]
    BY <2>2
  <2> QED BY <1>1, <2>1, <2>2, <2>3
<1>4. \A i \in old : i \in 1 .. n + m /\ q[i].key = k
  BY <1>1
<1>5. \A i \in 1 .. n : q[i].key = k => i \in old
  BY <1>1
<1>6. /\ old = {} => (after <=> before)
      /\ \A i \in old : (\A j \in old : i <= j) => (q[i].pressed <=> ~ before)
      /\ \A i \in old : (\A j \in old : j <= i) => (q[i].pressed <=> after)
      /\ \A i, j \in old :
           i < j /\ (\A l \in old : l <= i \/ j <= l) => (q[j].pressed <=> ~ q[i].pressed)
  BY DEF TakesTurns
<1> HIDE DEF old, m
<1> SUFFICES /\ new = {} => (after <=> now)
             /\ \A i \in new : (\A j \in new : i <= j) => (r[i].pressed <=> ~ now)
             /\ \A i \in new : (\A j \in new : j <= i) => (r[i].pressed <=> after)
             /\ \A i, j \in new :
                  i < j /\ (\A l \in new : l <= i \/ j <= l) => (r[j].pressed <=> ~ r[i].pressed)
  BY DEF TakesTurns
<1> HIDE DEF new
<1>7. ASSUME NEW i \in new, \A j \in new : j <= i
      PROVE  r[i].pressed <=> after
  <2>1. ASSUME NEW j \in old
        PROVE  j <= i + n
    <3>1. CASE j <= n
      BY <1>1, <1>2, <1>4, <1>7, <3>1
    <3>2. CASE j > n
      <4>1. j - n \in new /\ j - n \in 1 .. m /\ i \in 1 .. m
        BY <1>2, <1>3, <1>7, <3>2
      <4>2. j - n <= i
        BY <1>7, <4>1
      <4> QED BY <1>1, <1>4, <4>1, <4>2
    <3> QED BY <1>1, <1>4, <3>1, <3>2
  <2> QED BY <1>2, <1>6, <2>1
<1>8. ASSUME NEW i \in new, NEW j \in new, i < j, \A l \in new : l <= i \/ j <= l
      PROVE  r[j].pressed <=> ~ r[i].pressed
  <2>1. ASSUME NEW l \in old
        PROVE  l <= i + n \/ j + n <= l
    <3>1. CASE l <= n
      BY <1>1, <1>2, <1>4, <1>8, <3>1
    <3>2. CASE l > n
      <4>1. l - n \in new /\ l - n \in 1 .. m /\ i \in 1 .. m /\ j \in 1 .. m
        BY <1>2, <1>3, <1>8, <3>2
      <4>2. l - n <= i \/ j <= l - n
        BY <1>8, <4>1
      <4> QED BY <1>1, <1>4, <4>1, <4>2
    <3> QED BY <1>1, <1>4, <3>1, <3>2
  <2>2. i + n < j + n
    BY <1>1, <1>2, <1>8
  <2>3. q[j + n].pressed <=> ~ q[i + n].pressed
    BY <1>2, <1>6, <1>8, <2>1, <2>2
  <2> QED BY <1>2, <1>8, <2>3
<1>9. CASE (\A i \in 1 .. n : q[i].key # k) /\ (now <=> before)
  <2>1. \A i \in old : i > n
    BY <1>1, <1>4, <1>9
  <2>2. new = {} => old = {}
    BY <1>3, <2>1
  <2>3. ASSUME NEW i \in new, \A j \in new : i <= j
        PROVE  r[i].pressed <=> ~ now
    <3>1. \A j \in old : i + n <= j
      BY <1>1, <1>2, <1>3, <1>4, <2>1, <2>3
    <3> QED BY <1>2, <1>6, <1>9, <3>1
  <2> QED BY <1>6, <1>7, <1>8, <1>9, <2>2, <2>3
<1>10. ASSUME NEW last \in 1 .. n, q[last].key = k, \A j \in 1 .. n : q[j].key = k => j <= last,
              now <=> q[last].pressed
       PROVE  /\ new = {} => (after <=> now)
              /\ \A i \in new : (\A j \in new : i <= j) => (r[i].pressed <=> ~ now)
  <2>1. last \in old /\ \A j \in old : j <= n => j <= last
    BY <1>1, <1>4, <1>5, <1>10
  <2>2. ASSUME new = {} PROVE after <=> now
    <3>1. \A j \in old : j <= last
      BY <1>1, <1>3, <1>4, <2>1, <2>2
    <3>2. q[last].pressed <=> after
      BY <1>6, <2>1, <3>1
    <3> QED BY <1>10, <3>2
  <2>3. ASSUME NEW i \in new, \A j \in new : i <= j
        PROVE  r[i].pressed <=> ~ now
    <3>1. last < i + n
      BY <1>1, <1>2
    <3>2. \A l \in old : l <= last \/ i + n <= l
      BY <1>1, <1>2, <1>3, <1>4, <2>1, <2>3
    <3>3. q[i + n].pressed <=> ~ q[last].pressed
      BY <1>2, <1>6, <2>1, <3>1, <3>2
    <3> QED BY <1>2, <1>10, <3>3
  <2> QED BY <2>2, <2>3
<1> QED BY <1>7, <1>8, <1>9, <1>10 DEF IsStateAfter

LEMMA InitTurns == Init => TurnsInv
<1> SUFFICES ASSUME Init, NEW k \in Key
             PROVE  TakesTurns(k, Underway, down[k] # Up, keyMatrix[k])
  BY DEF TurnsInv
<1>1. DOMAIN Underway = {}
  BY DEF Init, Underway
<1>2. down[k] = Up /\ keyMatrix[k] = FALSE
  BY DEF Init
<1> QED BY <1>1, <1>2 DEF TakesTurns

LEMMA SendTurns ==
  ASSUME TypesInv, TurnsInv, NEW x \in Key, NEW pressed \in BOOLEAN, SendKeyEvent(x, pressed)
  PROVE  TurnsInv'
<1> DEFINE e == KeyEvent(x, pressed, clock)
<1>1. e \in Event /\ Underway' = Append(Underway, e) /\ e.key = x /\ (e.pressed <=> pressed)
  BY SendTypes DEF KeyEvent
<1>2. down' = down /\ (pressed <=> ~ keyMatrix[x])
      /\ \A k \in Key : keyMatrix'[k] = IF k = x THEN pressed ELSE keyMatrix[k]
  BY DEF SendKeyEvent, TypesInv
<1> HIDE DEF e
<1>3. ASSUME NEW k \in Key
      PROVE  TakesTurns(k, Underway', down'[k] # Up, keyMatrix'[k])
  <2> DEFINE before == down[k] # Up
             after == keyMatrix[k]
  <2>1. before \in BOOLEAN /\ after \in BOOLEAN
    BY DEF TypesInv
  <2>2. Underway \in Seq(Event)
    BY QueueParts
  <2>3. TakesTurns(k, Underway, before, after)
    BY DEF TurnsInv
  <2>4. e.key = k => (e.pressed <=> ~ after)
    BY <1>1, <1>2
  <2> HIDE DEF before, after
  <2>5. /\ e.key = k => TakesTurns(k, Append(Underway, e), before, e.pressed)
        /\ e.key # k => TakesTurns(k, Append(Underway, e), before, after)
    BY <1>1, <2>1, <2>2, <2>3, <2>4, TurnsAppend
  <2> QED BY <1>1, <1>2, <2>5 DEF before, after, TakesTurns
<1> QED BY <1>3 DEF TurnsInv

LEMMA SimulateTurns ==
  ASSUME TypesInv, TurnsInv, NEW x \in Key, SimulateKeyPress(x)
  PROVE  TurnsInv'
<1> DEFINE d == KeyEvent(x, TRUE, clock)
           u == KeyEvent(x, FALSE, clock + Hold)
<1>1. /\ d \in Event /\ d.key = x /\ d.pressed
      /\ u \in Event /\ u.key = x /\ ~ u.pressed
      /\ keyMatrix[x] => Underway' = Append(Underway, u)
      /\ ~ keyMatrix[x] => Underway' = Append(Append(Underway, d), u)
  BY SimulateTypes DEF KeyEvent
<1>2. down' = down
      /\ \A k \in Key : keyMatrix'[k] = IF k = x THEN FALSE ELSE keyMatrix[k]
  BY DEF SimulateKeyPress, TypesInv
<1> HIDE DEF d, u
<1>3. ASSUME NEW k \in Key
      PROVE  TakesTurns(k, Underway', down'[k] # Up, keyMatrix'[k])
  <2> DEFINE before == down[k] # Up
             after == keyMatrix[k]
             q == Append(Underway, d)
  <2>1. before \in BOOLEAN /\ after \in BOOLEAN
    BY DEF TypesInv
  <2>2. Underway \in Seq(Event) /\ q \in Seq(Event)
    BY <1>1, QueueParts
  <2>3. TakesTurns(k, Underway, before, after)
    BY DEF TurnsInv
  <2> HIDE DEF before
  <2>4. CASE k # x
    <3> HIDE DEF after
    <3>1. \A w \in Seq(Event) : \A e \in {d, u} :
            TakesTurns(k, w, before, after) => TakesTurns(k, Append(w, e), before, after)
      BY <1>1, <2>1, <2>4, TurnsAppend
    <3>2. TakesTurns(k, Underway', before, after)
      BY <1>1, <2>2, <2>3, <3>1
    <3>3. keyMatrix'[k] <=> after
      BY <1>2, <2>4 DEF after
    <3> QED BY <1>2, <3>2, <3>3 DEF before, TakesTurns
  <2>5. CASE k = x /\ keyMatrix[x]
    <3>1. after <=> TRUE
      BY <2>5
    <3> HIDE DEF after
    <3>2. TakesTurns(k, Append(Underway, u), before, u.pressed)
      BY <1>1, <2>1, <2>2, <2>3, <2>5, <3>1, TurnsAppend
    <3>3. Underway' = Append(Underway, u) /\ (keyMatrix'[k] <=> u.pressed) /\ down' = down
      BY <1>1, <1>2, <2>5
    <3> QED BY <3>2, <3>3 DEF before, TakesTurns
  <2>6. CASE k = x /\ ~ keyMatrix[x]
    <3>1. after <=> FALSE
      BY <2>6
    <3> HIDE DEF after
    <3>2. TakesTurns(k, q, before, d.pressed)
      BY <1>1, <2>1, <2>2, <2>3, <2>6, <3>1, TurnsAppend
    <3>3. d.pressed \in BOOLEAN
      BY <1>1 DEF Event
    <3> HIDE DEF q
    <3>4. TakesTurns(k, Append(q, u), before, u.pressed)
      BY <1>1, <2>1, <2>2, <2>6, <3>2, <3>3, TurnsAppend
    <3>5. Underway' = Append(q, u) /\ (keyMatrix'[k] <=> u.pressed) /\ down' = down
      BY <1>1, <1>2, <2>6 DEF q
    <3> QED BY <3>4, <3>5 DEF before, TakesTurns
  <2> QED BY <2>4, <2>5, <2>6
<1> QED BY <1>3 DEF TurnsInv

LEMMA DoKeyEventsTurns ==
  ASSUME TypesInv, TurnsInv, NEW n \in 1 .. Len(keyEvents), down' = AddKeys(n),
         keyEvents' = SubSeq(keyEvents, n + 1, Len(keyEvents)),
         UNCHANGED <<toWorker, keyMatrix>>
  PROVE  TurnsInv'
<1> SUFFICES ASSUME NEW k \in Key
             PROVE  TakesTurns(k, Underway', down'[k] # Up, keyMatrix'[k])
  BY DEF TurnsInv
<1> DEFINE before == down[k] # Up
           after == keyMatrix[k]
           now == down'[k] # Up
<1>1. before \in BOOLEAN /\ after \in BOOLEAN /\ now \in BOOLEAN
  BY DEF TypesInv
<1>2. /\ Underway \in Seq(Event) /\ n \in Nat /\ n <= Len(Underway)
      /\ \A i \in 1 .. n : Underway[i] = keyEvents[i]
  <2>1. keyEvents \in Seq(Event) /\ toWorker \in Seq(Event)
    BY DEF TypesInv
  <2> QED BY <2>1, QueueParts
<1>3. /\ Underway' \in Seq(Event)
      /\ Len(Underway') = Len(Underway) - n
      /\ \A i \in 1 .. Len(Underway) - n : Underway'[i] = Underway[i + n]
  BY DoKeyEventsQueue
<1>4. TakesTurns(k, Underway, before, after)
  BY DEF TurnsInv
<1>5. \A d \in Down : d # Up
  BY DEF Down, Up
<1>6. \/ (\A i \in 1 .. n : Underway[i].key # k) /\ (now <=> before)
      \/ \E last \in 1 .. n : /\ Underway[last].key = k
                              /\ \A j \in 1 .. n : Underway[j].key = k => j <= last
                              /\ now <=> Underway[last].pressed
  <2>1. CASE /\ \A i \in 1 .. n : keyEvents[i].key # k
             /\ down[k] = Up
             /\ AddKeys(n)[k] = Up
    BY <1>2, <2>1
  <2>2. CASE /\ \A i \in 1 .. n : keyEvents[i].key # k
             /\ down[k] \in Down
             /\ AddKeys(n)[k] = [down[k] EXCEPT !.alone = @ /\ Released(1, n)]
    <3>1. [down[k] EXCEPT !.alone = @ /\ Released(1, n)] \in Down
      BY <2>2 DEF Down
    <3> QED BY <1>2, <1>5, <2>2, <3>1
  <2>3. ASSUME NEW last \in 1 .. n, keyEvents[last].key = k,
               \A j \in 1 .. n : keyEvents[j].key = k => j <= last,
               AddKeys(n)[k] = IF keyEvents[last].pressed
                                 THEN [age |-> 0, time |-> keyEvents[last].time,
                                       alone |-> Released(last + 1, n)]
                                 ELSE Up
        PROVE  now <=> Underway[last].pressed
    <3>1. [age |-> 0, time |-> keyEvents[last].time, alone |-> Released(last + 1, n)] # Up
      BY DEF Up
    <3> QED BY <1>2, <2>3, <3>1
  <2>4. CASE \E last \in 1 .. n :
               /\ keyEvents[last].key = k
               /\ \A j \in 1 .. n : keyEvents[j].key = k => j <= last
               /\ AddKeys(n)[k] =
                    IF keyEvents[last].pressed
                      THEN [age |-> 0, time |-> keyEvents[last].time,
                            alone |-> Released(last + 1, n)]
                      ELSE Up
    <3>1. PICK last \in 1 .. n :
            /\ keyEvents[last].key = k
            /\ \A j \in 1 .. n : keyEvents[j].key = k => j <= last
            /\ AddKeys(n)[k] =
                 IF keyEvents[last].pressed
                   THEN [age |-> 0, time |-> keyEvents[last].time,
                         alone |-> Released(last + 1, n)]
                   ELSE Up
      BY <2>4
    <3>2. now <=> Underway[last].pressed
      BY <2>3, <3>1
    <3>3. /\ Underway[last].key = k
          /\ \A j \in 1 .. n : Underway[j].key = k => j <= last
      BY <1>2, <3>1
    <3> HIDE DEF now, before
    <3> QED BY <3>2, <3>3
  <2> HIDE DEF now, before
  <2> QED BY ZenonT(30), <2>1, <2>2, <2>4, AddKeysEffect
<1> HIDE DEF before, after, now
<1>7. TakesTurns(k, Underway', now, after)
  <2> DEFINE q == Underway
             r == Underway'
  <2>1. q \in Seq(Event) /\ r \in Seq(Event) /\ n \in Nat /\ n <= Len(q) /\ Len(r) = Len(q) - n
        /\ (\A i \in 1 .. Len(q) - n : r[i] = q[i + n]) /\ TakesTurns(k, q, before, after)
    BY <1>2, <1>3, <1>4
  <2>2. IsStateAfter(k, q, n, before, now)
    BY <1>6 DEF IsStateAfter
  <2> HIDE DEF q, r
  <2>3. TakesTurns(k, r, now, after)
    BY <1>1, <2>1, <2>2, TurnsDrop
  <2> QED BY <2>3 DEF r
<1> QED BY <1>7 DEF now, after, TakesTurns

LEMMA StepTurns == TypesInv /\ TurnsInv /\ [Next]_vars => TurnsInv'
<1> SUFFICES ASSUME TypesInv, TurnsInv, [Next]_vars PROVE TurnsInv'
  OBVIOUS
<1>1. CASE ServerAddKey
  <2>1. Underway' = Underway /\ UNCHANGED <<down, keyMatrix>>
    BY <1>1, ServerAddKeyKeepsQueue DEF ServerAddKey
  <2> QED BY <2>1 DEF TurnsInv, TakesTurns
<1>2. CASE DoKeyEvents
  BY <1>2, DoKeyEventsTurns DEF DoKeyEvents
<1>3. CASE Pass
  <2>1. Underway' = Underway /\ keyMatrix' = keyMatrix
    BY <1>3 DEF Pass, Underway
  <2>2. \A k \in Key : down'[k] # Up <=> down[k] # Up
    BY <1>3, PassTypes
  <2> QED BY <2>1, <2>2 DEF TurnsInv, TakesTurns
<1>4. CASE UNCHANGED vars
  BY <1>4 DEF vars, TurnsInv, TakesTurns, Underway
<1> QED BY <1>1, <1>2, <1>3, <1>4, SendTurns, SimulateTurns DEF Next

----------------------------------------------------------------------------
(* A press is held.                                                          *)

\* The numbers in the state.
LEMMA Numbers ==
  ASSUME TypesInv
  PROVE  /\ MaxTime \in Nat /\ Hold \in Nat \ {0} /\ wait \in Nat
         /\ 2 * (MaxTime + Hold) < Width /\ Width \in Nat
         /\ Len(keyEvents) \in Nat /\ DOMAIN keyEvents = 1 .. Len(keyEvents)
         /\ \A i \in 1 .. Len(keyEvents) : /\ keyEvents[i].time \in 0 .. MaxTime + Hold
                                           /\ keyEvents[i].pressed \in BOOLEAN
         /\ \A k \in Key : down[k] # Up => /\ down[k] \in Down
                                           /\ down[k].age \in 0 .. Hold
                                           /\ down[k].time \in 0 .. MaxTime + Hold
<1>1. /\ MaxTime \in Nat /\ Hold \in Nat \ {0} /\ wait \in Nat
      /\ 2 * (MaxTime + Hold) < Width /\ Width \in Nat
  BY KeyAssumption DEF TypesInv
<1>2. \A i \in 1 .. Len(keyEvents) : keyEvents[i] \in Event
  BY DEF TypesInv
<1>3. \A k \in Key : down[k] # Up => down[k] \in Down
  BY DEF TypesInv
<1>4. Len(keyEvents) \in Nat /\ DOMAIN keyEvents = 1 .. Len(keyEvents)
  BY DEF TypesInv
<1> QED BY <1>1, <1>2, <1>3, <1>4 DEF Event, Down

\* What is enough for a time stays enough for a later one.
LEMMA EnoughForLater ==
  ASSUME NEW s \in Int, NEW y \in Int, NEW z \in Int, NEW t \in Int, NEW h \in Int,
         y <= z, s + y >= Min2(h, y - t)
  PROVE  s + z >= Min2(h, z - t)
<1>1. CASE h < y - t
  BY <1>1 DEF Min2
<1>2. CASE ~ (h < y - t)
  <2>1. s + y >= y - t
    BY <1>2 DEF Min2
  <2>2. s + z >= z - t
    BY <2>1
  <2> QED BY <2>2 DEF Min2
<1> QED BY <1>1, <1>2

\* What is enough stays enough while time passes.
LEMMA EnoughLater ==
  ASSUME NEW h \in Nat, NEW a \in 0 .. h, NEW w \in Nat, NEW v \in Nat, v >= w - 1,
         NEW d \in Nat, NEW b \in Int, a + w + d >= Min2(h, b)
  PROVE  Min2(a + 1, h) + v + d >= Min2(h, b)
<1>1. Min2(h, b) \in Int /\ Min2(h, b) <= h
  BY DEF Min2
<1>2. CASE a + 1 < h
  <2>1. Min2(a + 1, h) = a + 1
    BY <1>2 DEF Min2
  <2> HIDE DEF Min2
  <2> QED BY <1>1, <2>1
<1>3. CASE ~ (a + 1 < h)
  <2>1. Min2(a + 1, h) = h
    BY <1>3 DEF Min2
  <2> QED BY <1>1, <2>1
<1> QED BY <1>2, <1>3

\* A key that comes last is due as much later as it has a later time.
LEMMA ServerAddKeyHeld ==
  ASSUME TypesInv, HeldInv, ServerAddKey
  PROVE  HeldInv'
<1> DEFINE n == Len(keyEvents)
           e == Head(toWorker)
<1>1. e \in Event /\ keyEvents \in Seq(Event) /\ n \in Nat
  BY DEF TypesInv, ServerAddKey
<1>2. /\ Len(keyEvents') = n + 1 /\ DOMAIN keyEvents' = 1 .. n + 1 /\ keyEvents' # <<>>
      /\ \A i \in 1 .. n : keyEvents'[i] = keyEvents[i]
      /\ keyEvents'[n + 1] = e
  BY <1>1 DEF ServerAddKey
<1>3. /\ down' = down
      /\ n # 0 \/ ~ e.pressed => wait' = wait
  BY <1>1 DEF ServerAddKey
<1>4. e.time \in 0 .. MaxTime + Hold
  BY <1>1 DEF Event
<1> SUFFICES ASSUME NEW k \in Key, down[k] # Up, down[k].alone,
                    NEW i \in 1 .. n + 1, Released(1, i)', Ordered(i)'
             PROVE  down[k].age + wait' + (keyEvents'[i].time - keyEvents'[1].time)
                      >= Min2(Hold, keyEvents'[i].time - down[k].time)
  BY <1>2, <1>3 DEF HeldInv
<1> DEFINE a == down[k].age
           t == down[k].time
<1>5. a \in 0 .. Hold /\ t \in 0 .. MaxTime + Hold
  BY Numbers
<1> HIDE DEF a, t, e
<1>6. /\ \A l \in 1 .. i : ~ keyEvents'[l].pressed
      /\ \A j, l \in 1 .. i : j <= l => keyEvents'[j].time <= keyEvents'[l].time
  BY DEF Released, Ordered
<1>7. CASE i <= n
  <2>1. i \in 1 .. n /\ n # 0
    BY <1>1, <1>7
  <2>2. Released(1, i) /\ Ordered(i)
    BY <1>1, <1>2, <1>6, <2>1 DEF Released, Ordered
  <2>3. a + wait + (keyEvents[i].time - keyEvents[1].time) >= Min2(Hold, keyEvents[i].time - t)
    BY <2>1, <2>2, Numbers DEF HeldInv, a, t
  <2> QED BY <1>2, <1>3, <2>1, <2>3 DEF a, t
<1>8. CASE i = n + 1 /\ n = 0
  <2>1. keyEvents = <<>> /\ keyEvents'[i] = e /\ keyEvents'[1] = e /\ wait' = wait
    BY <1>1, <1>2, <1>3, <1>6, <1>8
  <2>2. a + wait >= Hold
    BY <2>1 DEF HeldInv, a
  <2>3. a + wait + (e.time - e.time) >= Min2(Hold, e.time - t)
    BY <1>4, <1>5, <2>2, Numbers DEF Min2
  <2> QED BY <2>1, <2>3 DEF a, t
<1>9. CASE i = n + 1 /\ n # 0
  <2>1. n \in 1 .. n /\ keyEvents'[i] = e /\ keyEvents'[1] = keyEvents[1] /\ wait' = wait
    BY <1>1, <1>2, <1>3, <1>9
  <2>2. Released(1, n) /\ Ordered(n)
    BY <1>1, <1>2, <1>6, <1>9 DEF Released, Ordered
  <2>3. a + wait + (keyEvents[n].time - keyEvents[1].time) >= Min2(Hold, keyEvents[n].time - t)
    BY <2>1, <2>2, Numbers DEF HeldInv, a, t
  <2>4. keyEvents[n].time <= e.time
    BY <1>1, <1>2, <1>6, <1>9, <2>1
  <2>5. keyEvents[n].time \in 0 .. MaxTime + Hold /\ keyEvents[1].time \in 0 .. MaxTime + Hold
    BY <1>1, <2>1, Numbers
  <2> DEFINE y == keyEvents[n].time
             z == e.time
             first == keyEvents[1].time
             s == a + wait - first
  <2>6. y \in Int /\ z \in Int /\ first \in Int /\ a \in Int /\ t \in Int /\ wait \in Int /\ Hold \in Int
    BY SMTT(30), <1>4, <1>5, <2>5, Numbers
  <2> HIDE DEF y, z, first
  <2>7. s \in Int /\ s + y = a + wait + (y - first) /\ s + z = a + wait + (z - first)
    BY <2>6
  <2>8. s + y >= Min2(Hold, y - t) /\ y <= z
    BY <2>3, <2>4, <2>7 DEF y, z, first
  <2> HIDE DEF s
  <2>9. s + z >= Min2(Hold, z - t)
    BY <2>6, <2>7, <2>8, EnoughForLater
  <2>10. a + wait + (e.time - keyEvents[1].time) >= Min2(Hold, e.time - t)
    BY <2>7, <2>9 DEF z, first
  <2> QED BY <2>1, <2>10 DEF a, t
<1> QED BY <1>1, <1>7, <1>8, <1>9

\* A key is due one millisecond earlier when it is down one millisecond longer.
LEMMA PassHeld ==
  ASSUME TypesInv, HeldInv, Pass
  PROVE  HeldInv'
<1>1. keyEvents' = keyEvents /\ wait' = IF wait > Width \div 2 THEN wait ELSE Max2(wait - 1, 0)
  BY DEF Pass
<1> SUFFICES ASSUME NEW k \in Key, down'[k] # Up, down'[k].alone
             PROVE  /\ keyEvents = <<>> => down'[k].age + wait' >= Hold
                    /\ \A i \in DOMAIN keyEvents : Released(1, i) /\ Ordered(i) =>
                         down'[k].age + wait' + (keyEvents[i].time - keyEvents[1].time)
                           >= Min2(Hold, keyEvents[i].time - down'[k].time)
  BY <1>1 DEF HeldInv, Released, Ordered
<1> DEFINE a == down[k].age
           t == down[k].time
<1>2. /\ down[k] # Up /\ down[k].alone
      /\ down'[k].age = Min2(a + 1, Hold) /\ down'[k].time = t
  BY PassTypes
<1>3. a \in 0 .. Hold /\ t \in 0 .. MaxTime + Hold /\ wait \in Nat /\ Hold \in Nat
  BY <1>2, Numbers
<1> HIDE DEF a, t
<1>4. wait' \in Nat /\ wait' >= wait - 1
  BY <1>1, <1>3 DEF Max2
<1> DEFINE v == wait'
<1> HIDE DEF v
<1>5. ASSUME keyEvents = <<>> PROVE Min2(a + 1, Hold) + wait' >= Hold
  <2>1. a + wait + 0 >= Min2(Hold, Hold)
    <3>1. a + wait >= Hold
      BY <1>2, <1>5 DEF HeldInv, a
    <3> QED BY <1>3, <3>1 DEF Min2
  <2>2. Min2(a + 1, Hold) + v + 0 >= Min2(Hold, Hold)
    <3>1. v \in Nat /\ v >= wait - 1 /\ Hold \in Int /\ 0 \in Nat
      BY <1>3, <1>4 DEF v
    <3> QED BY <1>3, <2>1, <3>1, EnoughLater
  <2>3. v \in Nat
    BY <1>4 DEF v
  <2>4. Min2(a + 1, Hold) + v >= Hold
    BY <1>3, <2>2, <2>3 DEF Min2
  <2> QED BY <2>4 DEF v
<1>6. ASSUME NEW i \in DOMAIN keyEvents, Released(1, i), Ordered(i)
      PROVE  Min2(a + 1, Hold) + wait' + (keyEvents[i].time - keyEvents[1].time)
               >= Min2(Hold, keyEvents[i].time - t)
  <2> DEFINE d == keyEvents[i].time - keyEvents[1].time
             b == keyEvents[i].time - t
  <2>1. a + wait + d >= Min2(Hold, b)
    BY <1>2, <1>6 DEF HeldInv, a, t
  <2>2. i \in 1 .. Len(keyEvents) /\ 1 \in 1 .. i /\ i \in 1 .. i /\ 1 <= i /\ 1 \in 1 .. Len(keyEvents)
    BY Numbers
  <2>3. /\ keyEvents[i].time \in 0 .. MaxTime + Hold /\ keyEvents[1].time \in 0 .. MaxTime + Hold
        /\ keyEvents[1].time <= keyEvents[i].time
    BY <1>6, <2>2, Numbers DEF Ordered
  <2>4. d \in Nat /\ b \in Int
    BY SMTT(30), <1>3, <2>3, Numbers
  <2> HIDE DEF d, b
  <2>5. Min2(a + 1, Hold) + v + d >= Min2(Hold, b)
    <3>1. v \in Nat /\ v >= wait - 1
      BY <1>3, <1>4 DEF v
    <3> QED BY <1>3, <2>1, <2>4, <3>1, EnoughLater
  <2> QED BY <2>5 DEF v, d, b
<1> QED BY <1>2, <1>5, <1>6 DEF a, t

\* After the keys that are due the next one is due as much later as its time is
\* later, be it that of a key that just went down or of one that is down longer.
LEMMA DoKeyEventsHeld ==
  ASSUME TypesInv, HeldInv, DoKeyEvents
  PROVE  HeldInv'
<1>1. PICK n \in 1 .. Len(keyEvents) :
        /\ wait = 0 /\ Together(n)
        /\ down' = AddKeys(n)
        /\ keyEvents' = SubSeq(keyEvents, n + 1, Len(keyEvents))
        /\ wait' = IF n = Len(keyEvents) THEN Hold
                   ELSE (keyEvents[n + 1].time - keyEvents[n].time) % Width
  BY DEF DoKeyEvents
<1> DEFINE m == Len(keyEvents) - n
           first == keyEvents[1].time
<1>2. /\ n \in Nat \ {0} /\ m \in Nat /\ Len(keyEvents) = n + m /\ Len(keyEvents') = m
      /\ DOMAIN keyEvents' = 1 .. m
      /\ \A i \in 1 .. m : keyEvents'[i] = keyEvents[i + n]
  <2>1. toWorker' = toWorker
    BY DEF DoKeyEvents
  <2>2. keyEvents \in Seq(Event) /\ keyEvents' \in Seq(Event) /\ Len(keyEvents') = m
        /\ \A i \in 1 .. m : keyEvents'[i] = keyEvents[i + n]
    BY <1>1, <2>1, DoKeyEventsQueue DEF TypesInv
  <2> QED BY <2>2
<1> HIDE DEF m
<1>3. \A i \in 1 .. n : keyEvents[i].time = first
  BY <1>1 DEF Together
<1>4. \A i \in 1 .. n + m : keyEvents[i].time \in 0 .. MaxTime + Hold
  BY <1>2, Numbers
<1>5. first \in 0 .. MaxTime + Hold
  BY <1>2, <1>4
<1> HIDE DEF first
<1>6. m = 0 => wait' = Hold
  BY <1>1, <1>2
<1>7. ASSUME m # 0
      PROVE  /\ wait' \in Nat
             /\ first <= keyEvents[n + 1].time => wait' = keyEvents[n + 1].time - first
             /\ first > keyEvents[n + 1].time => wait' > MaxTime + Hold
  <2>1. n + 1 \in 1 .. n + m /\ n \in 1 .. n
    BY <1>2, <1>7
  <2>2. wait' = (keyEvents[n + 1].time - first) % Width
    BY <1>1, <1>2, <1>3, <1>7, <2>1
  <2>3. keyEvents[n + 1].time \in 0 .. MaxTime + Hold
    BY <1>4, <2>1
  <2> QED BY <1>5, <2>2, <2>3, Distance
<1> SUFFICES ASSUME NEW k \in Key, down'[k] # Up, down'[k].alone
             PROVE  /\ m = 0 => down'[k].age + wait' >= Hold
                    /\ \A i \in 1 .. m : Released(1, i)' /\ Ordered(i)' =>
                         down'[k].age + wait' + (keyEvents'[i].time - keyEvents'[1].time)
                           >= Min2(Hold, keyEvents'[i].time - down'[k].time)
  <2>1. keyEvents' = <<>> => m = 0
    BY <1>2
  <2> QED BY <1>2, <2>1 DEF HeldInv
<1> DEFINE a == down'[k].age
           t == down'[k].time
<1>8. a \in 0 .. Hold /\ t \in 0 .. MaxTime + Hold
  <2>1. TypesInv'
    BY DoKeyEventsTypes
  <2>2. down'[k] \in Down
    BY <2>1 DEF TypesInv
  <2> QED BY <2>2 DEF Down
\* What is known of the key: it is new, or what the invariant said of it holds.
<1>9. \/ a = 0 /\ t = first
      \/ /\ Released(1, n)
         /\ \A i \in 1 .. n + m : Released(1, i) /\ Ordered(i) =>
              a + (keyEvents[i].time - first) >= Min2(Hold, keyEvents[i].time - t)
  <2>1. CASE /\ down[k] \in Down
             /\ AddKeys(n)[k] = [down[k] EXCEPT !.alone = @ /\ Released(1, n)]
    <3>1. /\ down[k].alone /\ Released(1, n) /\ a = down[k].age /\ t = down[k].time
          /\ down[k] # Up
      BY <1>1, <2>1 DEF Down, Up
    <3>2. ASSUME NEW i \in 1 .. n + m, Released(1, i), Ordered(i)
          PROVE  a + (keyEvents[i].time - first) >= Min2(Hold, keyEvents[i].time - t)
      <4>1. i \in DOMAIN keyEvents
        BY <1>2, Numbers
      <4>2. a + wait + (keyEvents[i].time - keyEvents[1].time) >= Min2(Hold, keyEvents[i].time - t)
        BY <3>1, <3>2, <4>1 DEF HeldInv
      <4>3. a + wait = a
        BY <1>1, <1>8
      <4> QED BY <4>2, <4>3 DEF first
    <3> HIDE DEF a, t
    <3> QED BY <3>1, <3>2
  <2>2. ASSUME NEW last \in 1 .. n,
               AddKeys(n)[k] = IF keyEvents[last].pressed
                                 THEN [age |-> 0, time |-> keyEvents[last].time,
                                       alone |-> Released(last + 1, n)]
                                 ELSE Up
        PROVE  a = 0 /\ t = first
    BY <1>1, <1>3, <2>2
  <2>3. AddKeys(n)[k] # Up
    BY <1>1
  <2> QED BY <2>1, <2>2, <2>3, AddKeysEffect
<1> HIDE DEF a, t
<1>10. ASSUME m = 0 PROVE a + wait' >= Hold
  BY <1>6, <1>8, <1>10, KeyAssumption
<1>11. ASSUME NEW i \in 1 .. m, Released(1, i)', Ordered(i)'
       PROVE  a + wait' + (keyEvents'[i].time - keyEvents'[1].time)
                >= Min2(Hold, keyEvents'[i].time - t)
  <2> DEFINE x == keyEvents[n + 1].time
             y == keyEvents[i + n].time
  <2>1. m # 0 /\ i + n \in 1 .. n + m /\ n + 1 \in 1 .. n + m /\ 1 \in 1 .. m
    BY <1>2
  <2>2. /\ keyEvents'[i].time = y /\ keyEvents'[1].time = x
        /\ x \in 0 .. MaxTime + Hold /\ y \in 0 .. MaxTime + Hold
    <3>1. keyEvents'[i] = keyEvents[i + n] /\ keyEvents'[1] = keyEvents[1 + n] /\ 1 + n = n + 1
      BY <1>2, <2>1
    <3>2. x \in 0 .. MaxTime + Hold /\ y \in 0 .. MaxTime + Hold
      BY <1>4, <2>1
    <3> QED BY <3>1, <3>2
  <2>3. /\ \A l \in 1 .. i : ~ keyEvents'[l].pressed
        /\ \A j, l \in 1 .. i : j <= l => keyEvents'[j].time <= keyEvents'[l].time
    BY <1>11 DEF Released, Ordered
  <2>4. x <= y
    <3>1. 1 \in 1 .. i /\ i \in 1 .. i /\ 1 <= i
      BY <1>2
    <3> QED BY <2>2, <2>3, <3>1
  <2>5. CASE first > x
    <3>1. wait' > MaxTime + Hold /\ wait' \in Nat
      BY <1>7, <2>1, <2>5
    <3> HIDE DEF x, y
    <3> DEFINE v == wait'
               d == y - x
               b == y - t
    <3>2. v \in Nat /\ v > Hold /\ d \in Nat /\ b \in Int /\ Hold \in Nat /\ a \in Nat
      BY <1>8, <2>2, <2>4, <3>1, KeyAssumption
    <3> HIDE DEF v, d, b
    <3>3. a + v + d >= Min2(Hold, b)
      BY <3>2 DEF Min2
    <3> QED BY <2>2, <3>3 DEF v, d, b
  <2>6. CASE first <= x
    <3>1. wait' = x - first
      BY <1>7, <2>1, <2>6
    <3>2. a + (y - first) >= Min2(Hold, y - t)
      <4>1. CASE a = 0 /\ t = first
        <5> HIDE DEF x, y
        <5> QED BY <1>5, <2>2, <4>1, KeyAssumption DEF Min2
      <4>2. CASE /\ Released(1, n)
                 /\ \A h \in 1 .. n + m : Released(1, h) /\ Ordered(h) =>
                      a + (keyEvents[h].time - first) >= Min2(Hold, keyEvents[h].time - t)
        <5>1. \A l \in 1 .. i + n : l > n => l - n \in 1 .. i /\ l - n \in 1 .. m
          BY <1>2
        <5>2. Released(1, i + n)
          <6>1. ASSUME NEW l \in 1 .. i + n PROVE ~ keyEvents[l].pressed
            <7>1. CASE l <= n
              BY <1>2, <4>2, <7>1 DEF Released
            <7>2. CASE l > n
              <8>1. l - n \in 1 .. i /\ l - n \in 1 .. m /\ (l - n) + n = l
                BY <1>2, <5>1, <7>2
              <8> QED BY <1>2, <2>3, <8>1
            <7> QED BY <1>2, <7>1, <7>2
          <6> QED BY <6>1 DEF Released
        <5>3. Ordered(i + n)
          <6>1. \A l \in 1 .. i : keyEvents[l + n].time = keyEvents'[l].time
            BY <1>2
          <6>2. \A l \in 1 .. i : x <= keyEvents[l + n].time
            <7>1. \A l \in 1 .. i : 1 \in 1 .. i /\ 1 <= l
              OBVIOUS
            <7> QED BY <2>2, <2>3, <6>1, <7>1
          <6>3. ASSUME NEW j \in 1 .. i + n, NEW l \in 1 .. i + n, j <= l
                PROVE  keyEvents[j].time <= keyEvents[l].time
            <7>1. keyEvents[j].time \in 0 .. MaxTime + Hold /\ keyEvents[l].time \in 0 .. MaxTime + Hold
              BY <1>2, <1>4
            <7>2. CASE l <= n
              <8>1. keyEvents[j].time = first /\ keyEvents[l].time = first
                BY <1>2, <1>3, <6>3, <7>2
              <8> QED BY <7>1, <8>1
            <7>3. CASE j <= n /\ l > n
              <8>1. keyEvents[j].time = first
                BY <1>2, <1>3, <7>3
              <8>2. l - n \in 1 .. i /\ (l - n) + n = l
                BY <1>2, <5>1, <7>3
              <8>3. x <= keyEvents[l].time
                BY <6>2, <8>2
              <8> HIDE DEF x, y
              <8> QED BY <1>5, <2>2, <2>6, <7>1, <8>1, <8>3
            <7>4. CASE j > n
              <8>1. /\ l - n \in 1 .. i /\ (l - n) + n = l
                    /\ j - n \in 1 .. i /\ (j - n) + n = j /\ j - n <= l - n
                BY SMTT(30), <1>2, <5>1, <6>3, <7>4
              <8> QED BY <2>3, <6>1, <8>1
            <7> QED BY <1>2, <7>2, <7>3, <7>4
          <6> QED BY <6>3 DEF Ordered
        <5> QED BY <2>1, <4>2, <5>2, <5>3
      <4> QED BY <1>9, <4>1, <4>2
    <3> HIDE DEF x, y
    <3>3. a + wait' + (y - x) = a + (y - first)
      BY <1>5, <1>8, <2>2, <3>1, KeyAssumption
    <3> QED BY <2>2, <3>2, <3>3
  <2> QED BY <1>5, <2>2, <2>5, <2>6
<1> QED BY <1>10, <1>11 DEF a, t

LEMMA StepHeld == TypesInv /\ HeldInv /\ [Next]_vars => HeldInv'
<1> SUFFICES ASSUME TypesInv, HeldInv, [Next]_vars PROVE HeldInv'
  OBVIOUS
<1>1. ASSUME UNCHANGED <<keyEvents, wait, down>> PROVE HeldInv'
  BY <1>1 DEF HeldInv, Released, Ordered
<1>2. CASE \/ \E k \in Key, pressed \in BOOLEAN : SendKeyEvent(k, pressed)
           \/ \E k \in Key : SimulateKeyPress(k)
           \/ UNCHANGED vars
  BY <1>1, <1>2 DEF SendKeyEvent, SimulateKeyPress, vars
<1> QED BY <1>2, ServerAddKeyHeld, DoKeyEventsHeld, PassHeld DEF Next

----------------------------------------------------------------------------
(* A key is due.                                                             *)

\* A queue whose times are in order, none after the newest, stays so when an
\* event comes that has the newest time of all.
LEMMA OrderAppend ==
  ASSUME NEW q \in Seq(Event), NEW e \in Event, NEW old \in Int,
         \A i, j \in DOMAIN q : i <= j => q[i].time <= q[j].time,
         \A i \in DOMAIN q : q[i].time <= old,
         old <= e.time
  PROVE  /\ \A i, j \in DOMAIN Append(q, e) : i <= j => Append(q, e)[i].time <= Append(q, e)[j].time
         /\ \A i \in DOMAIN Append(q, e) : Append(q, e)[i].time <= e.time
<1> DEFINE n == Len(q)
           r == Append(q, e)
<1>1. /\ n \in Nat /\ DOMAIN q = 1 .. n /\ DOMAIN r = 1 .. n + 1
      /\ \A i \in 1 .. n : r[i] = q[i]
      /\ r[n + 1] = e
  OBVIOUS
<1>2. e.time \in Int /\ \A i \in 1 .. n : q[i].time \in Int
  <2>1. \A i \in 1 .. n : q[i] \in Event
    BY <1>1
  <2>2. \A x \in Event : x.time \in Int
    BY KeyAssumption DEF Event
  <2> HIDE DEF n
  <2> QED BY <2>1, <2>2
<1> HIDE DEF n, r
<1>3. ASSUME NEW i \in 1 .. n + 1 PROVE r[i].time <= e.time
  <2>1. CASE i = n + 1
    BY <1>1, <1>2, <2>1
  <2>2. CASE i # n + 1
    <3>1. i \in 1 .. n
      BY <1>1, <2>2
    <3> QED BY <1>1, <1>2, <3>1
  <2> QED BY <2>1, <2>2
<1>4. ASSUME NEW i \in 1 .. n + 1, NEW j \in 1 .. n + 1, i <= j
      PROVE  r[i].time <= r[j].time
  <2>1. CASE j = n + 1
    BY <1>1, <1>3, <2>1
  <2>2. CASE j # n + 1
    <3>1. i \in 1 .. n /\ j \in 1 .. n
      BY <1>1, <1>4, <2>2
    <3> QED BY <1>1, <1>4, <3>1
  <2> QED BY <2>1, <2>2
<1> QED BY <1>1, <1>3, <1>4 DEF r

LEMMA InitDue == Init => DueInv /\ StuckInv
<1> SUFFICES ASSUME Init PROVE DueInv /\ StuckInv
  OBVIOUS
<1>1. DOMAIN Underway = {}
  BY DEF Init, Underway
<1>2. wait = 0 /\ 0 <= MaxTime + Hold /\ ~ (0 > MaxTime + Hold)
  BY KeyAssumption DEF Init
<1> QED BY <1>1, <1>2 DEF DueInv, StuckInv

LEMMA SendDue ==
  ASSUME TypesInv, DueInv, NEW k \in Key, NEW pressed \in BOOLEAN, SendKeyEvent(k, pressed)
  PROVE  DueInv'
<1> DEFINE e == KeyEvent(k, pressed, clock)
<1>1. /\ e \in Event /\ e.time = clock /\ Underway' = Append(Underway, e)
      /\ newest' = clock /\ back' = (back \/ clock < newest)
      /\ Underway \in Seq(Event) /\ newest \in Int /\ clock \in Int
  BY SendTypes, QueueParts, KeyAssumption DEF KeyEvent, TypesInv
<1> HIDE DEF e
<1> SUFFICES ASSUME ~ back'
             PROVE  DueInv'
  BY DEF DueInv
<1>2. ~ back /\ newest <= e.time /\ wait' = wait
  <2>1. ~ back /\ ~ (clock < newest)
    BY <1>1, Zenon
  <2> QED BY <1>1, <2>1 DEF SendKeyEvent
<1>3. /\ \A i, j \in DOMAIN Underway' : i <= j => Underway'[i].time <= Underway'[j].time
      /\ \A i \in DOMAIN Underway' : Underway'[i].time <= e.time
  BY <1>1, <1>2, OrderAppend DEF DueInv
<1> QED BY <1>1, <1>2, <1>3 DEF DueInv

LEMMA SimulateDue ==
  ASSUME TypesInv, DueInv, NEW k \in Key, SimulateKeyPress(k)
  PROVE  DueInv'
<1> DEFINE d == KeyEvent(k, TRUE, clock)
           u == KeyEvent(k, FALSE, clock + Hold)
           q == Append(Underway, d)
<1>1. /\ d \in Event /\ d.time = clock /\ u \in Event /\ u.time = clock + Hold
      /\ keyMatrix[k] => /\ Underway' = Append(Underway, u)
                         /\ back' = (back \/ clock + Hold < newest)
      /\ ~ keyMatrix[k] => /\ Underway' = Append(Append(Underway, d), u)
                           /\ back' = (back \/ clock < newest)
      /\ newest' = clock + Hold
  BY SimulateTypes DEF KeyEvent
<1>2. Underway \in Seq(Event) /\ newest \in Int /\ clock \in Int /\ Hold \in Nat
  BY QueueParts, KeyAssumption DEF TypesInv
<1> HIDE DEF d, u
<1> SUFFICES ASSUME ~ back'
             PROVE  DueInv'
  BY DEF DueInv
<1>3. ~ back /\ wait' = wait
  <2>1. ~ back
    BY <1>1, Zenon
  <2> QED BY <2>1 DEF SimulateKeyPress
<1>9. /\ keyMatrix[k] => ~ (clock + Hold < newest)
      /\ ~ keyMatrix[k] => ~ (clock < newest)
  BY <1>1, Zenon
<1>4. /\ \A i, j \in DOMAIN Underway : i <= j => Underway[i].time <= Underway[j].time
      /\ \A i \in DOMAIN Underway : Underway[i].time <= newest
  BY <1>3 DEF DueInv
<1>5. /\ \A i, j \in DOMAIN Underway' : i <= j => Underway'[i].time <= Underway'[j].time
      /\ \A i \in DOMAIN Underway' : Underway'[i].time <= u.time
  <2>1. CASE keyMatrix[k]
    <3>1. newest <= u.time
      BY <1>1, <1>2, <1>9, <2>1
    <3> QED BY <1>1, <1>2, <1>4, <2>1, <3>1, OrderAppend
  <2>2. CASE ~ keyMatrix[k]
    <3>1. newest <= d.time /\ d.time <= u.time /\ d.time \in Int
      BY <1>1, <1>2, <1>9, <2>2
    <3>2. /\ q \in Seq(Event)
          /\ \A i, j \in DOMAIN q : i <= j => q[i].time <= q[j].time
          /\ \A i \in DOMAIN q : q[i].time <= d.time
      <4>1. q \in Seq(Event)
        BY <1>1, <1>2
      <4> QED BY <1>1, <1>2, <1>4, <3>1, <4>1, OrderAppend
    <3>3. Underway' = Append(q, u)
      BY <1>1, <2>2
    <3> HIDE DEF q
    <3> QED BY <1>1, <3>1, <3>2, <3>3, OrderAppend
  <2> QED BY <2>1, <2>2
<1> QED BY <1>1, <1>3, <1>5 DEF DueInv

LEMMA DoKeyEventsDue ==
  ASSUME TypesInv, DueInv, DoKeyEvents
  PROVE  DueInv' /\ StuckInv'
<1>1. PICK n \in 1 .. Len(keyEvents) :
        /\ keyEvents' = SubSeq(keyEvents, n + 1, Len(keyEvents))
        /\ wait' = IF n = Len(keyEvents) THEN Hold
                   ELSE (keyEvents[n + 1].time - keyEvents[n].time) % Width
  BY DEF DoKeyEvents
<1>2. UNCHANGED <<toWorker, newest, back>>
  BY DEF DoKeyEvents
<1> DEFINE m == Len(Underway) - n
<1>3. /\ keyEvents' \in Seq(Event) /\ Len(keyEvents') = Len(keyEvents) - n
      /\ Underway \in Seq(Event) /\ Len(keyEvents) \in Nat
      /\ Len(Underway) \in Nat /\ Len(keyEvents) <= Len(Underway)
      /\ \A i \in 1 .. Len(keyEvents) : Underway[i] = keyEvents[i]
      /\ m \in Nat /\ DOMAIN Underway = 1 .. n + m /\ DOMAIN Underway' = 1 .. m
      /\ \A i \in 1 .. m : Underway'[i] = Underway[i + n]
  <2>1. /\ keyEvents' \in Seq(Event) /\ Len(keyEvents') = Len(keyEvents) - n
        /\ Underway' \in Seq(Event) /\ Len(Underway') = m
        /\ \A i \in 1 .. m : Underway'[i] = Underway[i + n]
    BY <1>1, <1>2, DoKeyEventsQueue
  <2>2. /\ Underway \in Seq(Event)
        /\ Len(Underway) = Len(keyEvents) + Len(toWorker)
        /\ \A i \in 1 .. Len(keyEvents) : Underway[i] = keyEvents[i]
    BY QueueParts
  <2>3. Len(keyEvents) \in Nat /\ Len(toWorker) \in Nat
    BY DEF TypesInv
  <2> DEFINE q == Underway
             r == Underway'
  <2>4. DOMAIN q = 1 .. Len(q) /\ DOMAIN r = 1 .. Len(r)
    <3>1. q \in Seq(Event) /\ r \in Seq(Event)
      BY <2>1, <2>2
    <3> HIDE DEF q, r
    <3> QED BY <3>1
  <2> HIDE DEF q, r
  <2>5. m \in Nat /\ Len(Underway) = n + m /\ Len(Underway) \in Nat /\ Len(keyEvents) <= Len(Underway)
    BY <2>2, <2>3
  <2> QED BY <2>1, <2>2, <2>3, <2>4, <2>5 DEF q, r
<1>4. /\ MaxTime + Hold \in Nat /\ Hold <= MaxTime + Hold /\ MaxTime \in Nat /\ Hold \in Nat
      /\ \A i \in 1 .. Len(keyEvents) : keyEvents[i].time \in 0 .. MaxTime + Hold
  BY Numbers
<1>5. ~ back => wait' <= MaxTime + Hold
  <2>1. CASE n = Len(keyEvents)
    BY <1>1, <1>4, <2>1
  <2>2. ASSUME n # Len(keyEvents), ~ back PROVE wait' <= MaxTime + Hold
    <3> DEFINE s == keyEvents[n].time
               t == keyEvents[n + 1].time
    <3>1. n \in 1 .. Len(keyEvents) /\ n + 1 \in 1 .. Len(keyEvents)
      BY <1>3, <2>2
    <3>2. n \in DOMAIN Underway /\ n + 1 \in DOMAIN Underway /\ n <= n + 1
      BY <1>3, <3>1
    <3>3. s <= t
      BY <1>3, <2>2, <3>1, <3>2 DEF DueInv
    <3>4. s \in 0 .. MaxTime + Hold /\ t \in 0 .. MaxTime + Hold
      BY <1>4, <3>1
    <3>5. wait' = (t - s) % Width
      BY <1>1, <2>2
    <3> HIDE DEF s, t
    <3>6. wait' = t - s
      BY <3>3, <3>4, <3>5, Distance
    <3> QED BY <1>4, <3>4, <3>6
  <2> QED BY <2>1, <2>2
<1>6. ASSUME ~ back
      PROVE  /\ \A i, j \in DOMAIN Underway' : i <= j => Underway'[i].time <= Underway'[j].time
             /\ \A i \in DOMAIN Underway' : Underway'[i].time <= newest
  <2>1. \A i \in 1 .. m : i + n \in 1 .. n + m
    BY <1>3
  <2>2. \A i, j \in 1 .. m : i <= j => i + n <= j + n
    BY <1>3
  <2>3. \A i \in 1 .. m : Underway'[i] = Underway[i + n] /\ i + n \in DOMAIN Underway
    BY <1>3, <2>1
  <2>4. /\ \A i, j \in DOMAIN Underway : i <= j => Underway[i].time <= Underway[j].time
        /\ \A i \in DOMAIN Underway : Underway[i].time <= newest
    BY <1>6 DEF DueInv
  <2> DEFINE q == Underway
             r == Underway'
  <2>5. /\ \A i \in 1 .. m : r[i] = q[i + n] /\ i + n \in DOMAIN q
        /\ \A i, j \in DOMAIN q : i <= j => q[i].time <= q[j].time
        /\ \A i \in DOMAIN q : q[i].time <= newest
        /\ DOMAIN r = 1 .. m
    BY <1>3, <2>3, <2>4
  <2> HIDE DEF m, q, r
  <2>6. /\ \A i, j \in DOMAIN r : i <= j => r[i].time <= r[j].time
        /\ \A i \in DOMAIN r : r[i].time <= newest
    BY <2>2, <2>5
  <2> QED BY <2>6 DEF r
<1>7. StuckInv'
  <2> SUFFICES ASSUME wait' > MaxTime + Hold
               PROVE  keyEvents' # <<>> /\ wait' > Width \div 2
    BY DEF StuckInv
  <2>1. n # Len(keyEvents)
    <3>1. n = Len(keyEvents) => wait' = Hold
      BY <1>1
    <3>2. wait' # Hold
      BY <1>4
    <3> QED BY <3>1, <3>2
  <2>2. n \in 1 .. Len(keyEvents) /\ n + 1 \in 1 .. Len(keyEvents) /\ Len(keyEvents') # 0
    BY <1>3, <2>1
  <2> DEFINE s == keyEvents[n].time
             t == keyEvents[n + 1].time
  <2>3. s \in 0 .. MaxTime + Hold /\ t \in 0 .. MaxTime + Hold /\ wait' = (t - s) % Width
    BY <1>1, <1>4, <2>1, <2>2
  <2> HIDE DEF s, t
  <2>4. wait' > Width \div 2
    BY <2>3, FarDistance
  <2> QED BY <2>2, <2>4
<1> QED BY <1>2, <1>5, <1>6, <1>7 DEF DueInv

\* The other steps either leave the time until the next key is due or shorten it.
LEMMA ServerAddKeyDue ==
  ASSUME TypesInv, DueInv, StuckInv, ServerAddKey
  PROVE  DueInv' /\ StuckInv'
<1>1. Underway' = Underway /\ UNCHANGED <<newest, back>>
  BY ServerAddKeyKeepsQueue DEF ServerAddKey
<1>2. wait' = wait \/ wait' = 0
  BY DEF ServerAddKey
<1>3. 0 <= MaxTime + Hold /\ ~ (0 > MaxTime + Hold)
  BY Numbers
<1>4. Len(keyEvents') # 0
  BY DEF ServerAddKey, TypesInv
<1> QED BY <1>1, <1>2, <1>3, <1>4 DEF DueInv, StuckInv

LEMMA PassDue ==
  ASSUME TypesInv, DueInv, StuckInv, Pass
  PROVE  DueInv' /\ StuckInv'
<1>1. UNCHANGED <<keyEvents, toWorker, newest, back>>
      /\ wait' = IF wait > Width \div 2 THEN wait ELSE Max2(wait - 1, 0)
  BY DEF Pass
<1>2. wait \in Nat /\ MaxTime + Hold \in Nat
  BY Numbers
<1>3. Underway' = Underway
  BY <1>1 DEF Underway
<1>4. CASE wait > Width \div 2
  BY <1>1, <1>3, <1>4 DEF DueInv, StuckInv
<1>5. CASE ~ (wait > Width \div 2)
  <2>1. wait <= MaxTime + Hold
    BY <1>2, <1>5 DEF StuckInv
  <2>2. wait' = Max2(wait - 1, 0)
    BY <1>1, <1>5
  <2>3. wait' <= MaxTime + Hold /\ ~ (wait' > MaxTime + Hold)
    BY <1>2, <2>1, <2>2 DEF Max2
  <2> QED BY <1>1, <1>3, <2>3 DEF DueInv, StuckInv
<1> QED BY <1>4, <1>5

LEMMA StepDue == TypesInv /\ DueInv /\ StuckInv /\ [Next]_vars => DueInv' /\ StuckInv'
<1> SUFFICES ASSUME TypesInv, DueInv, StuckInv, [Next]_vars PROVE DueInv' /\ StuckInv'
  OBVIOUS
<1>1. CASE UNCHANGED vars
  BY <1>1 DEF vars, DueInv, StuckInv, Underway
<1>2. ASSUME NEW k \in Key, NEW pressed \in BOOLEAN, SendKeyEvent(k, pressed)
      PROVE  DueInv' /\ StuckInv'
  <2>1. UNCHANGED <<keyEvents, wait>>
    BY <1>2 DEF SendKeyEvent
  <2> QED BY <1>2, <2>1, SendDue DEF StuckInv
<1>3. ASSUME NEW k \in Key, SimulateKeyPress(k)
      PROVE  DueInv' /\ StuckInv'
  <2>1. UNCHANGED <<keyEvents, wait>>
    BY <1>3 DEF SimulateKeyPress
  <2> QED BY <1>3, <2>1, SimulateDue DEF StuckInv
<1> QED BY <1>1, <1>2, <1>3, ServerAddKeyDue, DoKeyEventsDue, PassDue DEF Next

----------------------------------------------------------------------------
(* The theorems.                                                             *)

LEMMA InitHeld == Init => HeldInv
BY DEF Init, HeldInv

LEMMA Invariance == Spec => []IInv
<1>1. Init => IInv
  BY InitTypes, InitTurns, InitHeld, InitDue DEF IInv
<1>2. IInv /\ [Next]_vars => IInv'
  BY StepTypes, StepTurns, StepHeld, StepDue DEF IInv
<1> QED BY <1>1, <1>2, PTL DEF Spec

\* The state has its type; and for every key the presses and releases that wait
\* take turns, from what the programs see to what the client's matrix says, however
\* calls, messages and looks at the queue interleave.
THEOREM KeysTypeCorrect == Spec => []TypeOK
<1>1. IInv => TypeOK
  BY DEF IInv, TypesInv, TurnsInv, Underway, TypeOK
<1> QED BY <1>1, Invariance, PTL

\* The release that is taken is among the keys that are due together.
LEMMA ReleaseIsTaken ==
  ASSUME IInv, NEW n \in 1 .. Len(keyEvents), NEW k \in Key, down[k] # Up, AddKeys(n)[k] = Up,
         NEW i \in 1 .. Len(keyEvents), keyEvents[i].key = k, Released(1, i)
  PROVE  i <= n
<1> SUFFICES ASSUME n < i PROVE FALSE
  BY DEF IInv, TypesInv
<1>1. Len(keyEvents) \in Nat /\ i - 1 \in Nat /\ n <= i - 1
  BY Numbers DEF IInv
<1> DEFINE T == {j \in 1 .. i - 1 : keyEvents[j].key = k}
<1>2. T # {}
  <2>1. \A d \in Down : [d EXCEPT !.alone = @ /\ Released(1, n)] # Up
    <3>1. \A d \in Down : [d EXCEPT !.alone = @ /\ Released(1, n)] \in Down
      BY DEF Down
    <3> QED BY <3>1 DEF Down, Up
  <2>2. \E last \in 1 .. n : keyEvents[last].key = k
    BY ZenonT(30), <2>1, AddKeysEffect DEF IInv
  <2> QED BY <1>1, <2>2
<1>3. PICK p \in T : \A j \in T : j <= p
  <2>1. T \in SUBSET (1 .. i - 1)
    OBVIOUS
  <2> HIDE DEF T
  <2> QED BY <1>1, <1>2, <2>1, LastPlace
<1> DEFINE mine == {j \in DOMAIN Underway : Underway[j].key = k}
<1>4. /\ DOMAIN Underway = 1 .. Len(Underway) /\ Len(Underway) \in Nat
      /\ Len(keyEvents) <= Len(Underway)
      /\ \A j \in 1 .. Len(keyEvents) : Underway[j] = keyEvents[j]
  BY QueueParts, <1>1 DEF IInv, TypesInv
<1>5. p \in 1 .. Len(keyEvents) /\ p < i /\ p \in 1 .. i /\ i \in 1 .. i
  BY <1>1, <1>3
<1>6. p \in mine /\ i \in mine
  BY <1>3, <1>4, <1>5
<1>7. \A l \in mine : l <= p \/ i <= l
  <2>1. ASSUME NEW l \in mine, l < i PROVE l <= p
    <3>1. l \in 1 .. i - 1 /\ l \in 1 .. Len(keyEvents)
      BY <1>1, <1>4, <2>1
    <3>2. l \in T
      BY <1>4, <2>1, <3>1
    <3> QED BY <1>3, <3>2
  <2> QED BY <1>4, <1>5, <2>1
<1>8. Underway[i].pressed <=> ~ Underway[p].pressed
  <2>1. TakesTurns(k, Underway, down[k] # Up, keyMatrix[k])
    BY DEF IInv, TurnsInv
  <2> QED BY <1>5, <1>6, <1>7, <2>1 DEF TakesTurns
<1>9. ~ Underway[i].pressed /\ ~ Underway[p].pressed
  BY <1>4, <1>5 DEF Released
<1> QED BY <1>8, <1>9

\* A key that is pressed and released with no other one in between is down as long
\* as the client saw it, or Hold at least, however late the machine is and however
\* the messages are spread.
THEOREM PressesStayHeld == Spec => PressesAreHeld
<1> DEFINE Held == \A k \in Key, i \in DOMAIN keyEvents :
       /\ down[k] # Up /\ down'[k] = Up
       /\ keyEvents[i].key = k
       /\ down[k].alone /\ \A j \in 1 .. i : ~ keyEvents[j].pressed
       => down[k].age >= Min2(Hold, keyEvents[i].time - down[k].time)
<1>1. ASSUME IInv, [Next]_vars PROVE Held
  <2> SUFFICES ASSUME NEW k \in Key, NEW i \in DOMAIN keyEvents,
                      down[k] # Up, down'[k] = Up, keyEvents[i].key = k, down[k].alone,
                      \A j \in 1 .. i : ~ keyEvents[j].pressed
               PROVE  down[k].age >= Min2(Hold, keyEvents[i].time - down[k].time)
    OBVIOUS
  <2>1. TypesInv
    BY <1>1 DEF IInv
  <2>2. DoKeyEvents
    <3>1. ~ Pass
      BY <2>1, PassTypes
    <3>2. down' # down
      OBVIOUS
    <3> QED BY <1>1, <3>1, <3>2 DEF Next, vars, SendKeyEvent, SimulateKeyPress, ServerAddKey
  <2>3. PICK n \in 1 .. Len(keyEvents) : wait = 0 /\ Together(n) /\ down' = AddKeys(n)
    BY <2>2 DEF DoKeyEvents
  <2>4. i \in 1 .. Len(keyEvents) /\ Released(1, i)
    BY <2>1, Numbers DEF Released
  <2>5. i <= n
    BY <1>1, <2>3, <2>4, ReleaseIsTaken
  <2>6. \A j \in 1 .. i : keyEvents[j].time = keyEvents[1].time
    BY <2>3, <2>4, <2>5 DEF Together
  <2>7. Len(keyEvents) \in Nat /\ i \in 1 .. i /\ 1 \in 1 .. Len(keyEvents)
    BY <2>1, <2>4, Numbers
  <2>8. keyEvents[1].time \in Int /\ keyEvents[i].time = keyEvents[1].time
    BY <2>1, <2>6, <2>7, Numbers
  <2>9. Ordered(i)
    BY <2>6, <2>8 DEF Ordered
  <2>10. down[k].age + wait + (keyEvents[i].time - keyEvents[1].time)
           >= Min2(Hold, keyEvents[i].time - down[k].time)
    BY <1>1, <2>4, <2>9 DEF IInv, HeldInv
  <2>11. down[k].age \in Nat /\ wait = 0
    BY <2>1, <2>3, Numbers
  <2>12. down[k].age + wait + (keyEvents[i].time - keyEvents[1].time) = down[k].age
    BY <2>8, <2>11
  <2> QED BY <2>10, <2>12
<1>2. IInv /\ [Next]_vars => [Held]_vars
  BY <1>1
<1>3. Spec => [][Held]_vars
  BY <1>2, Invariance, PTL DEF Spec
<1> QED BY <1>3 DEF PressesAreHeld

\* As long as the times of the client never went back the next key is due within
\* a time that the client saw pass.
NeverStuck == ~ back => wait <= MaxTime + Hold

\* The core of KeysGetThrough: without a time that goes back no key waits for
\* longer than the client's time, however its messages are spread.
THEOREM KeysBecomeDue == Spec => []NeverStuck
<1>1. IInv => NeverStuck
  BY DEF IInv, DueInv, NeverStuck
<1> QED BY <1>1, Invariance, PTL

\* The next key is not due any sooner, and no key goes down or up.
NoKeyMoves == wait' = wait /\ \A k \in Key : down'[k] = Up <=> down[k] = Up

StaysStuck == [][wait > MaxTime + Hold => NoKeyMoves]_vars

\* Once a key waits for longer than that, because a time went back, no key goes
\* down or up in the machine any more, whatever the client sends after it.
THEOREM StuckForGood == Spec => StaysStuck
<1>1. ASSUME IInv, [Next]_vars, wait > MaxTime + Hold PROVE NoKeyMoves
  <2>1. TypesInv /\ keyEvents # <<>> /\ wait > Width \div 2 /\ wait # 0
    BY <1>1, KeyAssumption DEF IInv, StuckInv, TypesInv
  <2>2. ~ DoKeyEvents
    BY <2>1 DEF DoKeyEvents
  <2>3. CASE Pass
    BY <2>1, <2>3, PassTypes DEF Pass, NoKeyMoves
  <2>4. CASE ServerAddKey
    BY <2>1, <2>4 DEF ServerAddKey, NoKeyMoves
  <2>5. CASE UNCHANGED <<wait, down>>
    BY <2>5 DEF NoKeyMoves
  <2> QED BY <1>1, <2>2, <2>3, <2>4, <2>5 DEF Next, vars, SendKeyEvent, SimulateKeyPress
<1>2. IInv /\ [Next]_vars => [wait > MaxTime + Hold => NoKeyMoves]_vars
  BY <1>1
<1> QED BY <1>2, Invariance, PTL DEF Spec, StaysStuck

============================================================================
