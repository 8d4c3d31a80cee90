---------------------------- MODULE NetworkProofs ----------------------------
(* Theorems about Network, for every set of peers and every bound: the types  *)
(* with either transport, the settling of calls with the worker's queues.      *)
EXTENDS Network, TLAPS

----------------------------------------------------------------------------
(* The inductive invariants.                                                 *)

\* A connect message names a server.
NamesServer == \A i \in DOMAIN toWorker : toWorker[i].name = "connect" => toWorker[i].peer \in Peer

IsCall(m) == m.name \in {"connect", "disconnect"}

\* While the guest does not use IPXNET, at most one thing is under way for the
\* user: a message, the request it left, or the answer; and it belongs to the
\* promise field that is set.
OneThing ==
  ~guestActed =>
    /\ \A i, j \in DOMAIN toWorker : IsCall(toWorker[i]) /\ IsCall(toWorker[j]) => i = j
    /\ \A i \in DOMAIN toWorker : IsCall(toWorker[i]) => request = NoPeer /\ toClient = <<>>
    /\ Len(toClient) \in {0, 1}
    /\ toClient # <<>> => request = NoPeer
    /\ busy = "tick" => request # NoPeer
    /\ busy # "guest"

Belongs ==
  ~guestActed =>
    /\ \A i \in DOMAIN toWorker : toWorker[i].name = "connect" => client.connecting
    /\ \A i \in DOMAIN toWorker : toWorker[i].name = "disconnect" => client.disconnecting
    /\ request # NoPeer => client.connecting
    /\ toClient # <<>> => client.connecting \/ client.disconnecting

\* One promise is pending at a time.
OnePromise == ~(client.connecting /\ client.disconnecting)

TypeInv == TypeOK /\ NamesServer

CallInv == TypeInv /\ OnePromise /\ RefusedOnlyWhileBusy /\ NoLostCall

SettledInv == TypeInv /\ OnePromise /\ OneThing /\ Belongs

----------------------------------------------------------------------------
(* Facts about queues and promises.                                          *)

\* What a queue holds after a message was posted.
LEMMA Posted ==
  ASSUME NEW S, NEW s \in Seq(S), NEW x \in S
  PROVE  /\ Append(s, x) \in Seq(S)
         /\ Append(s, x) # <<>>
         /\ ToSet(Append(s, x)) = ToSet(s) \cup {x}
         /\ DOMAIN Append(s, x) = DOMAIN s \cup {Len(s) + 1}
         /\ \A i \in DOMAIN s : Append(s, x)[i] = s[i] /\ i # Len(s) + 1
         /\ Append(s, x)[Len(s) + 1] = x
<1>1. /\ Append(s, x) \in Seq(S)
      /\ Append(s, x) # <<>>
      /\ DOMAIN Append(s, x) = DOMAIN s \cup {Len(s) + 1}
      /\ \A i \in DOMAIN s : Append(s, x)[i] = s[i] /\ i # Len(s) + 1
      /\ Append(s, x)[Len(s) + 1] = x
  OBVIOUS
<1>2. ToSet(Append(s, x)) = ToSet(s) \cup {x}
  BY <1>1 DEF ToSet
<1> QED BY <1>1, <1>2

\* What a queue holds before its head is taken.
LEMMA Taken ==
  ASSUME NEW S, NEW s \in Seq(S), s # <<>>
  PROVE  /\ Head(s) \in S
         /\ Tail(s) \in Seq(S)
         /\ ToSet(s) = {Head(s)} \cup ToSet(Tail(s))
         /\ Head(s) = s[1]
         /\ 1 \in DOMAIN s
         /\ \A i \in DOMAIN Tail(s) : i + 1 \in DOMAIN s /\ Tail(s)[i] = s[i + 1] /\ i + 1 # 1
<1>1. /\ Head(s) \in S
      /\ Tail(s) \in Seq(S)
      /\ Head(s) = s[1]
      /\ 1 \in DOMAIN s
      /\ \A i \in DOMAIN Tail(s) : i + 1 \in DOMAIN s /\ Tail(s)[i] = s[i + 1] /\ i + 1 # 1
  OBVIOUS
<1>2. \A i \in DOMAIN s \ {1} : i - 1 \in DOMAIN Tail(s) /\ Tail(s)[i - 1] = s[i]
  OBVIOUS
<1>3. \A x : x \in ToSet(s) => x \in {Head(s)} \cup ToSet(Tail(s))
  <2> SUFFICES ASSUME NEW i \in DOMAIN s PROVE s[i] \in {Head(s)} \cup ToSet(Tail(s))
    BY DEF ToSet
  <2>1. CASE i = 1
    BY <2>1, <1>1
  <2>2. CASE i # 1
    BY <2>2, <1>2 DEF ToSet
  <2> QED BY <2>1, <2>2
<1>4. \A x : x \in {Head(s)} \cup ToSet(Tail(s)) => x \in ToSet(s)
  BY <1>1 DEF ToSet
<1>5. ToSet(s) = {Head(s)} \cup ToSet(Tail(s))
  BY <1>3, <1>4
<1> QED BY <1>1, <1>5

\* The kinds of the messages.
LEMMA MessageKinds ==
  /\ \A n \in {"connect", "disconnect", "ack", "packet"}, p \in Peer \cup {NoPeer} :
       Msg(n, p) \in Message /\ Msg(n, p).name = n /\ Msg(n, p).peer = p
  /\ \A m \in Message : m.peer \in Peer \cup {NoPeer}
BY DEF Msg, Message

Clients == [connecting : BOOLEAN, disconnecting : BOOLEAN, call : {"none", "connect", "disconnect"}]

\* What an answer does to the promises.
LEMMA AnswerEffect ==
  ASSUME NEW c \in Clients, NEW n
  PROVE  /\ Answered(c, n) \in Clients
         /\ ~Answered(c, n).connecting
         /\ c.connecting => Answered(c, n).disconnecting = c.disconnecting
                            /\ Answered(c, n).call = "none"
         /\ ~c.connecting /\ n = "disconnected" => ~Answered(c, n).disconnecting
         /\ ~c.connecting /\ n # "disconnected" => Answered(c, n) = c
BY DEF Answered, Clients

----------------------------------------------------------------------------
(* Types.                                                                    *)

\* Telling the client keeps the types, with either transport.
LEMMA TellType ==
  ASSUME TypeOK, NEW n \in {"connected", "disconnected"}, Tell(n)
  PROVE  client' \in Clients /\ toClient' \in Seq({"connected", "disconnected"})
<1>1. client \in Clients /\ Answered(client, n) \in Clients
  BY AnswerEffect DEF TypeOK, Clients
<1>2. Append(toClient, n) \in Seq({"connected", "disconnected"})
  BY DEF TypeOK
<1> QED BY <1>1, <1>2 DEF Tell, TypeOK

\* The types of the network's own state.
LEMMA NetType ==
  ASSUME TypeOK
  PROVE  /\ \A p \in Peer : Registering(p) \in [wire : SUBSET Peer, open : SUBSET Peer]
         /\ \A p \in Peer \cup {NoPeer} : Closed(p) \in [wire : SUBSET Peer, open : SUBSET Peer]
         /\ \A p \in Peer : [wire |-> net.wire \ {p}, open |-> net.open \cup {p}]
                              \in [wire : SUBSET Peer, open : SUBSET Peer]
         /\ Ended \in SUBSET {"link", "timeout"}
BY DEF TypeOK, Registering, Closed, Ended

\* Every step keeps the types.
LEMMA TypeStep == TypeInv /\ [Next]_vars => TypeInv'
<1> SUFFICES ASSUME TypeInv, [Next]_vars PROVE TypeInv'
  OBVIOUS
<1> USE NetworkAssumption
<1>0. TypeOK /\ client \in Clients /\ NamesServer
  BY DEF TypeInv, TypeOK, Clients
<1>a. toWorker # <<>> => /\ Head(toWorker) \in Message
                         /\ Tail(toWorker) \in Seq(Message)
                         /\ Head(toWorker).name = "connect" => Head(toWorker).peer \in Peer
                         /\ \A i \in DOMAIN Tail(toWorker) :
                              Tail(toWorker)[i].name = "connect" => Tail(toWorker)[i].peer \in Peer
  BY <1>0, Taken DEF TypeOK, NamesServer
<1>b. \A n \in {"connect", "disconnect", "ack", "packet"}, p \in Peer \cup {NoPeer} :
        p \in Peer \/ n # "connect" =>
          /\ Append(toWorker, Msg(n, p)) \in Seq(Message)
          /\ \A i \in DOMAIN Append(toWorker, Msg(n, p)) :
               Append(toWorker, Msg(n, p))[i].name = "connect" =>
                 Append(toWorker, Msg(n, p))[i].peer \in Peer
  <2> SUFFICES ASSUME NEW n \in {"connect", "disconnect", "ack", "packet"},
                      NEW p \in Peer \cup {NoPeer}, p \in Peer \/ n # "connect"
               PROVE  /\ Append(toWorker, Msg(n, p)) \in Seq(Message)
                      /\ \A i \in DOMAIN Append(toWorker, Msg(n, p)) :
                           Append(toWorker, Msg(n, p))[i].name = "connect" =>
                             Append(toWorker, Msg(n, p))[i].peer \in Peer
    OBVIOUS
  <2>1. Msg(n, p) \in Message /\ Msg(n, p).name = n /\ Msg(n, p).peer = p
    BY MessageKinds
  <2>2. /\ Append(toWorker, Msg(n, p)) \in Seq(Message)
        /\ DOMAIN Append(toWorker, Msg(n, p)) = DOMAIN toWorker \cup {Len(toWorker) + 1}
        /\ \A i \in DOMAIN toWorker : Append(toWorker, Msg(n, p))[i] = toWorker[i]
        /\ Append(toWorker, Msg(n, p))[Len(toWorker) + 1] = Msg(n, p)
    BY <2>1, <1>0, Posted DEF TypeOK
  <2> QED BY <2>1, <2>2, <1>0 DEF NamesServer
<1>c. Unwanted \in Peer \cup {NoPeer}
  BY <1>0 DEF Unwanted, TypeOK
<1>1. CASE OnMessage
  <2>1. client' \in Clients
    BY <1>1, <1>0, AnswerEffect DEF OnMessage
  <2>2. toClient' \in Seq({"connected", "disconnected"})
    BY <1>1, <1>0, Taken DEF OnMessage, TypeOK
  <2> QED BY <1>1, <1>0, <2>1, <2>2 DEF OnMessage, machineVars, TypeOK, TypeInv, NamesServer, Clients
<1>2. CASE \E p \in Peer : CallConnect(p)
  <2> PICK p \in Peer : CallConnect(p)
    BY <1>2
  <2> QED BY ZenonT(30), <1>0, <1>b DEF CallConnect, TypeOK, TypeInv, NamesServer
<1>3. CASE CallDisconnect
  <2>1. client' \in Clients
    <3>1. [client EXCEPT !.call = "disconnect"] \in Clients
      BY <1>0 DEF Clients
    <3>2. Answered([client EXCEPT !.call = "disconnect"], "disconnected") \in Clients
      BY <3>1, AnswerEffect
    <3> QED BY <1>3, <1>0, <3>2 DEF CallDisconnect, Clients
  <2>2. CASE Direct
    BY <1>3, <1>0, <2>1, <2>2, NetType DEF CallDisconnect, TypeOK, TypeInv, NamesServer, Clients
  <2>3. CASE ~Direct
    <3>1. toWorker' \in Seq(Message) /\ NamesServer'
      BY <1>3, <1>b, <2>3 DEF CallDisconnect, NamesServer
    <3> QED BY <1>3, <1>0, <2>1, <2>3, <3>1 DEF CallDisconnect, TypeOK, TypeInv, Clients
  <2> QED BY <2>2, <2>3
<1>4. CASE HandleConnect
  BY <1>4, <1>0, <1>a DEF HandleConnect, Awaits, TypeOK, TypeInv, NamesServer
<1>5. CASE HandleDisconnect
  BY <1>5, <1>0, <1>a, TellType, NetType
     DEF HandleDisconnect, Awaits, TypeOK, TypeInv, NamesServer, Clients
<1>6. CASE HandleNetReceived
  <2>1. inbox' \in Seq(Message)
    BY <1>6, <1>0, <1>a DEF HandleNetReceived, Awaits, TypeOK
  <2> QED BY <1>6, <1>0, <1>a, <2>1 DEF HandleNetReceived, Awaits, TypeOK, TypeInv, NamesServer
<1>7. CASE ClientTick
  BY <1>7, <1>0, TellType, NetType DEF ClientTick, TypeOK, TypeInv, NamesServer, Clients
<1>8. CASE RegisterPoll
  <2>1. inbox' \in Seq(Message)
    BY <1>8, <1>0, Taken DEF RegisterPoll, TypeOK
  <2>2. CASE Head(inbox).name = "ack"
    BY <1>8, <1>0, <1>c, <2>1, <2>2, TellType
       DEF RegisterPoll, TypeOK, TypeInv, NamesServer, Clients
  <2>3. CASE Head(inbox).name # "ack"
    BY <1>8, <1>0, <2>1, <2>3 DEF RegisterPoll, TypeOK, TypeInv, NamesServer
  <2> QED BY <2>2, <2>3
<1>9. CASE Timeout
  BY <1>9, <1>0, <1>c, TellType, NetType DEF Timeout, TypeOK, TypeInv, NamesServer, Clients
<1>10. CASE ClientLoop
  BY <1>10, <1>0 DEF ClientLoop, TypeOK, TypeInv, NamesServer
<1>11. CASE \E p \in Peer : GuestConnect(p)
  <2> PICK p \in Peer : GuestConnect(p)
    BY <1>11
  <2> QED BY <1>0, NetType DEF GuestConnect, MayAct, TypeOK, TypeInv, NamesServer
<1>12. CASE GuestDisconnect
  BY <1>12, <1>0, TellType, NetType DEF GuestDisconnect, MayAct, TypeOK, TypeInv, NamesServer, Clients
<1>13. CASE \E p \in Peer : ServerRegister(p)
  <2> PICK p \in Peer : ServerRegister(p)
    BY <1>13
  <2> QED BY <1>0, <1>b, NetType DEF ServerRegister, machineVars, TypeOK, TypeInv, NamesServer
<1>14. CASE \E p \in Peer : ServerRelay(p)
  <2> PICK p \in Peer : ServerRelay(p)
    BY <1>14
  <2> QED BY <1>0, <1>b DEF ServerRelay, machineVars, TypeOK, TypeInv, NamesServer
<1>15. CASE UNCHANGED vars
  BY <1>15, <1>0 DEF vars, machineVars, TypeOK, TypeInv, NamesServer
<1> QED BY <1>1, <1>2, <1>3, <1>4, <1>5, <1>6, <1>7, <1>8, <1>9, <1>10, <1>11, <1>12, <1>13,
           <1>14, <1>15 DEF Next

\* The initial state has the types.
LEMMA TypeInit == Init => TypeInv
<1>1. /\ <<>> \in Seq(Message)
      /\ <<>> \in Seq({"connected", "disconnected"})
      /\ \A i \in DOMAIN <<>> : FALSE
  OBVIOUS
<1>2. Init => NamesServer
  BY <1>1 DEF Init, NamesServer
<1>3. Init => TypeOK
  <2> SUFFICES ASSUME Init PROVE TypeOK
    OBVIOUS
  <2>1. client \in Clients /\ net \in [wire : SUBSET Peer, open : SUBSET Peer]
    BY DEF Init, Clients
  <2>2. /\ toWorker \in Seq(Message)
        /\ toClient \in Seq({"connected", "disconnected"})
        /\ inbox \in Seq(Message)
    BY <1>1 DEF Init
  <2>3. crashed \in BOOLEAN /\ guestActed \in BOOLEAN /\ broken \in SUBSET {"link", "timeout"}
    BY DEF Init
  <2>4. /\ request \in Peer \cup {NoPeer}
        /\ link \in Peer \cup {NoPeer}
        /\ busy \in {"no", "tick", "guest"}
        /\ target \in Peer \cup {NoPeer}
        /\ target = NoPeer <=> busy = "no"
        /\ busy # "no" => link = NoPeer
        /\ registered \in SUBSET Peer
    BY DEF Init
  <2> QED BY <2>1, <2>2, <2>3, <2>4 DEF TypeOK, Clients
<1> QED BY <1>2, <1>3 DEF TypeInv

\* Every variable keeps its type, and the machine does not register while it is
\* connected, with either transport.
THEOREM NetworkTypeCorrect == Spec => []TypeOK
<1>1. TypeInv => TypeOK
  BY DEF TypeInv
<1> QED BY <1>1, TypeInit, TypeStep, PTL DEF Spec

----------------------------------------------------------------------------
(* Calls, with the queues of a worker.                                       *)

\* What a step of the worker transport posts to the client.
LEMMA TellPosts ==
  ASSUME ~Direct, TypeOK, NEW n \in {"connected", "disconnected"}, Tell(n)
  PROVE  /\ client' = client
         /\ toClient' # <<>>
         /\ ToSet(toClient') = ToSet(toClient) \cup {n}
         /\ toClient = <<>> => Len(toClient') = 1
<1>1. /\ Append(toClient, n) # <<>>
      /\ ToSet(Append(toClient, n)) = ToSet(toClient) \cup {n}
      /\ toClient = <<>> => Len(Append(toClient, n)) = 1
  BY Posted DEF TypeOK
<1> QED BY <1>1 DEF Tell

\* What the worker's queue holds when a message was taken from it.
LEMMA WorkerTakes ==
  ASSUME TypeOK, toWorker # <<>>, toWorker' = Tail(toWorker)
  PROVE  /\ ToSet(toWorker) = {Head(toWorker)} \cup ToSet(toWorker')
         /\ Head(toWorker) \in Message
         /\ Head(toWorker) = toWorker[1]
         /\ 1 \in DOMAIN toWorker
         /\ \A i \in DOMAIN toWorker' : /\ i \in Nat
                                        /\ i + 1 \in DOMAIN toWorker
                                        /\ toWorker'[i] = toWorker[i + 1]
                                        /\ i + 1 # 1
<1>1. \A i \in DOMAIN Tail(toWorker) : i \in Nat
  BY DEF TypeOK
<1> QED BY <1>1, Taken DEF TypeOK

\* What the worker's queue holds when a message was posted to it.
LEMMA WorkerGets ==
  ASSUME TypeOK, NEW n \in {"connect", "disconnect", "ack", "packet"}, NEW p \in Peer \cup {NoPeer},
         toWorker' = Append(toWorker, Msg(n, p))
  PROVE  /\ ToSet(toWorker') = ToSet(toWorker) \cup {Msg(n, p)}
         /\ Msg(n, p).name = n
         /\ DOMAIN toWorker' = DOMAIN toWorker \cup {Len(toWorker) + 1}
         /\ \A i \in DOMAIN toWorker : toWorker'[i] = toWorker[i] /\ i # Len(toWorker) + 1
         /\ toWorker'[Len(toWorker) + 1] = Msg(n, p)
<1>1. Msg(n, p) \in Message /\ Msg(n, p).name = n
  BY MessageKinds
<1> QED BY <1>1, Posted DEF TypeOK

\* The answer that the client takes from its queue.
LEMMA ClientTakes ==
  ASSUME TypeOK, OnMessage
  PROVE  /\ Head(toClient) \in {"connected", "disconnected"}
         /\ ToSet(toClient) = {Head(toClient)} \cup ToSet(toClient')
         /\ Len(toClient) \in {0, 1} => toClient' = <<>>
         /\ ~client'.connecting
         /\ client.connecting => client'.disconnecting = client.disconnecting
                                 /\ client'.call = "none"
         /\ ~client.connecting /\ Head(toClient) = "disconnected" => ~client'.disconnecting
         /\ ~client.connecting /\ Head(toClient) # "disconnected" => client' = client
<1>1. /\ Head(toClient) \in {"connected", "disconnected"}
      /\ ToSet(toClient) = {Head(toClient)} \cup ToSet(Tail(toClient))
  BY Taken DEF OnMessage, TypeOK
<1>2. Len(toClient) \in {0, 1} => Tail(toClient) = <<>>
  BY DEF OnMessage, TypeOK
<1>3. client \in Clients
  BY DEF TypeOK, Clients
<1> QED BY <1>1, <1>2, <1>3, AnswerEffect DEF OnMessage

\* A step keeps a call from being lost.
LEMMA CallStep == ~Direct /\ CallInv /\ [Next]_vars => CallInv'
<1> SUFFICES ASSUME ~Direct, CallInv, [Next]_vars PROVE CallInv'
  OBVIOUS
<1> USE NetworkAssumption
<1>0. TypeOK /\ NamesServer /\ OnePromise /\ RefusedOnlyWhileBusy /\ NoLostCall
  BY DEF CallInv, TypeInv
<1>t. TypeInv'
  BY TypeStep DEF CallInv
<1>c. client \in Clients
  BY <1>0 DEF TypeOK, Clients
<1> DEFINE Goal == OnePromise' /\ RefusedOnlyWhileBusy' /\ NoLostCall'
<1> SUFFICES Goal
  BY <1>t DEF CallInv
<1>1. CASE OnMessage
  BY <1>1, <1>0, ClientTakes
     DEF OnMessage, machineVars, OnePromise, RefusedOnlyWhileBusy, NoLostCall
<1>2. CASE \E p \in Peer : CallConnect(p)
  <2> PICK p \in Peer : CallConnect(p)
    BY <1>2
  <2>1. toWorker' = Append(toWorker, Msg("connect", p))
    BY DEF CallConnect
  <2>2. Msg("connect", p) \in ToSet(toWorker') /\ Msg("connect", p).name = "connect"
    BY <1>0, <2>1, WorkerGets
  <2>3. client'.connecting /\ client'.call = "connect" /\ ~client'.disconnecting
    BY <1>c DEF CallConnect, MayCall, Clients
  <2> QED BY <2>2, <2>3 DEF OnePromise, RefusedOnlyWhileBusy, NoLostCall
<1>3. CASE CallDisconnect
  <2>1. toWorker' = Append(toWorker, Msg("disconnect", NoPeer))
    BY <1>3 DEF CallDisconnect
  <2>2. Msg("disconnect", NoPeer) \in ToSet(toWorker') /\ Msg("disconnect", NoPeer).name = "disconnect"
    BY <1>0, <2>1, WorkerGets
  <2>3. client'.disconnecting /\ client'.call = "disconnect" /\ ~client'.connecting
    BY <1>3, <1>c DEF CallDisconnect, MayCall, Clients
  <2> QED BY <2>2, <2>3 DEF OnePromise, RefusedOnlyWhileBusy, NoLostCall
<1>4. CASE HandleConnect
  <2>1. request' \in Peer
    BY <1>4, <1>0, WorkerTakes DEF HandleConnect, Awaits, NamesServer
  <2>2. ToSet(toWorker) = {Head(toWorker)} \cup ToSet(toWorker') /\ Head(toWorker).name = "connect"
    BY <1>4, <1>0, WorkerTakes DEF HandleConnect, Awaits
  <2> QED BY <1>4, <1>0, <2>1, <2>2
          DEF HandleConnect, OnePromise, RefusedOnlyWhileBusy, NoLostCall
<1>5. CASE HandleDisconnect
  <2>1. client' = client /\ toClient' # <<>> /\ "disconnected" \in ToSet(toClient')
    BY <1>5, <1>0, TellPosts DEF HandleDisconnect
  <2> QED BY <1>0, <2>1 DEF OnePromise, RefusedOnlyWhileBusy, NoLostCall
<1>6. CASE HandleNetReceived
  <2>1. ToSet(toWorker) = {Head(toWorker)} \cup ToSet(toWorker')
        /\ Head(toWorker).name \in {"ack", "packet"}
    BY <1>6, <1>0, WorkerTakes DEF HandleNetReceived, Awaits
  <2> QED BY <1>6, <1>0, <2>1
          DEF HandleNetReceived, OnePromise, RefusedOnlyWhileBusy, NoLostCall
<1>7. CASE ClientTick
  <2>1. CASE link # NoPeer
    <3>1. client' = client /\ toClient' # <<>> /\ ToSet(toClient') = ToSet(toClient) \cup {"disconnected"}
      BY <1>7, <1>0, <2>1, TellPosts DEF ClientTick
    <3> QED BY <1>7, <1>0, <3>1 DEF ClientTick, OnePromise, RefusedOnlyWhileBusy, NoLostCall
  <2>2. CASE link = NoPeer
    BY <1>7, <1>0, <2>2 DEF ClientTick, OnePromise, RefusedOnlyWhileBusy, NoLostCall
  <2> QED BY <2>1, <2>2
<1>8. CASE RegisterPoll
  <2>1. CASE Head(inbox).name = "ack"
    <3>1. client' = client /\ toClient' # <<>> /\ ToSet(toClient') = ToSet(toClient) \cup {"connected"}
      BY <1>8, <1>0, <2>1, TellPosts DEF RegisterPoll
    <3> QED BY <1>8, <1>0, <3>1 DEF RegisterPoll, OnePromise, RefusedOnlyWhileBusy, NoLostCall
  <2>2. CASE Head(inbox).name # "ack"
    BY <1>8, <1>0, <2>2 DEF RegisterPoll, OnePromise, RefusedOnlyWhileBusy, NoLostCall
  <2> QED BY <2>1, <2>2
<1>9. CASE Timeout
  <2>1. client' = client /\ toClient' # <<>> /\ ToSet(toClient') = ToSet(toClient) \cup {"disconnected"}
    BY <1>9, <1>0, TellPosts DEF Timeout
  <2> QED BY <1>9, <1>0, <2>1 DEF Timeout, OnePromise, RefusedOnlyWhileBusy, NoLostCall
<1>10. CASE ClientLoop
  BY <1>10, <1>0 DEF ClientLoop, OnePromise, RefusedOnlyWhileBusy, NoLostCall
<1>11. CASE \E p \in Peer : GuestConnect(p)
  BY <1>11, <1>0 DEF GuestConnect, OnePromise, RefusedOnlyWhileBusy, NoLostCall
<1>12. CASE GuestDisconnect
  <2>1. client' = client /\ toClient' # <<>> /\ ToSet(toClient') = ToSet(toClient) \cup {"disconnected"}
    BY <1>12, <1>0, TellPosts DEF GuestDisconnect
  <2> QED BY <1>12, <1>0, <2>1 DEF GuestDisconnect, OnePromise, RefusedOnlyWhileBusy, NoLostCall
<1>13. CASE \E p \in Peer : ServerRegister(p)
  <2> PICK p \in Peer : ServerRegister(p)
    BY <1>13
  <2>1. ToSet(toWorker') = ToSet(toWorker) \cup {Msg("ack", p)}
    BY <1>0, WorkerGets DEF ServerRegister
  <2> QED BY <1>0, <2>1 DEF ServerRegister, machineVars, OnePromise, RefusedOnlyWhileBusy, NoLostCall
<1>14. CASE \E p \in Peer : ServerRelay(p)
  <2> PICK p \in Peer : ServerRelay(p)
    BY <1>14
  <2>1. ToSet(toWorker') = ToSet(toWorker) \cup {Msg("packet", p)}
    BY <1>0, WorkerGets DEF ServerRelay
  <2> QED BY <1>0, <2>1 DEF ServerRelay, machineVars, OnePromise, RefusedOnlyWhileBusy, NoLostCall
<1>15. CASE UNCHANGED vars
  BY <1>15, <1>0 DEF vars, machineVars, OnePromise, RefusedOnlyWhileBusy, NoLostCall
<1> QED BY <1>1, <1>2, <1>3, <1>4, <1>5, <1>6, <1>7, <1>8, <1>9, <1>10, <1>11, <1>12, <1>13,
           <1>14, <1>15 DEF Next

\* The initial state has no calls.
LEMMA CallInit == Init => CallInv
BY TypeInit DEF Init, CallInv, OnePromise, RefusedOnlyWhileBusy, NoLostCall

\* With the worker's queues, a call that waits always has its cause to end on
\* its way, whatever the guest, the servers and the connections do.
THEOREM CallsAreNotLost == ASSUME ~Direct PROVE Spec => []NoLostCall
<1>1. CallInv => NoLostCall
  BY DEF CallInv
<1>2. CallInv /\ [Next]_vars => CallInv'
  BY CallStep
<1> QED BY <1>1, <1>2, CallInit, PTL DEF Spec

\* With the worker's queues, a call is refused only while an earlier one waits.
THEOREM RefusalIsJustified == ASSUME ~Direct PROVE Spec => []RefusedOnlyWhileBusy
<1>1. CallInv => RefusedOnlyWhileBusy
  BY DEF CallInv
<1>2. CallInv /\ [Next]_vars => CallInv'
  BY CallStep
<1> QED BY <1>1, <1>2, CallInit, PTL DEF Spec

----------------------------------------------------------------------------
(* What goes on when no call waits.                                          *)

\* A step keeps it to one thing at a time that belongs to the pending promise.
LEMMA SettledStep == ~Direct /\ SettledInv /\ [Next]_vars => SettledInv'
<1> SUFFICES ASSUME ~Direct, SettledInv, [Next]_vars PROVE SettledInv'
  OBVIOUS
<1> USE NetworkAssumption
<1>0. TypeOK /\ NamesServer /\ OnePromise /\ OneThing /\ Belongs
  BY DEF SettledInv, TypeInv
<1>t. TypeInv'
  BY TypeStep DEF SettledInv
<1>c. client \in Clients
  BY <1>0 DEF TypeOK, Clients
<1>p. OnePromise'
  <2>1. CASE OnMessage
    BY <2>1, <1>0, ClientTakes DEF OnePromise
  <2>2. CASE (\E p \in Peer : CallConnect(p)) \/ CallDisconnect
    BY <2>2, <1>c DEF CallConnect, CallDisconnect, MayCall, OnePromise, Clients
  <2>3. CASE ~OnMessage /\ ~(\E p \in Peer : CallConnect(p)) /\ ~CallDisconnect
    <3>1. client' = client
      BY <2>3 DEF Next, Tell, HandleConnect, HandleDisconnect, HandleNetReceived, ClientTick,
                  RegisterPoll, Timeout, ClientLoop, GuestConnect, GuestDisconnect,
                  ServerRegister, ServerRelay, vars
    <3> QED BY <3>1, <1>0 DEF OnePromise
  <2> QED BY <2>1, <2>2, <2>3
<1> SUFFICES ASSUME ~guestActed' PROVE OneThing' /\ Belongs'
  BY <1>t, <1>p DEF SettledInv, OneThing, Belongs
<1>g. ~guestActed
  BY DEF Next, OnMessage, CallConnect, CallDisconnect, HandleConnect, HandleDisconnect,
         HandleNetReceived, ClientTick, RegisterPoll, Timeout, ClientLoop, GuestConnect,
         GuestDisconnect, ServerRegister, ServerRelay, machineVars, vars
<1>q. Len(toClient) \in {0, 1} /\ (toClient # <<>> => request = NoPeer)
  BY <1>0, <1>g DEF OneThing
<1>1. CASE OnMessage
  <2>1. toClient' = <<>> /\ toClient # <<>> /\ toWorker' = toWorker /\ request' = request
        /\ busy' = busy
    BY <1>1, <1>0, <1>q, ClientTakes DEF OnMessage, machineVars
  <2>2. request = NoPeer /\ \A i \in DOMAIN toWorker : ~IsCall(toWorker[i])
    BY <2>1, <1>0, <1>g DEF OneThing
  <2> QED BY <2>1, <2>2, <1>0, <1>g DEF OneThing, Belongs, IsCall
<1>2. CASE (\E p \in Peer : CallConnect(p)) \/ CallDisconnect
  <2>1. /\ ~client.connecting /\ ~client.disconnecting
        /\ UNCHANGED <<toClient, request, busy>>
    BY <1>2 DEF CallConnect, CallDisconnect, MayCall
  <2>2. /\ request = NoPeer /\ toClient = <<>> /\ busy = "no"
        /\ \A i \in DOMAIN toWorker : ~IsCall(toWorker[i])
    BY <2>1, <1>0, <1>g DEF OneThing, Belongs, IsCall, TypeOK
  <2>3. PICK n \in {"connect", "disconnect"}, p \in Peer \cup {NoPeer} :
          /\ toWorker' = Append(toWorker, Msg(n, p))
          /\ n = "connect" => client'.connecting
          /\ n = "disconnect" => client'.disconnecting
    BY <1>2, <1>c DEF CallConnect, CallDisconnect, Clients
  <2>4. /\ Msg(n, p).name = n
        /\ DOMAIN toWorker' = DOMAIN toWorker \cup {Len(toWorker) + 1}
        /\ \A i \in DOMAIN toWorker : toWorker'[i] = toWorker[i]
        /\ toWorker'[Len(toWorker) + 1] = Msg(n, p)
    BY <2>3, <1>0, WorkerGets
  <2>5. \A i \in DOMAIN toWorker' : IsCall(toWorker'[i]) =>
          i = Len(toWorker) + 1 /\ toWorker'[i].name = n
    BY <2>2, <2>4
  <2> QED BY <2>1, <2>2, <2>3, <2>5, <1>q DEF OneThing, Belongs, IsCall
<1>3. CASE HandleConnect \/ HandleDisconnect
  <2>1. /\ toWorker # <<>> /\ toWorker' = Tail(toWorker)
        /\ IsCall(Head(toWorker))
    BY <1>3 DEF HandleConnect, HandleDisconnect, Awaits, IsCall
  <2>2. /\ 1 \in DOMAIN toWorker /\ IsCall(toWorker[1])
        /\ Head(toWorker) = toWorker[1]
        /\ \A i \in DOMAIN toWorker' : i + 1 \in DOMAIN toWorker
                                       /\ toWorker'[i] = toWorker[i + 1] /\ i + 1 # 1
    BY <2>1, <1>0, WorkerTakes
  <2>3. request = NoPeer /\ toClient = <<>> /\ busy = "no"
    BY <2>2, <1>0, <1>g DEF OneThing, TypeOK
  <2>4. \A i \in DOMAIN toWorker' : ~IsCall(toWorker'[i])
    BY <2>2, <1>0, <1>g DEF OneThing
  <2>5. CASE HandleConnect
    <3>1. client.connecting /\ UNCHANGED <<client, toClient, busy>>
      BY <2>5, <2>2, <1>0, <1>g DEF HandleConnect, Awaits, Belongs
    <3> QED BY <3>1, <2>3, <2>4, <1>q DEF OneThing, Belongs, IsCall
  <2>6. CASE HandleDisconnect
    <3>1. client.disconnecting /\ client' = client /\ Len(toClient') = 1 /\ request' = NoPeer
          /\ busy' = busy
      BY <2>6, <2>2, <2>3, <1>0, <1>g, TellPosts DEF HandleDisconnect, Awaits, Belongs
    <3> QED BY <3>1, <2>3, <2>4 DEF OneThing, Belongs, IsCall
  <2> QED BY <1>3, <2>5, <2>6
<1>4. CASE HandleNetReceived
  <2>1. /\ UNCHANGED <<client, toClient, request, busy>>
        /\ \A i \in DOMAIN toWorker' : i \in Nat /\ i + 1 \in DOMAIN toWorker
                                       /\ toWorker'[i] = toWorker[i + 1]
    BY <1>4, <1>0, WorkerTakes DEF HandleNetReceived, Awaits
  <2>2. \A i, j \in DOMAIN toWorker' : i + 1 = j + 1 => i = j
    BY <2>1
  <2>3. \A i, j \in DOMAIN toWorker' : IsCall(toWorker'[i]) /\ IsCall(toWorker'[j]) => i = j
    BY <2>1, <2>2, <1>0, <1>g DEF OneThing
  <2> QED BY <2>1, <2>3, <1>0, <1>g DEF OneThing, Belongs, IsCall
<1>5. CASE ClientTick \/ RegisterPoll \/ Timeout
  <2>1. request # NoPeer /\ toWorker' = toWorker
    BY <1>5, <1>0, <1>g DEF ClientTick, RegisterPoll, Timeout, OneThing, TypeOK
  <2>2. /\ toClient = <<>> /\ client.connecting
        /\ \A i \in DOMAIN toWorker : ~IsCall(toWorker[i])
    BY <2>1, <1>0, <1>g DEF OneThing, Belongs
  <2>3. /\ client' = client
        /\ busy' # "guest"
        /\ \/ toClient' = toClient /\ request' = request
           \/ Len(toClient') = 1 /\ request' = NoPeer /\ busy' # "tick"
    <3>1. CASE ClientTick
      BY <3>1, <2>2, <1>0, TellPosts DEF ClientTick
    <3>2. CASE RegisterPoll
      <4>1. busy = "tick"
        BY <3>2, <1>0, <1>g DEF RegisterPoll, OneThing, TypeOK
      <4> QED BY <3>2, <4>1, <2>2, <1>0, TellPosts DEF RegisterPoll, Unwanted
    <3>3. CASE Timeout
      <4>1. busy = "tick"
        BY <3>3, <1>0, <1>g DEF Timeout, OneThing, TypeOK
      <4> QED BY <3>3, <4>1, <2>2, <1>0, TellPosts DEF Timeout, Unwanted
    <3> QED BY <1>5, <3>1, <3>2, <3>3
  <2> QED BY <2>1, <2>2, <2>3, <1>q DEF OneThing, Belongs, IsCall
<1>6. CASE ClientLoop
  BY <1>6, <1>0, <1>g DEF ClientLoop, OneThing, Belongs, IsCall
<1>7. CASE (\E p \in Peer : GuestConnect(p)) \/ GuestDisconnect
  BY <1>7 DEF GuestConnect, GuestDisconnect
<1>8. CASE \E p \in Peer : ServerRegister(p) \/ ServerRelay(p)
  <2>1. PICK n \in {"ack", "packet"}, p \in Peer : toWorker' = Append(toWorker, Msg(n, p))
    BY <1>8 DEF ServerRegister, ServerRelay
  <2>2. UNCHANGED <<client, toClient, request, busy>>
    BY <1>8 DEF ServerRegister, ServerRelay, machineVars
  <2>3. /\ Msg(n, p).name = n
        /\ DOMAIN toWorker' = DOMAIN toWorker \cup {Len(toWorker) + 1}
        /\ \A i \in DOMAIN toWorker : toWorker'[i] = toWorker[i]
        /\ toWorker'[Len(toWorker) + 1] = Msg(n, p)
    BY <2>1, <1>0, WorkerGets
  <2>4. \A i \in DOMAIN toWorker' : IsCall(toWorker'[i]) =>
          i \in DOMAIN toWorker /\ toWorker'[i] = toWorker[i]
    BY <2>3 DEF IsCall
  <2> QED BY <2>2, <2>4, <1>0, <1>g DEF OneThing, Belongs, IsCall
<1>9. CASE UNCHANGED vars
  BY <1>9, <1>0, <1>g DEF vars, machineVars, OneThing, Belongs, IsCall
<1> QED BY <1>1, <1>2, <1>3, <1>4, <1>5, <1>6, <1>7, <1>8, <1>9 DEF Next

\* With the worker's queues and a guest that leaves IPXNET alone, nothing of a
\* call goes on in the machine once it settled.
THEOREM SettledStaysOver == ASSUME ~Direct PROVE Spec => []SettledIsOver
<1>1. Init => SettledInv
  <2>1. Init => OneThing /\ Belongs /\ OnePromise
    BY DEF Init, OneThing, Belongs, OnePromise
  <2> QED BY <2>1, TypeInit DEF SettledInv
<1>2. SettledInv => SettledIsOver
  BY DEF SettledInv, OneThing, Belongs, SettledIsOver, ToSet
<1>3. SettledInv /\ [Next]_vars => SettledInv'
  BY SettledStep
<1> QED BY <1>1, <1>2, <1>3, PTL DEF Spec
----------------------------------------------------------------------------
(* Registrations, with either transport.                                     *)

HasAck(q) == \E i \in DOMAIN q : q[i].name = "ack"
HasPacket(q) == \E i \in DOMAIN q : q[i].name = "packet"
OneAck(q) == \A i, j \in DOMAIN q : q[i].name = "ack" /\ q[j].name = "ack" => i = j

\* Every packet of the queue has an answer before it.
AckFirst(q) ==
  \A i \in DOMAIN q : q[i].name = "packet" => \E j \in DOMAIN q : j < i /\ q[j].name = "ack"

\* Before the first time-out there is one registration at a time: on the wire, as
\* the answer that comes back, or as the connection.
AckInv ==
  "timeout" \notin broken =>
    /\ HasAck(toWorker) \/ HasAck(inbox) => busy # "no" /\ net.wire = {} /\ target \in registered
    /\ ~ (HasAck(toWorker) /\ HasAck(inbox))
    /\ OneAck(toWorker) /\ OneAck(inbox)
    /\ net.wire \subseteq {target}
    /\ link \in registered \cup {NoPeer}

\* Before the first connection ends, what a server relays comes after its answer.
PacketInv ==
  broken = {} =>
    /\ ~ crashed
    /\ busy = "no" /\ link = NoPeer =>
         registered \cap net.open = {} /\ ~ HasPacket(toWorker) /\ ~ HasPacket(inbox)
    /\ busy # "no" =>
         /\ registered \cap net.open # {} => HasAck(toWorker) \/ HasAck(inbox)
         /\ AckFirst(inbox)
         /\ HasAck(inbox) \/ AckFirst(toWorker)

InboxInv == \A i \in DOMAIN inbox : inbox[i].name \in {"ack", "packet"}

LinkInv == TypeInv /\ AckInv /\ PacketInv /\ InboxInv

\* What a message at the end of a queue changes.
LEMMA AckPosted ==
  ASSUME NEW q \in Seq(Message), NEW m \in Message, NEW r, r = Append(q, m)
  PROVE  /\ HasAck(r) <=> HasAck(q) \/ m.name = "ack"
         /\ HasPacket(r) <=> HasPacket(q) \/ m.name = "packet"
         /\ OneAck(q) /\ ~ (HasAck(q) /\ m.name = "ack") => OneAck(r)
         /\ AckFirst(q) /\ (m.name = "packet" => HasAck(q)) => AckFirst(r)
<1>1. /\ DOMAIN r = DOMAIN q \cup {Len(q) + 1} /\ r[Len(q) + 1] = m
      /\ \A i \in DOMAIN q : r[i] = q[i] /\ i < Len(q) + 1 /\ i # Len(q) + 1
  OBVIOUS
<1>2. HasAck(r) <=> HasAck(q) \/ m.name = "ack"
  BY <1>1 DEF HasAck
<1>3. HasPacket(r) <=> HasPacket(q) \/ m.name = "packet"
  BY <1>1 DEF HasPacket
<1>4. OneAck(q) /\ ~ (HasAck(q) /\ m.name = "ack") => OneAck(r)
  BY <1>1 DEF OneAck, HasAck
<1>5. ASSUME AckFirst(q), m.name = "packet" => HasAck(q)
      PROVE  AckFirst(r)
  <2> SUFFICES ASSUME NEW i \in DOMAIN r, r[i].name = "packet"
               PROVE  \E j \in DOMAIN r : j < i /\ r[j].name = "ack"
    BY DEF AckFirst
  <2>1. CASE i \in DOMAIN q
    <3>1. PICK j \in DOMAIN q : j < i /\ q[j].name = "ack"
      BY <1>1, <1>5, <2>1 DEF AckFirst
    <3> QED BY <1>1, <3>1
  <2>2. CASE i = Len(q) + 1
    <3>1. PICK j \in DOMAIN q : q[j].name = "ack"
      BY <1>1, <1>5, <2>2 DEF HasAck
    <3> QED BY <1>1, <2>2, <3>1
  <2> QED BY <1>1, <2>1, <2>2
<1> QED BY <1>2, <1>3, <1>4, <1>5

\* What a message taken from a queue changes.
LEMMA AckTaken ==
  ASSUME NEW q \in Seq(Message), q # <<>>, NEW r, r = Tail(q)
  PROVE  /\ HasAck(q) <=> Head(q).name = "ack" \/ HasAck(r)
         /\ HasPacket(q) <=> Head(q).name = "packet" \/ HasPacket(r)
         /\ OneAck(q) => OneAck(r) /\ (Head(q).name = "ack" => ~ HasAck(r))
         /\ AckFirst(q) => Head(q).name # "packet" /\ (Head(q).name # "ack" => AckFirst(r))
<1>1. /\ 1 \in DOMAIN q /\ Head(q) = q[1]
      /\ \A i \in DOMAIN r : i \in Nat /\ i + 1 \in DOMAIN q /\ r[i] = q[i + 1] /\ i + 1 # 1
      /\ \A i \in DOMAIN q : i \in Nat /\ i >= 1
      /\ \A i \in DOMAIN q \ {1} : i - 1 \in DOMAIN r /\ r[i - 1] = q[i] /\ (i - 1) + 1 = i
  OBVIOUS
<1>2. HasAck(q) <=> Head(q).name = "ack" \/ HasAck(r)
  BY ZenonT(30), <1>1 DEF HasAck
<1>3. HasPacket(q) <=> Head(q).name = "packet" \/ HasPacket(r)
  BY ZenonT(30), <1>1 DEF HasPacket
<1>4. ASSUME OneAck(q) PROVE OneAck(r) /\ (Head(q).name = "ack" => ~ HasAck(r))
  <2>1. \A i, j \in DOMAIN r : i + 1 = j + 1 => i = j
    BY <1>1
  <2>2. OneAck(r)
    BY <1>1, <1>4, <2>1 DEF OneAck
  <2>3. Head(q).name = "ack" => ~ HasAck(r)
    BY <1>1, <1>4 DEF OneAck, HasAck
  <2> QED BY <2>2, <2>3
<1>5. ASSUME AckFirst(q) PROVE Head(q).name # "packet"
  <2>1. \A j \in DOMAIN q : ~ (j < 1)
    BY <1>1
  <2> QED BY <1>1, <1>5, <2>1 DEF AckFirst
<1>6. ASSUME AckFirst(q), Head(q).name # "ack" PROVE AckFirst(r)
  <2> SUFFICES ASSUME NEW i \in DOMAIN r, r[i].name = "packet"
               PROVE  \E j \in DOMAIN r : j < i /\ r[j].name = "ack"
    BY DEF AckFirst
  <2>1. PICK j \in DOMAIN q : j < i + 1 /\ q[j].name = "ack"
    BY <1>1, <1>6 DEF AckFirst
  <2>2. j # 1
    BY <1>1, <1>6, <2>1
  <2>3. j - 1 \in DOMAIN r /\ r[j - 1] = q[j]
    BY <1>1, <2>2
  <2>4. j - 1 < i
    BY <1>1, <2>1
  <2> QED BY <2>1, <2>3, <2>4
<1> QED BY <1>2, <1>3, <1>4, <1>5, <1>6

\* Every step keeps to one registration at a time, and to its order.
LEMMA LinkStep == LinkInv /\ [Next]_vars => LinkInv'
<1> SUFFICES ASSUME LinkInv, [Next]_vars PROVE LinkInv'
  OBVIOUS
<1> USE NetworkAssumption
<1>0. TypeInv /\ TypeOK /\ TypeInv' /\ AckInv /\ PacketInv /\ InboxInv
  BY TypeStep DEF LinkInv, TypeInv
<1> SUFFICES AckInv' /\ PacketInv' /\ InboxInv'
  BY <1>0 DEF LinkInv
<1>t. /\ toWorker \in Seq(Message) /\ inbox \in Seq(Message)
      /\ busy # "no" => link = NoPeer /\ target \in Peer /\ target # NoPeer
      /\ busy = "no" => target = NoPeer
      /\ net.wire \subseteq Peer /\ net.open \subseteq Peer /\ net \in [wire : SUBSET Peer, open : SUBSET Peer]
      /\ NoPeer \notin Peer
  BY <1>0 DEF TypeOK, NetworkAssumption
<1>w. \A n \in {"connect", "disconnect", "ack", "packet"}, p \in Peer \cup {NoPeer} :
        toWorker' = Append(toWorker, Msg(n, p)) =>
          /\ HasAck(toWorker') <=> HasAck(toWorker) \/ n = "ack"
          /\ HasPacket(toWorker') <=> HasPacket(toWorker) \/ n = "packet"
          /\ OneAck(toWorker) /\ ~ (HasAck(toWorker) /\ n = "ack") => OneAck(toWorker')
          /\ AckFirst(toWorker) /\ (n = "packet" => HasAck(toWorker)) => AckFirst(toWorker')
  <2> SUFFICES ASSUME NEW n \in {"connect", "disconnect", "ack", "packet"},
                      NEW p \in Peer \cup {NoPeer},
                      toWorker' = Append(toWorker, Msg(n, p))
               PROVE  /\ HasAck(toWorker') <=> HasAck(toWorker) \/ n = "ack"
                      /\ HasPacket(toWorker') <=> HasPacket(toWorker) \/ n = "packet"
                      /\ OneAck(toWorker) /\ ~ (HasAck(toWorker) /\ n = "ack") => OneAck(toWorker')
                      /\ AckFirst(toWorker) /\ (n = "packet" => HasAck(toWorker)) => AckFirst(toWorker')
    OBVIOUS
  <2>1. Msg(n, p) \in Message /\ Msg(n, p).name = n
    BY MessageKinds
  <2> QED BY <1>t, <2>1, AckPosted
<1>x. toWorker # <<>> /\ toWorker' = Tail(toWorker) =>
        /\ HasAck(toWorker) <=> Head(toWorker).name = "ack" \/ HasAck(toWorker')
        /\ HasPacket(toWorker) <=> Head(toWorker).name = "packet" \/ HasPacket(toWorker')
        /\ OneAck(toWorker) => OneAck(toWorker') /\ (Head(toWorker).name = "ack" => ~ HasAck(toWorker'))
        /\ AckFirst(toWorker) => /\ Head(toWorker).name # "packet"
                                 /\ Head(toWorker).name # "ack" => AckFirst(toWorker')
  BY <1>t, AckTaken
<1>i. toWorker # <<>> /\ inbox' = Append(inbox, Head(toWorker)) =>
        /\ HasAck(inbox') <=> HasAck(inbox) \/ Head(toWorker).name = "ack"
        /\ HasPacket(inbox') <=> HasPacket(inbox) \/ Head(toWorker).name = "packet"
        /\ OneAck(inbox) /\ ~ (HasAck(inbox) /\ Head(toWorker).name = "ack") => OneAck(inbox')
        /\ AckFirst(inbox) /\ (Head(toWorker).name = "packet" => HasAck(inbox)) => AckFirst(inbox')
  <2> SUFFICES ASSUME toWorker # <<>>, inbox' = Append(inbox, Head(toWorker))
               PROVE  /\ HasAck(inbox') <=> HasAck(inbox) \/ Head(toWorker).name = "ack"
                      /\ HasPacket(inbox') <=> HasPacket(inbox) \/ Head(toWorker).name = "packet"
                      /\ OneAck(inbox) /\ ~ (HasAck(inbox) /\ Head(toWorker).name = "ack") => OneAck(inbox')
                      /\ AckFirst(inbox) /\ (Head(toWorker).name = "packet" => HasAck(inbox)) => AckFirst(inbox')
    OBVIOUS
  <2>1. Head(toWorker) \in Message
    BY <1>t, Taken
  <2> QED BY <1>t, <2>1, AckPosted
<1>y. inbox # <<>> /\ inbox' = Tail(inbox) =>
        /\ HasAck(inbox) <=> Head(inbox).name = "ack" \/ HasAck(inbox')
        /\ HasPacket(inbox) <=> Head(inbox).name = "packet" \/ HasPacket(inbox')
        /\ OneAck(inbox) => OneAck(inbox') /\ (Head(inbox).name = "ack" => ~ HasAck(inbox'))
        /\ AckFirst(inbox) => Head(inbox).name # "packet"
        /\ Head(inbox).name \in {"ack", "packet"} /\ InboxInv'
  <2> SUFFICES ASSUME inbox # <<>>, inbox' = Tail(inbox)
               PROVE  Head(inbox).name \in {"ack", "packet"} /\ InboxInv'
    BY <1>t, AckTaken
  <2> QED BY <1>0, <1>t, Taken DEF InboxInv
<1>e. HasAck(<<>>) = FALSE /\ HasPacket(<<>>) = FALSE /\ OneAck(<<>>) /\ AckFirst(<<>>)
  BY DEF HasAck, HasPacket, OneAck, AckFirst
<1> HIDE DEF HasAck, HasPacket, OneAck, AckFirst
<1>1. CASE OnMessage
  BY <1>1, <1>0 DEF OnMessage, machineVars, AckInv, PacketInv, InboxInv
<1>2. CASE \E p \in Peer : CallConnect(p)
  <2> PICK p \in Peer : CallConnect(p)
    BY <1>2
  <2>1. UNCHANGED <<net, registered, link, busy, target, inbox, crashed, broken>>
    BY DEF CallConnect
  <2>2. toWorker' = toWorker \/ toWorker' = Append(toWorker, Msg("connect", p))
    BY DEF CallConnect
  <2>3. /\ HasAck(toWorker') <=> HasAck(toWorker)
        /\ HasPacket(toWorker') <=> HasPacket(toWorker)
        /\ OneAck(toWorker) => OneAck(toWorker')
        /\ AckFirst(toWorker) => AckFirst(toWorker')
    BY <2>2, <1>w
  <2> QED BY <2>1, <2>3, <1>0 DEF AckInv, PacketInv, InboxInv
<1>3. CASE CallDisconnect \/ HandleDisconnect \/ GuestDisconnect
  <2>1. UNCHANGED <<registered, busy, target, inbox, crashed>>
    BY <1>3 DEF CallDisconnect, HandleDisconnect, GuestDisconnect
  <2>2. /\ HasAck(toWorker') <=> HasAck(toWorker)
        /\ HasPacket(toWorker') <=> HasPacket(toWorker)
        /\ OneAck(toWorker) => OneAck(toWorker')
        /\ AckFirst(toWorker) => AckFirst(toWorker')
    BY <1>3, <1>w, <1>x DEF CallDisconnect, HandleDisconnect, GuestDisconnect, Awaits
  <2>3. \/ UNCHANGED <<net, link, broken>>
        \/ net' = Closed(link) /\ link' = NoPeer /\ broken' = Ended
    BY <1>3 DEF CallDisconnect, HandleDisconnect, GuestDisconnect
  <2>4. /\ net'.wire = net.wire /\ net'.open \subseteq net.open
        /\ link' \in {link, NoPeer}
        /\ "timeout" \in broken' <=> "timeout" \in broken
        /\ broken' = {} => broken = {} /\ (link' = NoPeer => link = NoPeer)
    BY <2>3, <1>t DEF Closed, Ended
  <2>5. registered \cap net.open = {} => registered' \cap net'.open = {}
    BY <2>1, <2>4
  <2>6. AckInv'
    BY <2>1, <2>2, <2>4, <1>0 DEF AckInv
  <2>7. PacketInv'
    BY <2>1, <2>2, <2>4, <2>5, <1>0 DEF PacketInv
  <2> QED BY <2>1, <2>6, <2>7, <1>0 DEF InboxInv
<1>4. CASE HandleConnect
  <2>1. /\ UNCHANGED <<net, registered, link, busy, target, inbox, crashed, broken>>
        /\ toWorker # <<>> /\ toWorker' = Tail(toWorker) /\ Head(toWorker).name = "connect"
    BY <1>4 DEF HandleConnect, Awaits
  <2>2. /\ HasAck(toWorker') <=> HasAck(toWorker)
        /\ HasPacket(toWorker') <=> HasPacket(toWorker)
        /\ OneAck(toWorker) => OneAck(toWorker')
        /\ AckFirst(toWorker) => AckFirst(toWorker')
    BY <2>1, <1>x
  <2> QED BY <2>1, <2>2, <1>0 DEF AckInv, PacketInv, InboxInv
<1>5. CASE HandleNetReceived
  <2>1. /\ UNCHANGED <<net, registered, link, busy, target, crashed, broken>>
        /\ toWorker # <<>> /\ toWorker' = Tail(toWorker) /\ inbox' = Append(inbox, Head(toWorker))
        /\ Head(toWorker).name \in {"ack", "packet"}
    BY <1>5 DEF HandleNetReceived, Awaits
  <2>2. InboxInv'
    <3>1. Head(toWorker) \in Message
      BY <1>t, <2>1, Taken
    <3>2. /\ DOMAIN inbox' = DOMAIN inbox \cup {Len(inbox) + 1}
          /\ \A i \in DOMAIN inbox : inbox'[i] = inbox[i]
          /\ inbox'[Len(inbox) + 1] = Head(toWorker)
      BY <1>t, <2>1, <3>1, Posted
    <3> QED BY <2>1, <3>2, <1>0 DEF InboxInv
  <2>3. AckInv'
    BY <2>1, <1>x, <1>i, <1>0 DEF AckInv
  <2>4. PacketInv'
    BY <2>1, <1>x, <1>i, <1>0 DEF PacketInv
  <2> QED BY <2>2, <2>3, <2>4
<1>6. CASE ClientTick \/ \E p \in Peer : GuestConnect(p)
  <2>1. /\ UNCHANGED <<toWorker, registered, link, inbox, crashed, broken>> /\ busy = "no"
        /\ \/ UNCHANGED <<net, busy, target>>
           \/ /\ link = NoPeer /\ busy' # "no"
              /\ \E p \in Peer : net' = Registering(p) /\ target' = p
    <3>1. CASE ClientTick
      <4>1. request # NoPeer => request \in Peer
        BY <1>0 DEF TypeOK
      <4> QED BY <3>1, <4>1 DEF ClientTick
    <3>2. CASE \E p \in Peer : GuestConnect(p)
      BY <3>2 DEF GuestConnect, MayAct
    <3> QED BY <1>6, <3>1, <3>2
  <2>2. CASE UNCHANGED <<net, busy, target>>
    BY <2>1, <2>2, <1>0 DEF AckInv, PacketInv, InboxInv
  <2>3. CASE link = NoPeer /\ busy' # "no" /\ \E p \in Peer : net' = Registering(p) /\ target' = p
    <3>1. net'.open = net.open /\ net'.wire = net.wire \cup {target'}
      BY <2>3, <1>t DEF Registering
    <3>2. AckInv'
      <4> SUFFICES ASSUME "timeout" \notin broken'
                   PROVE  /\ ~ HasAck(toWorker') /\ ~ HasAck(inbox')
                          /\ OneAck(toWorker') /\ OneAck(inbox')
                          /\ net'.wire \subseteq {target'}
                          /\ link' \in registered' \cup {NoPeer}
        BY DEF AckInv
      <4>1. net.wire = {}
        BY <1>0, <1>t, <2>1 DEF AckInv
      <4> QED BY <2>1, <3>1, <4>1, <1>0 DEF AckInv
    <3>3. PacketInv'
      <4> SUFFICES ASSUME broken' = {}
                   PROVE  /\ ~ crashed' /\ registered' \cap net'.open = {}
                          /\ AckFirst(inbox') /\ AckFirst(toWorker')
        BY <2>3 DEF PacketInv
      <4>1. /\ ~ crashed /\ registered \cap net.open = {}
            /\ ~ HasPacket(toWorker) /\ ~ HasPacket(inbox)
        BY <2>1, <2>3, <1>0 DEF PacketInv
      <4>2. AckFirst(inbox) /\ AckFirst(toWorker)
        BY <4>1 DEF HasPacket, AckFirst
      <4> QED BY <2>1, <3>1, <4>1, <4>2
    <3> QED BY <2>1, <3>2, <3>3, <1>0 DEF InboxInv
  <2> QED BY <2>1, <2>2, <2>3
<1>7. CASE RegisterPoll
  <2>1. /\ busy # "no" /\ inbox # <<>> /\ inbox' = Tail(inbox)
        /\ UNCHANGED <<net, toWorker, registered, broken>>
    BY <1>7 DEF RegisterPoll
  <2>2. InboxInv' /\ Head(inbox).name \in {"ack", "packet"}
    BY <2>1, <1>y
  <2>3. CASE Head(inbox).name = "ack"
    <3>1. link' = target /\ busy' = "no" /\ target' = NoPeer /\ crashed' = crashed
      BY <1>7, <2>3 DEF RegisterPoll
    <3>2. AckInv'
      BY <2>1, <2>3, <3>1, <1>y, <1>0 DEF AckInv
    <3>3. PacketInv'
      BY <2>1, <3>1, <1>t, <1>0 DEF PacketInv
    <3> QED BY <2>2, <3>2, <3>3
  <2>4. CASE Head(inbox).name # "ack"
    <3>1. UNCHANGED <<link, busy, target>>
      BY <1>7, <2>4 DEF RegisterPoll
    <3>2. AckInv'
      BY <2>1, <2>4, <3>1, <1>y, <1>0 DEF AckInv
    <3>3. broken # {}
      BY <2>1, <2>2, <2>4, <1>y, <1>0 DEF PacketInv
    <3>4. PacketInv'
      BY <2>1, <3>3 DEF PacketInv
    <3> QED BY <2>2, <3>2, <3>4
  <2> QED BY <2>3, <2>4
<1>8. CASE Timeout
  BY <1>8, <1>0 DEF Timeout, AckInv, PacketInv, InboxInv
<1>9. CASE ClientLoop
  <2>1. /\ link # NoPeer /\ busy = "no" /\ inbox' = <<>>
        /\ UNCHANGED <<net, toWorker, registered, link, busy, target, crashed, broken>>
    BY <1>9, <1>t DEF ClientLoop
  <2>2. ~ HasAck(inbox') /\ OneAck(inbox')
    BY <2>1, <1>e
  <2>3. AckInv'
    BY <2>1, <2>2, <1>0 DEF AckInv
  <2>4. PacketInv' /\ InboxInv'
    BY <2>1, <1>0 DEF PacketInv, InboxInv
  <2> QED BY <2>3, <2>4
<1>10. CASE \E p \in Peer : ServerRegister(p)
  <2> PICK p \in Peer : ServerRegister(p)
    BY <1>10
  <2>1. /\ p \in net.wire /\ registered' = registered \cup {p}
        /\ net'.wire = net.wire \ {p} /\ net'.open = net.open \cup {p}
        /\ toWorker' = Append(toWorker, Msg("ack", p))
        /\ UNCHANGED <<link, busy, target, inbox, crashed, broken>>
    BY DEF ServerRegister, machineVars
  <2>2. /\ HasAck(toWorker') /\ (HasPacket(toWorker') <=> HasPacket(toWorker))
        /\ OneAck(toWorker) /\ ~ HasAck(toWorker) => OneAck(toWorker')
        /\ AckFirst(toWorker) => AckFirst(toWorker')
    BY <2>1, <1>w
  <2>3. "timeout" \notin broken =>
          busy # "no" /\ p = target /\ net.wire = {p} /\ ~ HasAck(toWorker) /\ ~ HasAck(inbox)
    BY <2>1, <1>0, <1>t DEF AckInv
  <2>4. AckInv'
    BY <2>1, <2>2, <2>3, <1>0 DEF AckInv
  <2>5. PacketInv'
    BY <2>1, <2>2, <2>3, <1>0 DEF PacketInv
  <2> QED BY <2>1, <2>4, <2>5, <1>0 DEF InboxInv
<1>11. CASE \E p \in Peer : ServerRelay(p)
  <2> PICK p \in Peer : ServerRelay(p)
    BY <1>11
  <2>1. /\ p \in registered \cap net.open
        /\ toWorker' = Append(toWorker, Msg("packet", p))
        /\ UNCHANGED <<net, registered, link, busy, target, inbox, crashed, broken>>
    BY DEF ServerRelay, machineVars
  <2>2. /\ HasAck(toWorker') <=> HasAck(toWorker)
        /\ OneAck(toWorker) => OneAck(toWorker')
        /\ AckFirst(toWorker) /\ HasAck(toWorker) => AckFirst(toWorker')
    BY <2>1, <1>w
  <2>3. AckInv'
    BY <2>1, <2>2, <1>0 DEF AckInv
  <2>4. PacketInv'
    BY <2>1, <2>2, <1>0 DEF PacketInv
  <2> QED BY <2>1, <2>3, <2>4, <1>0 DEF InboxInv
<1>12. CASE UNCHANGED vars
  BY <1>12, <1>0 DEF vars, machineVars, AckInv, PacketInv, InboxInv
<1> QED BY <1>1, <1>2, <1>3, <1>4, <1>5, <1>6, <1>7, <1>8, <1>9, <1>10, <1>11, <1>12 DEF Next

\* At the start nothing is registered or under way.
LEMMA LinkInit == Init => LinkInv
<1>1. Init => TypeInv
  BY TypeInit
<1>2. \A i \in DOMAIN <<>> : FALSE
  OBVIOUS
<1>3. Init => AckInv /\ PacketInv /\ InboxInv
  BY <1>2 DEF Init, AckInv, PacketInv, InboxInv, HasAck, HasPacket, OneAck, AckFirst
<1> QED BY <1>1, <1>3 DEF LinkInv

\* The server the machine is connected to knows it, until a registration timed
\* out.
THEOREM LinkStaysRegistered == Spec => []LinkIsRegistered
<1>1. LinkInv => LinkIsRegistered
  BY DEF LinkInv, AckInv, LinkIsRegistered
<1> QED BY <1>1, LinkInit, LinkStep, PTL DEF Spec

\* The machine does not abort before a connection or a registration ended.
THEOREM FirstConnectStaysSafe == Spec => []FirstConnectIsSafe
<1>1. LinkInv => FirstConnectIsSafe
  BY DEF LinkInv, PacketInv, FirstConnectIsSafe
<1> QED BY <1>1, LinkInit, LinkStep, PTL DEF Spec
=============================================================================
