------------------------------- MODULE Network -------------------------------
(***************************************************************************)
(* The network of a session: networkConnect and networkDisconnect of the   *)
(* client (src/protocol/protocol.ts), the worker that takes the request     *)
(* until the machine looks for it (client_tick in worker-protocol.cpp) and  *)
(* the machine that registers with an IPX server of another peer            *)
(* (native/jsdos/jsdos-ipx.cpp, jsdos-ipxserver.cpp, jsdos-net.cpp).        *)
(*                                                                         *)
(* The guest may connect and disconnect on its own with the IPXNET program; *)
(* the client is told of it with the same messages that answer its calls.   *)
(* The machine itself is no server here (IPXNET STARTSERVER).               *)
(***************************************************************************)
EXTENDS Naturals, FiniteSets, SequencesExt

CONSTANTS
  Peer,         \* the other machines, each an address to connect to
  NoPeer,
  Direct,       \* the machine runs in the client's thread: no queues
  WithGuest,    \* the guest uses IPXNET as well
  MaxQueue      \* bound of the model: messages that wait

ASSUME NetworkAssumption ==
  /\ IsFiniteSet(Peer)
  /\ NoPeer \notin Peer
  /\ Direct \in BOOLEAN
  /\ WithGuest \in BOOLEAN
  /\ MaxQueue \in Nat

VARIABLES
  client,       \* which promise fields are set, and what the user waits for
  net,          \* transport.net: registrations on their way, open connections
  toWorker,     \* messages to the worker
  toClient,     \* messages to the client
  request,      \* connectNetwork and connectToAddress, NoPeer for NETWORK_NA
  link,         \* incomingPacket.connected and ipxServerPeer, NoPeer when not connected
  busy,         \* who waits in _ConnectToServer: "no", "tick" or "guest"
  target,       \* the server it waits for
  inbox,        \* wsBuffers
  registered,   \* the servers that have this machine in their table
  crashed,      \* the machine called abort
  guestActed,   \* history: the guest used IPXNET
  broken        \* history: what already ended, "link" or "timeout"

machineVars == <<request, link, busy, target, inbox, crashed, guestActed, broken>>
vars == <<client, net, toWorker, toClient, registered, machineVars>>

Message == [name : {"connect", "disconnect", "ack", "packet"}, peer : Peer \cup {NoPeer}]
Msg(n, p) == [name |-> n, peer |-> p]

Init ==
  /\ client = [connecting |-> FALSE, disconnecting |-> FALSE, call |-> "none"]
  /\ net = [wire |-> {}, open |-> {}]
  /\ toWorker = <<>>
  /\ toClient = <<>>
  /\ request = NoPeer
  /\ link = NoPeer
  /\ busy = "no"
  /\ target = NoPeer
  /\ inbox = <<>>
  /\ registered = {}
  /\ crashed = FALSE
  /\ guestActed = FALSE
  /\ broken = {}

----------------------------------------------------------------------------
(* The client's side.                                                       *)

\* Mutant: ws-connected keeps the promise field.
AnsweredKept(c, n) ==
  IF c.connecting THEN [c EXCEPT !.connecting = (n = "connected"), !.call = "none"]
  ELSE IF n = "disconnected" THEN [c EXCEPT !.disconnecting = FALSE, !.call = "none"]
  ELSE c

\* ws-connected settles a pending connect; ws-disconnected rejects a pending
\* connect and otherwise settles a disconnect.
Answered(c, n) ==
  IF c.connecting THEN [c EXCEPT !.connecting = FALSE, !.call = "none"]
  ELSE IF n = "disconnected" THEN [c EXCEPT !.disconnecting = FALSE, !.call = "none"]
  ELSE c

\* client_network_connected, client_network_disconnected: handled at once, or posted.
Tell(n) ==
  /\ client' = IF Direct THEN Answered(client, n) ELSE client
  /\ toClient' = IF Direct THEN toClient ELSE Append(toClient, n)

\* wsSend and wsClose.  The client retries a send until the connection is open;
\* the delay of its messages is part of the time a registration is on the wire.
Registering(p) == [net EXCEPT !.wire = @ \cup {p}]
Closed(p) == [net EXCEPT !.open = @ \ {p}]

OnMessage ==
  /\ toClient # <<>>
  /\ client' = Answered(client, Head(toClient))
  /\ toClient' = Tail(toClient)
  /\ UNCHANGED <<net, toWorker, registered, machineVars>>

\* Bound of the model: one registration of a peer at a time, or its answer, is
\* on its way.
NotOnItsWay(p) ==
  /\ p \notin net.wire
  /\ request # p
  /\ \A m \in ToSet(toWorker) \cup ToSet(inbox) : m \notin {Msg("connect", p), Msg("ack", p)}

MayCall ==
  /\ client.call = "none"
  /\ ~client.connecting
  /\ ~client.disconnecting
  /\ Len(toWorker) < MaxQueue
  /\ Len(toClient) < MaxQueue

\* networkConnect.  The direct transport runs the handler inside the call.
CallConnect(p) ==
  /\ MayCall
  /\ NotOnItsWay(p)
  /\ client' = [client EXCEPT !.connecting = TRUE, !.call = "connect"]
  /\ IF Direct
     THEN /\ ~crashed
          /\ request' = p
          /\ toWorker' = toWorker
     ELSE /\ toWorker' = Append(toWorker, Msg("connect", p))
          /\ UNCHANGED request
  /\ UNCHANGED <<net, toClient, registered, link, busy, target, inbox, crashed, guestActed, broken>>

\* The history once server_network_disconnect or IPXNET DISCONNECT ran.
Ended == IF link = NoPeer THEN broken ELSE broken \cup {"link"}

\* networkDisconnect.  The direct transport settles the promise inside its
\* constructor, before the field that is to be cleared is set.
CallDisconnect ==
  /\ MayCall
  /\ IF Direct
     THEN /\ ~crashed
          /\ LET c == Answered([client EXCEPT !.call = "disconnect"], "disconnected")
             IN  client' = [c EXCEPT !.disconnecting = TRUE]
          /\ net' = Closed(link)
          /\ request' = NoPeer
          /\ link' = NoPeer
          /\ broken' = Ended
          /\ toWorker' = toWorker
     ELSE /\ client' = [client EXCEPT !.disconnecting = TRUE, !.call = "disconnect"]
          /\ toWorker' = Append(toWorker, Msg("disconnect", NoPeer))
          /\ UNCHANGED <<net, request, link, broken>>
  /\ UNCHANGED <<toClient, registered, busy, target, inbox, crashed, guestActed>>

----------------------------------------------------------------------------
(* The worker's handlers, while the machine sleeps or between its ticks.    *)

Awaits(n) == toWorker # <<>> /\ Head(toWorker).name = n /\ ~crashed

HandleConnect ==
  /\ Awaits("connect")
  /\ request' = Head(toWorker).peer
  /\ toWorker' = Tail(toWorker)
  /\ UNCHANGED <<client, net, toClient, registered, link, busy, target, inbox, crashed,
                 guestActed, broken>>

HandleDisconnect ==
  /\ Awaits("disconnect")
  /\ toWorker' = Tail(toWorker)
  /\ Tell("disconnected")
  /\ net' = Closed(link)
  /\ request' = NoPeer
  /\ link' = NoPeer
  /\ broken' = Ended
  /\ UNCHANGED <<registered, busy, target, inbox, crashed, guestActed>>

HandleNetReceived ==
  /\ \E n \in {"ack", "packet"} : Awaits(n)
  /\ inbox' = Append(inbox, Head(toWorker))
  /\ toWorker' = Tail(toWorker)
  /\ UNCHANGED <<client, net, toClient, registered, request, link, busy, target, crashed,
                 guestActed, broken>>

----------------------------------------------------------------------------
(* The machine.                                                             *)

\* Mutant: a request is refused while connected, but the client is not told.
ClientTickSilent ==
  /\ request # NoPeer
  /\ busy = "no"
  /\ ~crashed
  /\ IF link # NoPeer
     THEN request' = NoPeer /\ UNCHANGED <<net, busy, target>>
     ELSE net' = Registering(request) /\ busy' = "tick" /\ target' = request
          /\ UNCHANGED request
  /\ UNCHANGED <<client, toClient, toWorker, registered, link, inbox, crashed, guestActed, broken>>

\* Mutant: server_network_connect does not look whether there is a connection.
ClientTickUnchecked ==
  /\ request # NoPeer
  /\ busy = "no"
  /\ ~crashed
  /\ net' = Registering(request)
  /\ busy' = "tick"
  /\ target' = request
  /\ UNCHANGED <<client, toClient, request>>
  /\ UNCHANGED <<toWorker, registered, link, inbox, crashed, guestActed, broken>>

\* client_tick: takes the request, and forgets it once it was tried.
ClientTick ==
  /\ request # NoPeer
  /\ busy = "no"
  /\ ~crashed
  /\ IF link # NoPeer
     THEN /\ Tell("disconnected")
          /\ request' = NoPeer
          /\ UNCHANGED <<net, busy, target>>
     ELSE /\ net' = Registering(request)
          /\ busy' = "tick"
          /\ target' = request
          /\ UNCHANGED <<client, toClient, request>>
  /\ UNCHANGED <<toWorker, registered, link, inbox, crashed, guestActed, broken>>

\* Mutant: client_tick does not forget the request.
UnwantedKept == request

\* The request once a registration ended: client_tick forgets its own.
Unwanted == IF busy = "tick" THEN NoPeer ELSE request

\* Mutant: the first packet is taken for the answer, whatever it is.
RegisterPollAny ==
  /\ busy # "no"
  /\ inbox # <<>>
  /\ ~crashed
  /\ inbox' = Tail(inbox)
  /\ link' = target
  /\ Tell("connected")
  /\ busy' = "no"
  /\ target' = NoPeer
  /\ request' = Unwanted
  /\ UNCHANGED <<net, toWorker, registered, crashed, guestActed, broken>>

\* The loop of _ConnectToServer finds a packet.  It has to be the answer to a
\* registration of this machine, whoever sent it; for anything else the loop,
\* or wsRecv, aborts.
RegisterPoll ==
  /\ busy # "no"
  /\ inbox # <<>>
  /\ ~crashed
  /\ inbox' = Tail(inbox)
  /\ IF Head(inbox).name = "ack"
     THEN /\ link' = target
          /\ Tell("connected")
          /\ busy' = "no"
          /\ target' = NoPeer
          /\ request' = Unwanted
          /\ UNCHANGED crashed
     ELSE /\ crashed' = TRUE
          /\ UNCHANGED <<client, toClient, request, link, busy, target>>
  /\ UNCHANGED <<net, toWorker, registered, guestActed, broken>>

\* Mutant: a time-out forgets to tell the client.
TimeoutSilent ==
  /\ busy # "no"
  /\ inbox = <<>>
  /\ ~crashed
  /\ net' = Closed(target)
  /\ busy' = "no"
  /\ target' = NoPeer
  /\ request' = Unwanted
  /\ broken' = broken \cup {"timeout"}
  /\ UNCHANGED <<client, toClient, toWorker, registered, link, inbox, crashed, guestActed>>

\* Mutant: the loop has no time limit.
TimeoutNever ==
  /\ busy = "no"
  /\ UNCHANGED vars

\* 15 seconds went by; the loop looked for a packet just before.
Timeout ==
  /\ busy # "no"
  /\ inbox = <<>>
  /\ ~crashed
  /\ Tell("disconnected")
  /\ net' = Closed(target)
  /\ busy' = "no"
  /\ target' = NoPeer
  /\ request' = Unwanted
  /\ broken' = broken \cup {"timeout"}
  /\ UNCHANGED <<toWorker, registered, link, inbox, crashed, guestActed>>

\* IPX_ClientLoop: a tick hands all that arrived to the guest.
ClientLoop ==
  /\ link # NoPeer
  /\ inbox # <<>>
  /\ ~crashed
  /\ inbox' = <<>>
  /\ UNCHANGED <<client, net, toWorker, toClient, registered, request, link, busy, target,
                 crashed, guestActed, broken>>

MayAct == WithGuest /\ busy = "no" /\ ~crashed /\ Len(toClient) < MaxQueue

\* IPXNET CONNECT.
GuestConnect(p) ==
  /\ MayAct
  /\ link = NoPeer
  /\ NotOnItsWay(p)
  /\ net' = Registering(p)
  /\ busy' = "guest"
  /\ target' = p
  /\ guestActed' = TRUE
  /\ UNCHANGED <<client, toClient, toWorker, registered, request, link, inbox, crashed, broken>>

\* IPXNET DISCONNECT.
GuestDisconnect ==
  /\ MayAct
  /\ link # NoPeer
  /\ Tell("disconnected")
  /\ net' = Closed(link)
  /\ link' = NoPeer
  /\ broken' = Ended
  /\ guestActed' = TRUE
  /\ UNCHANGED <<toWorker, registered, request, busy, target, inbox, crashed>>

----------------------------------------------------------------------------
(* The other peers: the same program with IPXNET STARTSERVER.  What they    *)
(* send is taken by the poll of the client and posted to the worker.         *)

\* A registration arrives, which opens the connection, and is answered.
ServerRegister(p) ==
  /\ p \in net.wire
  /\ net' = [wire |-> net.wire \ {p}, open |-> net.open \cup {p}]
  /\ registered' = registered \cup {p}
  /\ toWorker' = Append(toWorker, Msg("ack", p))
  /\ UNCHANGED <<client, toClient, machineVars>>

\* Mutant: packets are relayed to every connection.
ServerRelayAll(p) ==
  /\ p \in net.wire \cup net.open
  /\ \A m \in ToSet(toWorker) \cup ToSet(inbox) : m.name # "packet"
  /\ toWorker' = Append(toWorker, Msg("packet", p))
  /\ UNCHANGED <<client, net, toClient, registered, machineVars>>

\* sendIPXPacket relays what another machine sends, to the registered ones.
\* Bound of the model: one packet at a time.
ServerRelay(p) ==
  /\ p \in registered \cap net.open
  /\ \A m \in ToSet(toWorker) \cup ToSet(inbox) : m.name # "packet"
  /\ toWorker' = Append(toWorker, Msg("packet", p))
  /\ UNCHANGED <<client, net, toClient, registered, machineVars>>

----------------------------------------------------------------------------

Next ==
  \/ OnMessage
  \/ \E p \in Peer : CallConnect(p)
  \/ CallDisconnect
  \/ HandleConnect
  \/ HandleDisconnect
  \/ HandleNetReceived
  \/ ClientTick
  \/ RegisterPoll
  \/ Timeout
  \/ ClientLoop
  \/ \E p \in Peer : GuestConnect(p)
  \/ GuestDisconnect
  \/ \E p \in Peer : ServerRegister(p)
  \/ \E p \in Peer : ServerRelay(p)

Spec == Init /\ [][Next]_vars

\* Event loops hand over what is posted; the loop of _ConnectToServer ends
\* within 15 seconds; between two programs of the guest the emulator's loop
\* calls client_tick.
Fairness ==
  /\ WF_vars(OnMessage)
  /\ WF_vars(HandleConnect \/ HandleDisconnect \/ HandleNetReceived)
  /\ WF_vars(RegisterPoll \/ Timeout)
  /\ SF_vars(ClientTick)

LiveSpec == Spec /\ Fairness

----------------------------------------------------------------------------
(* Properties.                                                              *)

\* The values of the state; a registration has a target, and the machine does not
\* register while it is connected, which would leave two tick handlers.
TypeOK ==
  /\ client \in [connecting : BOOLEAN, disconnecting : BOOLEAN,
                 call : {"none", "connect", "disconnect"}]
  /\ net \in [wire : SUBSET Peer, open : SUBSET Peer]
  /\ toWorker \in Seq(Message)
  /\ toClient \in Seq({"connected", "disconnected"})
  /\ request \in Peer \cup {NoPeer}
  /\ link \in Peer \cup {NoPeer}
  /\ busy \in {"no", "tick", "guest"}
  /\ target \in Peer \cup {NoPeer}
  /\ target = NoPeer <=> busy = "no"
  /\ busy # "no" => link = NoPeer
  /\ inbox \in Seq(Message)
  /\ registered \in SUBSET Peer
  /\ crashed \in BOOLEAN
  /\ guestActed \in BOOLEAN
  /\ broken \in SUBSET {"link", "timeout"}

\* networkConnect and networkDisconnect refuse a call with "Already prefoming
\* connection or disconnection..." only while the promise of an earlier one
\* has not settled.
RefusedOnlyWhileBusy ==
  /\ client.connecting => client.call = "connect"
  /\ client.disconnecting => client.call = "disconnect"

\* A call that waits has its cause to end on its way: the message, the request
\* it left, the registration, or the answer.  Whatever the guest does between.
NoLostCall ==
  /\ client.connecting =>
       \/ \E m \in ToSet(toWorker) : m.name = "connect"
       \/ request # NoPeer
       \/ busy # "no"
       \/ toClient # <<>>
  /\ client.disconnecting =>
       \/ \E m \in ToSet(toWorker) : m.name = "disconnect"
       \/ "disconnected" \in ToSet(toClient)

\* When no call waits, nothing of it goes on in the machine: a connect that
\* was rejected does not succeed afterwards.  Only the guest's own use of
\* IPXNET, whose messages look like answers, can break this.
SettledIsOver ==
  ~guestActed /\ ~client.connecting =>
    /\ \A m \in ToSet(toWorker) : m.name # "connect"
    /\ request = NoPeer
    /\ busy # "tick"

\* The server the machine is connected to has it in its table, so that it gets
\* the packets of the others - until a registration timed out, whose answer
\* may still arrive and be taken for the answer of another server.
LinkIsRegistered == "timeout" \notin broken => link \in registered \cup {NoPeer}

\* What is left of an earlier connection is the only thing that can stand
\* where the answer to a registration is expected, and abort the machine.
FirstConnectIsSafe == broken = {} => ~crashed

\* A call settles, unless the machine aborts.
CallsSettle == client.call # "none" ~> client.call = "none" \/ crashed
============================================================================
