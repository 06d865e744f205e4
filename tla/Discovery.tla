------------------------------ MODULE Discovery -------------------------------
(***************************************************************************)
(* How devices that run this program find each other by mDNS               *)
(* (mdns/mdns_discovery.cpp, and the probe of net/kdeconnect_client.cpp).  *)
(*                                                                         *)
(* A device asks everybody, from a socket of its own, and gets the answers *)
(* there; to whom it finds it sends a probe, and that one dials.  Module   *)
(* Mdns has the packets, module Meeting what comes of the dialling.  What  *)
(* is announced or answered to everybody goes to the port where questions  *)
(* are answered, is dropped there, and is left out.                        *)
(***************************************************************************)
EXTENDS Naturals, Sequences, FiniteSets

CONSTANTS
  Device,     \* the devices
  Room,       \* bound: the datagrams that a socket holds
  MaxLosses,  \* bound: datagrams and sessions that are lost
  MaxMoves    \* bound: devices that come to another network address

VARIABLES
  life,      \* running and stop
  thread,     \* whether mdns_thread runs
  net,        \* the address that the device has
  says,       \* announced: the address that it tells
  service,    \* what waits at service_socket
  discovery,  \* what waits at discovery_socket
  probed,     \* mdns_probe_cooldown_, those who were probed a moment ago
  met,        \* the pairs of devices that have sessions
  word,       \* history: the last that it said of itself
  lost, moves

vars == <<life, thread, net, says, service, discovery, probed, met, word, lost, moves>>

Address == Device \X (0 .. MaxMoves)

Query(d, unicast) == [from |-> d, unicast |-> unicast]
Answer(d, host) == [id |-> d, host |-> host]

TypeOK ==
  /\ life \in [Device -> {"off", "on", "stopping"}]
  /\ thread \in [Device -> BOOLEAN]
  /\ net \in [Device -> Address] /\ says \in [Device -> Address]
  /\ \A d \in Device : Len(service[d]) <= Room /\ Len(discovery[d]) <= Room
  /\ probed \in [Device -> SUBSET Device]
  /\ met \subseteq SUBSET Device
  /\ lost \in 0 .. MaxLosses /\ moves \in 0 .. MaxMoves

Init ==
  /\ life = [d \in Device |-> "off"]
  /\ thread = [d \in Device |-> FALSE]
  /\ net = [d \in Device |-> <<d, 0>>] /\ says = net
  /\ service = [d \in Device |-> <<>>] /\ discovery = [d \in Device |-> <<>>]
  /\ probed = [d \in Device |-> {}] /\ met = {}
  /\ word = [d \in Device |-> "goodbye"]
  /\ lost = 0 /\ moves = 0

Open(d) == life[d] # "off"

Full(boxes, d) == Len(boxes[d]) >= Room

\* Datagrams to some sockets: a socket that is closed or full does not get it, and
\* some are lost on the way.
Sent(boxes, to, datagram) ==
  [d \in Device |->
     IF d \in to /\ Open(d) /\ ~Full(boxes, d) THEN Append(boxes[d], datagram) ELSE boxes[d]]

Losing(to) == {l \in SUBSET to : lost + Cardinality(l) <= MaxLosses}

-----------------------------------------------------------------------------

\* start: the sockets are opened, the address that the device will tell is looked
\* up, and it announces itself.  If a socket cannot be opened it stays off.
Start(d) ==
  /\ life[d] = "off"
  /\ life' = [life EXCEPT ![d] = "on"]
  /\ thread' = [thread EXCEPT ![d] = TRUE]
  /\ word' = [word EXCEPT ![d] = "here"]
  /\ says' = [says EXCEPT ![d] = net[d]]
  /\ UNCHANGED <<net, service, discovery, probed, met, lost, moves>>

\* What the last question led to is through.
Settled(d) ==
  /\ discovery[d] = <<>>
  /\ \A e \in Device : \A i \in DOMAIN service[e] : service[e][i].from # d

\* Mutant: the answer is not asked to be sent to the one who asks.
AskAll(d) ==
  /\ thread[d] /\ Settled(d)
  /\ \E l \in Losing(Device) :
       /\ service' = Sent(service, Device \ l, Query(d, FALSE))
       /\ lost' = lost + Cardinality(l)
  /\ probed' = [probed EXCEPT ![d] = {}]
  /\ UNCHANGED <<life, thread, net, says, discovery, met, word, moves>>

\* send_query, when kQueryRepeat is over, which is longer than kMdnsProbeCooldown.
\* Assumed: what the question before this one led to is through by then; the two
\* that are sent at the start are one.
\* The group gets it, the device itself too.  As the socket is not bound to the
\* port of mDNS the answer is to be unicast.
Ask(d) ==
  /\ thread[d] /\ Settled(d)
  /\ \E l \in Losing(Device) :
       /\ service' = Sent(service, Device \ l, Query(d, TRUE))
       /\ lost' = lost + Cardinality(l)
  /\ probed' = [probed EXCEPT ![d] = {}]
  /\ UNCHANGED <<life, thread, net, says, discovery, met, word, moves>>

\* mdns_socket_listen with service_callback.
Listen(d) ==
  /\ thread[d] /\ service[d] # <<>>
  /\ service' = [service EXCEPT ![d] = Tail(@)]
  /\ LET query == Head(service[d])
         to == IF query.unicast THEN {query.from} ELSE {}
     IN \E l \in Losing(to) :
          /\ discovery' = Sent(discovery, to \ l, Answer(d, says[d]))
          /\ lost' = lost + Cardinality(l)
  /\ word' = [word EXCEPT ![d] = "here"]
  /\ UNCHANGED <<life, thread, net, says, probed, met, moves>>

\* Mutant: the answer of the device itself counts.
FoundAny(d, answer) == TRUE

\* Whoever has its own id is not reported.
Found(d, answer) == answer.id # d

\* send_udp_identity_probe: the probe goes to the address that the answer names.
ProbeReaches(answer) == Open(answer.id) /\ net[answer.id] = answer.host

\* mdns_query_recv with discovery_callback.  The one that is found gets a probe,
\* unless there is a session with it or it got one a moment ago; a probe that
\* reaches it makes it dial.
Receive(d) ==
  /\ thread[d] /\ discovery[d] # <<>>
  /\ LET answer == Head(discovery[d])
         probe == Found(d, answer) /\ {d, answer.id} \notin met /\ answer.id \notin probed[d]
     IN /\ discovery' = [discovery EXCEPT ![d] = Tail(@)]
        /\ probed' = IF probe THEN [probed EXCEPT ![d] = @ \cup {answer.id}] ELSE probed
        /\ \E l \in Losing(IF probe THEN {answer.id} ELSE {}) :
             /\ met' = IF probe /\ ProbeReaches(answer) /\ l = {} THEN met \cup {{d, answer.id}} ELSE met
             /\ lost' = lost + Cardinality(l)
  /\ UNCHANGED <<life, thread, net, says, service, word, moves>>

\* stop; the thread finishes its round.
BeginStop(d) ==
  /\ life[d] = "on"
  /\ life' = [life EXCEPT ![d] = "stopping"]
  /\ UNCHANGED <<thread, net, says, service, discovery, probed, met, word, lost, moves>>

\* The thread begins another round, and there is none.
Exit(d) ==
  /\ life[d] = "stopping" /\ thread[d]
  /\ thread' = [thread EXCEPT ![d] = FALSE]
  /\ UNCHANGED <<life, net, says, service, discovery, probed, met, word, lost, moves>>

\* stop, when it has joined the thread: the device takes its leave and closes the
\* sockets.  Its sessions end with the client.
\* Mutant: it does not join the thread.
EndStopAtOnce(d) ==
  /\ life[d] = "stopping"
  /\ life' = [life EXCEPT ![d] = "off"]
  /\ service' = [service EXCEPT ![d] = <<>>]
  /\ discovery' = [discovery EXCEPT ![d] = <<>>]
  /\ probed' = [probed EXCEPT ![d] = {}]
  /\ met' = {p \in met : d \notin p}
  /\ word' = [word EXCEPT ![d] = "goodbye"]
  /\ UNCHANGED <<thread, net, says, lost, moves>>

EndStop(d) == ~thread[d] /\ EndStopAtOnce(d)

\* A device comes to another address, and its sessions break.  The client is restarted
\* if main sees that the network was gone meanwhile (module Application), which stops
\* and starts the device here; if main does not, it goes on telling the old address.
Move(d) ==
  /\ moves < MaxMoves
  /\ net' = [net EXCEPT ![d] = <<d, moves + 1>>]
  /\ met' = {p \in met : d \notin p}
  /\ moves' = moves + 1
  /\ UNCHANGED <<life, thread, says, service, discovery, probed, word, lost>>

\* A session breaks.
Part ==
  /\ met # {} /\ lost < MaxLosses
  /\ \E p \in met : met' = met \ {p}
  /\ lost' = lost + 1
  /\ UNCHANGED <<life, thread, net, says, service, discovery, probed, word, moves>>

Thread(d) == Ask(d) \/ Listen(d) \/ Receive(d)

Next ==
  \/ Part
  \/ \E d \in Device : Start(d) \/ Thread(d) \/ BeginStop(d) \/ Exit(d) \/ EndStop(d) \/ Move(d)

\* The thread asks in time and goes round both sockets.
Spec ==
  /\ Init /\ [][Next]_vars
  /\ \A d \in Device :
       WF_vars(Ask(d)) /\ WF_vars(Listen(d)) /\ WF_vars(Receive(d))

-----------------------------------------------------------------------------

\* A device never probes itself, though it hears its own questions and answers.
NeverItself == \A d \in Device : d \notin probed[d]

\* A device whose sockets are closed has no thread that could use them, and the
\* last that it said of itself is that it leaves.
GoodbyeIsLast == \A d \in Device : ~Open(d) => ~thread[d] /\ word[d] = "goodbye"

\* The address that a device tells is its own.
Reachable(d) == says[d] = net[d]

\* Two devices that run find each other, whatever was lost before and wherever they
\* were before, unless both came to another address without a restart: one that
\* did so still finds the other, and is dialled from there.
PeersMeet ==
  \A p \in {q \in SUBSET Device : Cardinality(q) = 2} :
    ((\A d \in p : life[d] = "on") /\ (\E d \in p : Reachable(d)))
      ~> (p \in met \/ (\E d \in p : life[d] # "on") \/ (\A d \in p : ~Reachable(d)))

=============================================================================
