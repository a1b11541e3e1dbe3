--------------------------------- MODULE Dhcp ---------------------------------
(***************************************************************************)
(* Final Project/Code/client1.py and DHCP_Server.py: clients that ask for  *)
(* an address and, once READY, resolve a name over and over.  All of them  *)
(* run on the server's host (they send to 0.0.0.0) and share its port 68;  *)
(* the kernel decides which of them gets a datagram.                       *)
(* An address is named by one of its numbers: 0 is 0.0.0.0, 8 is 8.8.8.8,  *)
(* any other n is 192.168.1.n.                                             *)
(***************************************************************************)
EXTENDS NameServer, FiniteSets

CONSTANTS
    Clients,      \* runs of client1.py
    First, Limit, \* last numbers of ip_range_start and ip_range_end
    HostSets,     \* sets of addresses that may be seen answering a probe
    query         \* google.com

ASSUME DhcpAssumption ==
    /\ IsFiniteSet(Clients)
    /\ First \in 9..255 /\ Limit \in 9..255
    /\ HostSets \subseteq SUBSET (0..255)
    /\ Askers = Clients
    /\ query \in Names

VARIABLES
    up,           \* the server's socket is bound
    answering,    \* the addresses whose probe meets an ICMP packet
    toServer,     \* in the buffer of port 67
    state,        \* of each client; "off" before its start, "dead" after an exception
    inbox,        \* in the buffer of its socket on port 68
    server_address,       \* its dhcp_server_address: a text, later what recvfrom() returned
    response,     \* its dhcp_response
    assigned      \* its assigned_ip_address

dhcpVars == <<up, answering, toServer, state, inbox, server_address, response, assigned>>
vars == <<dhcpVars, nameVars>>

\* Addresses the server tries: range() leaves the last one out.
Pool == First..(Limit - 1)
Addresses == 0..255

---------------------------------------------------------------------------
\* A datagram, by the bytes that somebody reads: 0, 1, 4 to 7, 12 to 15, 16 to 19, 242.

Datagram == [len : {25, 236, 252, 262}, b0 : {1, 2, 6}, b1 : {0, 1, 5}, at4 : Addresses,
             at12 : Addresses, at16 : Addresses, at242 : {0, 1, 3, 99}]

Message(len, b0, b1, at4, at12, at16, at242) ==
    [len |-> len, b0 |-> b0, b1 |-> b1, at4 |-> at4, at12 |-> at12, at16 |-> at16, at242 |-> at242]

Discover == Message(252, 1, 1, 0, 0, 0, 1)

\* The client asks for addresses in texts and options, where nobody reads them.  Mutant: the
\* type is not put at byte 242.
RequestUnpatched == Message(262, 1, 1, 0, 0, 0, 99)
Request == Message(262, 1, 1, 0, 0, 0, 3)

\* generate_dhcp_offer: the name server's address is where the client looks for its own.
Offer(ip) == Message(25, 2, 1, ip, 0, 8, 0)

\* Mutant: the two bytes in front are left as they were, 5 and the character 0.
AckAsWritten == Message(236, 5, 48, 0, 0, 0, 0)

\* generate_dhcp_ack: the address is written as text from byte 1, over which 5 is written.
Ack == Message(236, 2, 5, 0, 0, 0, 0)
Nak == Message(236, 6, 0, 0, 0, 0, 0)

IsDhcpOffer(m) == m.b0 = 2 /\ m.b1 = 1

\* Mutant: the type the server's function begins with.
IsDhcpAckByType(m) == m.b0 = 5
IsDhcpAck(m) == m.b0 = 2 /\ m.b1 = 5

\* The address parse_dhcp_offer and parse_dhcp_ack read.
Yiaddr(m) == m.at16

---------------------------------------------------------------------------
ClientStates == {"off", "INIT", "DISCOVER_SENT", "REQUEST_SENT", "READY", "QUERY_SENT", "dead"}
NoResponse == <<>>

Init ==
    /\ NameInit
    /\ up = FALSE
    /\ answering \in HostSets
    /\ toServer = <<>>
    /\ state = [c \in Clients |-> "off"]
    /\ inbox = [c \in Clients |-> <<>>]
    /\ server_address = [c \in Clients |-> "text"]
    /\ response = [c \in Clients |-> NoResponse]
    /\ assigned = [c \in Clients |-> 0]

\* The clients whose sockets are open.
Running == {c \in Clients : state[c] \notin {"off", "dead"}}

\* A datagram for port 68 comes to one of them, or is lost if there is none.
Deliver(m) ==
    IF Running = {} THEN UNCHANGED inbox
    ELSE \E c \in Running : inbox' = [inbox EXCEPT ![c] = Append(@, m)]

\* One for port 67 is lost while the server does not run.
SendToServer(m) == toServer' = IF up THEN Append(toServer, m) ELSE toServer

Goto(c, s) == state' = [state EXCEPT ![c] = s]

\* ---- DHCP_Server.py

\* main.py starts the two servers, in no order.
ServerStarts ==
    /\ ~up
    /\ up' = TRUE
    /\ UNCHANGED <<answering, toServer, state, inbox, server_address, response, assigned, nameVars>>

IsIpAvailable(ip) == ip \notin answering

\* A discover: an offer of the first address that seems to be free, or nothing.
AnswerDiscover ==
    IF \A ip \in Pool : ~IsIpAvailable(ip) THEN UNCHANGED inbox
    ELSE \E ip \in Pool :
            /\ IsIpAvailable(ip)
            /\ \A before \in Pool : before < ip => ~IsIpAvailable(before)
            /\ Deliver(Offer(ip))

\* Mutant: another address is offered instead of a refusal.
AnswerRequestWithOffer(m) == Deliver(IF IsIpAvailable(m.at12) THEN Ack ELSE Offer(First))

\* A request: the address is taken from bytes 12 to 15.
AnswerRequest(m) == Deliver(IF IsIpAvailable(m.at12) THEN Ack ELSE Nak)

\* The loop of the server, once around: it keeps no account of what it has offered.
ServerAnswers ==
    /\ up
    /\ toServer # <<>>
    /\ LET m == Head(toServer)
       IN  \/ m.len >= 236 /\ m.at242 = 1 /\ AnswerDiscover
           \/ m.len >= 236 /\ m.at242 = 3 /\ AnswerRequest(m)
           \/ (m.len < 236 \/ m.at242 \notin {1, 3}) /\ UNCHANGED inbox
    /\ toServer' = Tail(toServer)
    /\ UNCHANGED <<up, answering, state, server_address, response, assigned, nameVars>>

\* ---- client1.py

\* The process starts and binds its socket.
ClientStarts(c) ==
    /\ state[c] = "off"
    /\ Goto(c, "INIT")
    /\ UNCHANGED <<up, answering, toServer, inbox, server_address, response, assigned, nameVars>>

\* INIT: the destination has to be a text; sendto() raises TypeError for what recvfrom()
\* returned, which ends the process and closes its socket.
ClientDiscovers(c) ==
    /\ state[c] = "INIT"
    /\ IF server_address[c] = "text"
       THEN SendToServer(Discover) /\ Goto(c, "DISCOVER_SENT") /\ UNCHANGED inbox
       ELSE Goto(c, "dead") /\ inbox' = [inbox EXCEPT ![c] = <<>>] /\ UNCHANGED toServer
    /\ UNCHANGED <<up, answering, server_address, response, assigned, nameVars>>

\* recvfrom() on the socket of port 68.
Received(c) == Head(inbox[c])
Receive(c) ==
    /\ inbox[c] # <<>>
    /\ inbox' = [inbox EXCEPT ![c] = Tail(@)]
    /\ response' = [response EXCEPT ![c] = Received(c)]
    /\ server_address' = [server_address EXCEPT ![c] = "pair"]

\* DISCOVER_SENT: an offer is accepted, anything else passed over.
ClientRequests(c) ==
    /\ state[c] = "DISCOVER_SENT"
    /\ Receive(c)
    /\ IF IsDhcpOffer(Received(c))
       THEN /\ assigned' = [assigned EXCEPT ![c] = Yiaddr(Received(c))]
            /\ SendToServer(Request)
            /\ Goto(c, "REQUEST_SENT")
       ELSE UNCHANGED <<assigned, toServer, state>>
    /\ UNCHANGED <<up, answering, nameVars>>

\* REQUEST_SENT: an acknowledgement makes the client ready, anything else sends it back.
ClientConfigures(c) ==
    /\ state[c] = "REQUEST_SENT"
    /\ Receive(c)
    /\ IF IsDhcpAck(Received(c))
       THEN assigned' = [assigned EXCEPT ![c] = Yiaddr(Received(c))] /\ Goto(c, "READY")
       ELSE Goto(c, "INIT") /\ UNCHANGED assigned
    /\ UNCHANGED <<up, answering, toServer, nameVars>>

\* READY: a query on a new socket; it is lost if the name server does not run.
ClientQueries(c) ==
    /\ state[c] = "READY"
    /\ queries' = IF "queries" \in listening THEN Append(queries, [from |-> c, name |-> query])
                  ELSE queries
    /\ Goto(c, "QUERY_SENT")
    /\ UNCHANGED <<up, answering, toServer, inbox, server_address, response, assigned,
                   listening, dns_cache, updates, replies, resolver>>

\* recv() on that socket; the client prints what it got and begins anew five seconds later.
ClientResolves(c) ==
    /\ state[c] = "QUERY_SENT"
    /\ replies[c] # <<>>
    /\ replies' = [replies EXCEPT ![c] = Tail(@)]
    /\ Goto(c, "READY")
    /\ UNCHANGED <<up, answering, toServer, inbox, server_address, response, assigned,
                   listening, dns_cache, queries, updates, resolver>>

\* ---- the environment

HostsChange ==
    /\ answering' \in HostSets
    /\ UNCHANGED <<up, toServer, state, inbox, server_address, response, assigned, nameVars>>

ClientStep(c) ==
    \/ ClientDiscovers(c) \/ ClientRequests(c) \/ ClientConfigures(c)
    \/ ClientQueries(c) \/ ClientResolves(c)

NameServerWorks == (HandleQuery \/ HandleUpdate) /\ UNCHANGED dhcpVars
NameServerDisturbed == (NameServerStarts \/ SendUpdate \/ ResolverChanges) /\ UNCHANGED dhcpVars

Next ==
    \/ \E c \in Clients : ClientStarts(c) \/ ClientStep(c)
    \/ ServerStarts \/ ServerAnswers
    \/ NameServerWorks
    \/ NameServerDisturbed
    \/ HostsChange

\* Programs that run are scheduled; nobody has to start them.
Fairness ==
    /\ \A c \in Clients : WF_vars(ClientStep(c))
    /\ WF_vars(ServerAnswers)
    /\ WF_vars(HandleQuery /\ UNCHANGED dhcpVars)
    /\ WF_vars(HandleUpdate /\ UNCHANGED dhcpVars)

Spec == Init /\ [][Next]_vars /\ Fairness

---------------------------------------------------------------------------
TypeOK ==
    /\ NameTypeOK
    /\ up \in BOOLEAN
    /\ answering \in HostSets
    /\ toServer \in Seq(Datagram)
    /\ state \in [Clients -> ClientStates]
    /\ inbox \in [Clients -> Seq(Datagram)]
    /\ server_address \in [Clients -> {"text", "pair"}]
    /\ response \in [Clients -> Datagram \cup {NoResponse}]
    /\ assigned \in [Clients -> Addresses]

\* No other client has been started.
Alone(c) == \A d \in Clients \ {c} : state[d] = "off"

\* A client whose host runs no other one dies only of a refusal: no offer is sent twice,
\* and nothing of an earlier exchange is left where an acknowledgement is awaited
\* (the return to INIT in client1.py).
LoneClientDiesOnlyOfNak ==
    \A c \in Clients : Alone(c) /\ state[c] = "dead" => response[c] = Nak

Dead == {c \in Clients : state[c] = "dead" /\ IsDhcpOffer(response[c])}
Waiting == {c \in Clients : state[c] = "DISCOVER_SENT"}

\* Clients that share the port take each other's offers, and one that gets a second offer
\* dies of it: but then another one that has sent its discover has none, each for one.
SecondOffersWereOthers == Cardinality(Dead) <= Cardinality(Waiting)

\* A client that runs alone on its host becomes ready if the server runs and the probes
\* meet no packets; nobody sends a datagram again, so none may be passed over.
LoneClientBecomesReady ==
    \A c \in Clients :
        (state[c] = "INIT" /\ server_address[c] = "text" /\ up) ~>
            (state[c] = "READY" \/ answering # {} \/ ~Alone(c))

Asked(c) == \E i \in DOMAIN queries : queries[i].from = c

\* A query that has reached the name server returns, unless the resolver fails: also for a
\* name that does not exist, and after an update has ended the other thread.
QueriesReturn ==
    \A c \in Clients : Asked(c) ~> (state[c] = "READY" \/ resolver = "failure")

\* "If the DHCP response is not an acknowledge message, return to the DISCOVER_SENT state"
\* (client1.py:155): the client goes on.
ClientsSurviveNak == \A c \in Clients : state[c] # "dead"

\* "Parse the DHCP offer message and use the assigned IP address for DNS queries"
\* (client1.py:130): from its offer on, a client has an address the server gives away.
ClientsTakeTheOffer ==
    \A c \in Clients :
        state[c] \in {"REQUEST_SENT", "READY", "QUERY_SENT"} => assigned[c] \in Pool
===============================================================================
