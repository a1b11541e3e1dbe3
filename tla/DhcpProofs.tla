------------------------------ MODULE DhcpProofs ------------------------------
(***************************************************************************)
(* What Dhcp promises for any number of clients, addresses and updates:    *)
(* types, that no client takes an offered address or one out of dns_cache, *)
(* and that a client which runs alone dies only of a refusal.              *)
(***************************************************************************)
EXTENDS Dhcp, FunctionTheorems, FiniteSetTheorems, TLAPS

\* The datagrams are what their parsers take them for.
LEMMA Messages ==
    /\ Discover \in Datagram /\ Request \in Datagram /\ Ack \in Datagram /\ Nak \in Datagram
    /\ \A ip \in Addresses : Offer(ip) \in Datagram /\ IsDhcpOffer(Offer(ip)) /\ Yiaddr(Offer(ip)) = 8
    /\ IsDhcpAck(Ack) /\ ~IsDhcpOffer(Ack) /\ Yiaddr(Ack) = 0
    /\ ~IsDhcpAck(Nak) /\ ~IsDhcpOffer(Nak) /\ Yiaddr(Nak) = 0
    /\ Discover.len = 252 /\ Discover.at242 = 1 /\ Discover.at12 = 0
    /\ Request.len = 262 /\ Request.at242 = 3 /\ Request.at12 = 0
  BY DEF Discover, Request, Ack, Nak, Offer, Message, Datagram, Addresses, IsDhcpOffer, IsDhcpAck, Yiaddr

LEMMA PoolIsAddresses == \A ip \in Pool : ip >= 9 /\ ip \in Addresses
  BY DhcpAssumption DEF Pool, Addresses

\* A queue holds what is put into it.
LEMMA Queues ==
    ASSUME NEW S, NEW s \in Seq(S)
    PROVE  /\ \A x \in S : Append(s, x) \in Seq(S)
           /\ s # <<>> => Head(s) \in S /\ Tail(s) \in Seq(S)
  OBVIOUS

LEMMA SubQueues ==
    ASSUME NEW S, NEW T, S \subseteq T, NEW s \in Seq(S)
    PROVE  s \in Seq(T)
  OBVIOUS

LEMMA Updated ==
    ASSUME NEW D, NEW S, NEW f \in [D -> S], NEW d \in D, NEW v \in S
    PROVE  [f EXCEPT ![d] = v] \in [D -> S]
  OBVIOUS

---------------------------------------------------------------------------
\* What lies in a client's buffer gives it no address but 0.0.0.0 and 8.8.8.8, and what lies
\* on its other socket is no answer out of dns_cache.
FromServer   == {m \in Datagram : Yiaddr(m) \in {0, 8}}
FromResolver == {r \in Reply : r.from = "resolver"}

Inv ==
    /\ TypeOK
    /\ inbox \in [Clients -> Seq(FromServer)]
    /\ replies \in [Clients -> Seq(FromResolver)]
    /\ \A c \in Clients : assigned[c] \in {0, 8}

LEMMA DeliverKeeps ==
    ASSUME Inv, NEW m \in FromServer, Deliver(m)
    PROVE  inbox' \in [Clients -> Seq(FromServer)]
  <1>1. ASSUME NEW c \in Running, inbox' = [inbox EXCEPT ![c] = Append(@, m)]
        PROVE  inbox' \in [Clients -> Seq(FromServer)]
    <2>1. c \in Clients /\ inbox[c] \in Seq(FromServer)
      BY DEF Running, Inv
    <2>2. Append(inbox[c], m) \in Seq(FromServer)
      BY <2>1, Queues
    <2> QED BY <1>1, <2>2 DEF Inv
  <1> QED BY <1>1 DEF Deliver, Inv

LEMMA ReceiveKeeps ==
    ASSUME Inv, NEW c \in Clients, Receive(c)
    PROVE  /\ Received(c) \in FromServer
           /\ inbox' \in [Clients -> Seq(FromServer)]
           /\ response' \in [Clients -> Datagram \cup {NoResponse}]
           /\ server_address' \in [Clients -> {"text", "pair"}]
  <1>1. Head(inbox[c]) \in FromServer /\ Tail(inbox[c]) \in Seq(FromServer)
    BY Queues DEF Inv, Receive
  <1> QED BY <1>1 DEF Inv, TypeOK, Receive, Received, FromServer

LEMMA InboxType ==
    ASSUME inbox' \in [Clients -> Seq(FromServer)]
    PROVE  inbox' \in [Clients -> Seq(Datagram)]
  <1>1. FromServer \subseteq Datagram
    BY DEF FromServer
  <1>2. \A c \in Clients : inbox'[c] \in Seq(Datagram)
    BY <1>1, SubQueues
  <1> QED BY <1>2

LEMMA RepliesType ==
    ASSUME replies' \in [Clients -> Seq(FromResolver)]
    PROVE  replies' \in [Askers -> Seq(Reply)]
  <1>1. FromResolver \subseteq Reply
    BY DEF FromResolver
  <1>2. \A c \in Clients : replies'[c] \in Seq(Reply)
    BY <1>1, SubQueues
  <1> QED BY <1>2, DhcpAssumption

LEMMA SendKeeps ==
    ASSUME Inv, NEW m \in Datagram, SendToServer(m)
    PROVE  toServer' \in Seq(Datagram)
  BY Queues DEF Inv, TypeOK, SendToServer

---------------------------------------------------------------------------
LEMMA InitInv == Init => Inv
  <1> SUFFICES ASSUME Init PROVE Inv
    OBVIOUS
  <1>1. NameTypeOK
    <2>1. DOMAIN dns_cache \subseteq {Text(name) : name \in Names}
      BY NameServerAssumption DEF Init, NameInit
    <2>2. listening \subseteq Threads /\ resolver \in Outcome
      BY DEF Init, NameInit
    <2>3. queries \in Seq([from : Askers, name : Names]) /\ updates \in Seq(Updates) /\ Len(updates) <= MaxUpdates
      BY NameServerAssumption DEF Init, NameInit
    <2>4. replies \in [Askers -> Seq(Reply)]
      BY DEF Init, NameInit
    <2> QED BY <2>1, <2>2, <2>3, <2>4 DEF NameTypeOK
  <1>2. state \in [Clients -> ClientStates] /\ assigned \in [Clients -> Addresses]
    BY DEF Init, ClientStates, Addresses
  <1>3. inbox \in [Clients -> Seq(Datagram)] /\ toServer \in Seq(Datagram)
    BY DEF Init
  <1>4. inbox \in [Clients -> Seq(FromServer)]
    BY DEF Init
  <1>5. replies \in [Clients -> Seq(FromResolver)]
    BY DhcpAssumption DEF Init, NameInit
  <1>6. /\ up \in BOOLEAN /\ answering \in HostSets
        /\ server_address \in [Clients -> {"text", "pair"}]
        /\ response \in [Clients -> Datagram \cup {NoResponse}]
        /\ \A c \in Clients : assigned[c] \in {0, 8}
    BY DEF Init
  <1> QED BY <1>1, <1>2, <1>3, <1>4, <1>5, <1>6 DEF Inv, TypeOK

\* The two servers.
LEMMA ServerInv ==
    ASSUME Inv, ServerAnswers
    PROVE  Inv'
  <1>1. inbox' \in [Clients -> Seq(FromServer)]
    <2>1. ASSUME NEW ip \in Pool, Deliver(Offer(ip))
          PROVE  inbox' \in [Clients -> Seq(FromServer)]
      <3>1. Offer(ip) \in FromServer
        BY Messages, PoolIsAddresses DEF FromServer
      <3> QED BY <3>1, <2>1, DeliverKeeps
    <2>2. Ack \in FromServer /\ Nak \in FromServer
      BY Messages DEF FromServer
    <2>3. CASE AnswerDiscover
      <3>1. CASE \A ip \in Pool : ~IsIpAvailable(ip)
        BY <2>3, <3>1 DEF AnswerDiscover, Inv
      <3>2. CASE ~ \A ip \in Pool : ~IsIpAvailable(ip)
        <4>1. PICK ip \in Pool : Deliver(Offer(ip))
          BY <2>3, <3>2 DEF AnswerDiscover
        <4> QED BY <4>1, <2>1
      <3> QED BY <3>1, <3>2
    <2>4. CASE AnswerRequest(Head(toServer))
      BY <2>2, <2>4, DeliverKeeps DEF AnswerRequest
    <2>5. CASE UNCHANGED inbox
      BY <2>5 DEF Inv
    <2> QED BY <2>3, <2>4, <2>5 DEF ServerAnswers
  <1>2. toServer' \in Seq(Datagram)
    BY Queues DEF ServerAnswers, Inv, TypeOK
  <1> QED BY <1>1, <1>2, InboxType DEF ServerAnswers, Inv, TypeOK, NameTypeOK, nameVars

LEMMA HandleQueryInv ==
    ASSUME Inv, HandleQuery, UNCHANGED dhcpVars
    PROVE  Inv'
  <1> DEFINE q == Head(queries)
  <1>1. q \in [from : Askers, name : Names] /\ Tail(queries) \in Seq([from : Askers, name : Names])
    BY Queues DEF HandleQuery, Inv, TypeOK, NameTypeOK
  <1>2. LookedUp(q.name) \notin DOMAIN dns_cache
    BY DEF Inv, TypeOK, NameTypeOK, Text, LookedUp
  <1>3. q.from \in Clients /\ replies[q.from] \in Seq(FromResolver)
    BY <1>1, DhcpAssumption DEF Inv
  <1>4. ASSUME NEW found \in BOOLEAN,
               replies' = [replies EXCEPT ![q.from] = Append(@, [from |-> "resolver", found |-> found])]
        PROVE  replies' \in [Clients -> Seq(FromResolver)]
    <2>1. [from |-> "resolver", found |-> found] \in FromResolver
      BY DEF FromResolver, Reply
    <2>2. Append(replies[q.from], [from |-> "resolver", found |-> found]) \in Seq(FromResolver)
      BY <1>3, <2>1, Queues
    <2> QED BY <1>4, <2>2 DEF Inv
  <1>5. replies' \in [Clients -> Seq(FromResolver)]
    BY <1>2, <1>4 DEF HandleQuery, Inv
  <1> QED BY <1>1, <1>5, RepliesType DEF HandleQuery, Inv, TypeOK, NameTypeOK, dhcpVars

LEMMA HandleUpdateInv ==
    ASSUME Inv, HandleUpdate, UNCHANGED dhcpVars
    PROVE  Inv'
  <1> DEFINE u == Head(updates)
  <1>1. u \in Updates /\ Tail(updates) \in Seq(Updates) /\ Len(Tail(updates)) <= MaxUpdates
    <2>1. updates \in Seq(Updates) /\ Len(updates) <= MaxUpdates /\ updates # <<>>
      BY DEF HandleUpdate, Inv, TypeOK, NameTypeOK
    <2>2. u \in Updates /\ Tail(updates) \in Seq(Updates)
      BY <2>1, Queues
    <2>3. Len(Tail(updates)) = Len(updates) - 1 /\ Len(updates) \in Nat
      BY <2>1
    <2> QED BY <2>1, <2>2, <2>3, NameServerAssumption
  <1>2. u.name \in Names
    BY <1>1, NameServerAssumption
  <1>3. DOMAIN dns_cache' \subseteq {Text(name) : name \in Names}
    BY <1>2 DEF HandleUpdate, Inv, TypeOK, NameTypeOK
  <1>4. listening' \subseteq Threads
    BY DEF HandleUpdate, Inv, TypeOK, NameTypeOK
  <1> QED BY <1>1, <1>3, <1>4 DEF HandleUpdate, Inv, TypeOK, NameTypeOK, dhcpVars

LEMMA DisturbedInv ==
    ASSUME Inv, NameServerDisturbed
    PROVE  Inv'
  <1>1. CASE NameServerStarts
    BY <1>1 DEF NameServerDisturbed, NameServerStarts, Inv, TypeOK, NameTypeOK, dhcpVars
  <1>2. CASE SendUpdate
    <2>1. PICK u \in Updates : updates' = IF "updates" \in listening THEN Append(updates, u) ELSE updates
      BY <1>2 DEF SendUpdate
    <2>2. updates' \in Seq(Updates) /\ Len(updates') <= MaxUpdates
      BY <1>2, <2>1, NameServerAssumption DEF SendUpdate, Inv, TypeOK, NameTypeOK
    <2> QED BY <1>2, <2>2 DEF NameServerDisturbed, SendUpdate, Inv, TypeOK, NameTypeOK, dhcpVars
  <1>3. CASE ResolverChanges
    BY <1>3 DEF NameServerDisturbed, ResolverChanges, Inv, TypeOK, NameTypeOK, dhcpVars
  <1> QED BY <1>1, <1>2, <1>3 DEF NameServerDisturbed

\* The clients.
LEMMA ClientInv ==
    ASSUME Inv, NEW c \in Clients, ClientStarts(c) \/ ClientStep(c)
    PROVE  Inv'
  <1>1. CASE ClientStarts(c)
    BY <1>1 DEF ClientStarts, Goto, Inv, TypeOK, NameTypeOK, nameVars, ClientStates
  <1>2. CASE ClientDiscovers(c)
    <2>1. toServer' \in Seq(Datagram)
      BY <1>2, SendKeeps, Messages DEF ClientDiscovers, Inv, TypeOK
    <2>2. inbox' \in [Clients -> Seq(FromServer)]
      <3>1. <<>> \in Seq(FromServer)
        OBVIOUS
      <3>2. inbox' = inbox \/ inbox' = [inbox EXCEPT ![c] = <<>>]
        BY <1>2 DEF ClientDiscovers
      <3> QED BY <3>1, <3>2, Updated DEF Inv
    <2>3. state' \in [Clients -> ClientStates]
      BY <1>2 DEF ClientDiscovers, Goto, Inv, TypeOK, ClientStates
    <2> QED BY <1>2, <2>1, <2>2, <2>3, InboxType DEF ClientDiscovers, Inv, TypeOK, NameTypeOK, nameVars
  <1>3. CASE ClientRequests(c)
    <2>1. toServer' \in Seq(Datagram)
      BY <1>3, SendKeeps, Messages DEF ClientRequests, Inv, TypeOK
    <2>2. Receive(c)
      BY <1>3 DEF ClientRequests
    <2>3. Yiaddr(Received(c)) \in {0, 8}
      BY <2>2, ReceiveKeeps DEF FromServer
    <2>4. assigned' \in [Clients -> Addresses] /\ \A d \in Clients : assigned'[d] \in {0, 8}
      <3>1. Yiaddr(Received(c)) \in Addresses
        BY <2>3 DEF Addresses
      <3>2. assigned' = assigned \/ assigned' = [assigned EXCEPT ![c] = Yiaddr(Received(c))]
        BY <1>3 DEF ClientRequests
      <3>3. assigned' \in [Clients -> Addresses]
        BY <3>1, <3>2, Updated DEF Inv, TypeOK
      <3>4. assigned \in [Clients -> {0, 8}]
        BY DEF Inv, TypeOK
      <3>5. assigned' \in [Clients -> {0, 8}]
        BY <3>2, <3>4, <2>3, Updated
      <3> QED BY <3>3, <3>5
    <2>5. state' \in [Clients -> ClientStates]
      BY <1>3 DEF ClientRequests, Goto, Inv, TypeOK, ClientStates
    <2> QED BY <1>3, <2>1, <2>2, <2>4, <2>5, ReceiveKeeps, InboxType
            DEF ClientRequests, Inv, TypeOK, NameTypeOK, nameVars
  <1>4. CASE ClientConfigures(c)
    <2>2. Receive(c)
      BY <1>4 DEF ClientConfigures
    <2>3. Yiaddr(Received(c)) \in {0, 8}
      BY <2>2, ReceiveKeeps DEF FromServer
    <2>4. assigned' \in [Clients -> Addresses] /\ \A d \in Clients : assigned'[d] \in {0, 8}
      <3>1. Yiaddr(Received(c)) \in Addresses
        BY <2>3 DEF Addresses
      <3>2. assigned' = assigned \/ assigned' = [assigned EXCEPT ![c] = Yiaddr(Received(c))]
        BY <1>4 DEF ClientConfigures
      <3>3. assigned' \in [Clients -> Addresses]
        BY <3>1, <3>2, Updated DEF Inv, TypeOK
      <3>4. assigned \in [Clients -> {0, 8}]
        BY DEF Inv, TypeOK
      <3>5. assigned' \in [Clients -> {0, 8}]
        BY <3>2, <3>4, <2>3, Updated
      <3> QED BY <3>3, <3>5
    <2>5. state' \in [Clients -> ClientStates]
      BY <1>4 DEF ClientConfigures, Goto, Inv, TypeOK, ClientStates
    <2> QED BY <1>4, <2>2, <2>4, <2>5, ReceiveKeeps, InboxType
            DEF ClientConfigures, Inv, TypeOK, NameTypeOK, nameVars
  <1>5. CASE ClientQueries(c)
    <2>1. [from |-> c, name |-> query] \in [from : Askers, name : Names]
      BY DhcpAssumption
    <2>2. queries' \in Seq([from : Askers, name : Names])
      BY <1>5, <2>1, Queues DEF ClientQueries, Inv, TypeOK, NameTypeOK
    <2> QED BY <1>5, <2>2 DEF ClientQueries, Goto, Inv, TypeOK, NameTypeOK, ClientStates
  <1>6. CASE ClientResolves(c)
    <2>1. Tail(replies[c]) \in Seq(FromResolver)
      BY <1>6, Queues DEF ClientResolves, Inv
    <2>2. replies' \in [Clients -> Seq(FromResolver)]
      BY <1>6, <2>1 DEF ClientResolves, Inv
    <2> QED BY <1>6, <2>2, RepliesType DEF ClientResolves, Goto, Inv, TypeOK, NameTypeOK, ClientStates
  <1> QED BY <1>1, <1>2, <1>3, <1>4, <1>5, <1>6 DEF ClientStep

LEMMA NextInv == Inv /\ [Next]_vars => Inv'
  <1> SUFFICES ASSUME Inv, [Next]_vars PROVE Inv'
    OBVIOUS
  <1>1. CASE \E c \in Clients : ClientStarts(c) \/ ClientStep(c)
    BY <1>1, ClientInv
  <1>2. CASE ServerStarts
    BY <1>2 DEF ServerStarts, Inv, TypeOK, NameTypeOK, nameVars
  <1>3. CASE ServerAnswers
    BY <1>3, ServerInv
  <1>4. CASE NameServerWorks
    BY <1>4, HandleQueryInv, HandleUpdateInv DEF NameServerWorks
  <1>5. CASE NameServerDisturbed
    BY <1>5, DisturbedInv
  <1>6. CASE HostsChange
    BY <1>6 DEF HostsChange, Inv, TypeOK, NameTypeOK, nameVars
  <1>7. CASE UNCHANGED vars
    BY <1>7 DEF vars, dhcpVars, nameVars, Inv, TypeOK, NameTypeOK
  <1> QED BY <1>1, <1>2, <1>3, <1>4, <1>5, <1>6, <1>7 DEF Next

\* Types, for every number of clients and every range of addresses.
THEOREM DhcpTypeCorrect == Spec => []TypeOK
  <1>1. Inv => TypeOK
    BY DEF Inv
  <1> QED BY <1>1, InitInv, NextInv, PTL DEF Spec

\* What dhcp_offer finds is not a matter of its bounds: no client ever has an address of the
\* server's range.  It reads its address where an offer has the name server's, asks for 0.0.0.0
\* and is acknowledged 0.0.0.0 (the offsets in parse_dhcp_offer, generate_dhcp_request and in
\* the server's loop).
OfferedAddressesStayUnused == \A c \in Clients : assigned[c] \notin Pool

\* Whatever offers and acknowledgements arrive, in whichever order, none of them gives a client
\* an address of the range (client1.py, against its comment at line 130).
THEOREM OfferedStayUnused == Spec => []OfferedAddressesStayUnused
  <1>1. Inv => OfferedAddressesStayUnused
    BY PoolIsAddresses DEF Inv, OfferedAddressesStayUnused
  <1> QED BY <1>1, InitInv, NextInv, PTL DEF Spec

\* No client receives an address out of dns_cache, whatever has been updated, though the code
\* checks "if the domain name is in the DNS cache" (DNS_Server.py:28): the look-up is by Name
\* object and the keys are texts.
OnlyTheResolverAnswers ==
    \A c \in Clients : \A i \in DOMAIN replies[c] : replies[c][i].from = "resolver"

\* Each reply that reaches an asker is the resolver's, with any first entries and updates of
\* dns_cache (handle_dns_query, against its comment at line 28).
THEOREM ResolverAnswers == Spec => []OnlyTheResolverAnswers
  <1>1. ASSUME Inv, NEW c \in Clients, NEW i \in DOMAIN replies[c]
        PROVE  replies[c][i].from = "resolver"
    <2>1. replies[c] \in Seq(FromResolver)
      BY <1>1 DEF Inv
    <2>2. replies[c][i] \in FromResolver
      BY <1>1, <2>1
    <2> QED BY <2>2 DEF FromResolver
  <1>2. Inv => OnlyTheResolverAnswers
    BY <1>1 DEF OnlyTheResolverAnswers
  <1> QED BY <1>2, InitInv, NextInv, PTL DEF Spec

---------------------------------------------------------------------------
\* What is under way while a client is the only one that has been started: at most the
\* datagram its state waits for, and it is back in INIT only after a refusal.
InStep(c) ==
    /\ state[c] \in {"off", "INIT"} => toServer = <<>> /\ inbox[c] = <<>>
    /\ state[c] = "off" => server_address[c] = "text"
    /\ state[c] = "INIT" => server_address[c] = "text" \/ response[c] = Nak
    /\ state[c] = "DISCOVER_SENT" =>
          \/ inbox[c] = <<>> /\ toServer \in {<<>>, <<Discover>>}
          \/ toServer = <<>> /\ \E m \in Datagram : IsDhcpOffer(m) /\ inbox[c] = <<m>>
    /\ state[c] = "REQUEST_SENT" =>
          \/ inbox[c] = <<>> /\ toServer \in {<<>>, <<Request>>}
          \/ toServer = <<>> /\ inbox[c] \in {<<Ack>>, <<Nak>>}
    /\ state[c] = "dead" => response[c] = Nak

LoneInv == \A c \in Clients : Alone(c) => InStep(c)

\* One datagram in a queue is the whole of it.
LEMMA OneInQueue ==
    ASSUME NEW S, NEW m \in S
    PROVE  /\ Append(<<>>, m) = <<m>> /\ <<m>> # <<>>
           /\ Head(<<m>>) = m /\ Tail(<<m>>) = <<>>
  OBVIOUS

\* A step of another client is the end of being alone, and being alone does not begin.
LEMMA AloneEnds ==
    ASSUME Inv, [Next]_vars, NEW c \in Clients, Alone(c)'
    PROVE  /\ Alone(c)
           /\ \A d \in Clients : ClientStarts(d) \/ ClientStep(d) => d = c
  <1>1. ASSUME NEW d \in Clients, ClientStarts(d) \/ ClientStep(d)
        PROVE  /\ state'[d] # "off"
               /\ \A e \in Clients : state'[e] = "off" => state[e] = "off"
    <2>1. state \in [Clients -> ClientStates]
      BY DEF Inv, TypeOK
    <2>2. ASSUME NEW s, s # "off", Goto(d, s)
          PROVE  /\ state'[d] # "off"
                 /\ \A e \in Clients : state'[e] = "off" => state[e] = "off"
      BY <2>1, <2>2 DEF Goto
    <2>3. CASE ClientStarts(d)
      BY <2>2, <2>3 DEF ClientStarts
    <2>4. CASE ClientDiscovers(d)
      BY <2>2, <2>4 DEF ClientDiscovers
    <2>5. CASE ClientRequests(d)
      BY <2>2, <2>5 DEF ClientRequests
    <2>6. CASE ClientConfigures(d)
      BY <2>2, <2>6 DEF ClientConfigures
    <2>7. CASE ClientQueries(d)
      BY <2>2, <2>7 DEF ClientQueries
    <2>8. CASE ClientResolves(d)
      BY <2>2, <2>8 DEF ClientResolves
    <2> QED BY <1>1, <2>3, <2>4, <2>5, <2>6, <2>7, <2>8 DEF ClientStep
  <1>2. CASE \E d \in Clients : ClientStarts(d) \/ ClientStep(d)
    BY <1>1, <1>2 DEF Alone
  <1>3. CASE UNCHANGED state
    <2>1. Alone(c)
      BY <1>3 DEF Alone
    <2> QED BY <1>1, <2>1 DEF Alone
  <1> QED BY <1>2, <1>3
          DEF Next, ServerStarts, ServerAnswers, NameServerWorks, NameServerDisturbed, HostsChange,
              dhcpVars, vars

\* What the server sends goes to the only client whose socket is open.
LEMMA DeliveredToIt ==
    ASSUME Inv, NEW c \in Clients, Alone(c), inbox[c] = <<>>, NEW m \in Datagram, Deliver(m),
           state[c] \in {"DISCOVER_SENT", "REQUEST_SENT"}
    PROVE  inbox'[c] = <<m>>
  <1>1. Running = {c}
    BY DEF Alone, Running
  <1>2. inbox' = [inbox EXCEPT ![c] = Append(@, m)]
    BY <1>1 DEF Deliver
  <1> QED BY <1>2, OneInQueue DEF Inv

LEMMA ServerInStep ==
    ASSUME Inv, NEW c \in Clients, Alone(c), InStep(c), ServerAnswers
    PROVE  InStep(c)'
  <1>1. toServer # <<>> /\ UNCHANGED <<state, response, server_address>>
    BY DEF ServerAnswers
  <1>2. CASE state[c] = "DISCOVER_SENT"
    <2>1. toServer = <<Discover>> /\ inbox[c] = <<>>
      BY <1>1, <1>2 DEF InStep
    <2>2. Head(toServer) = Discover /\ toServer' = <<>>
      BY <2>1, Messages, OneInQueue DEF ServerAnswers
    <2>3. AnswerDiscover
      BY <2>2, Messages DEF ServerAnswers
    <2>4. ASSUME NEW ip \in Pool, Deliver(Offer(ip))
          PROVE  inbox'[c] = <<Offer(ip)>> /\ Offer(ip) \in Datagram /\ IsDhcpOffer(Offer(ip))
      BY <1>2, <2>1, <2>4, PoolIsAddresses, Messages, DeliveredToIt
    <2>5. inbox'[c] = <<>> \/ \E m \in Datagram : IsDhcpOffer(m) /\ inbox'[c] = <<m>>
      <3>1. CASE \A ip \in Pool : ~IsIpAvailable(ip)
        BY <2>1, <2>3, <3>1 DEF AnswerDiscover
      <3>2. CASE ~ \A ip \in Pool : ~IsIpAvailable(ip)
        <4>1. PICK ip \in Pool : Deliver(Offer(ip))
          BY <2>3, <3>2 DEF AnswerDiscover
        <4> QED BY <4>1, <2>4
      <3> QED BY <3>1, <3>2
    <2> QED BY <1>1, <1>2, <2>2, <2>5 DEF InStep
  <1>3. CASE state[c] = "REQUEST_SENT"
    <2>1. toServer = <<Request>> /\ inbox[c] = <<>>
      BY <1>1, <1>3 DEF InStep
    <2>2. Head(toServer) = Request /\ toServer' = <<>>
      BY <2>1, Messages, OneInQueue DEF ServerAnswers
    <2>3. Deliver(Ack) \/ Deliver(Nak)
      BY <2>2, Messages DEF ServerAnswers, AnswerRequest
    <2>4. inbox'[c] \in {<<Ack>>, <<Nak>>}
      BY <1>3, <2>1, <2>3, Messages, DeliveredToIt
    <2> QED BY <1>1, <1>3, <2>2, <2>4 DEF InStep
  <1> QED BY <1>1, <1>2, <1>3 DEF InStep

LEMMA ClientInStep ==
    ASSUME Inv, NEW c \in Clients, InStep(c), ClientStarts(c) \/ ClientStep(c)
    PROVE  InStep(c)'
  <1>1. CASE ClientStarts(c)
    BY <1>1 DEF ClientStarts, Goto, Inv, TypeOK, InStep
  <1>2. CASE ClientDiscovers(c)
    <2>1. toServer = <<>> /\ inbox[c] = <<>> /\ response' = response
      BY <1>2 DEF InStep, ClientDiscovers
    <2>2. CASE server_address[c] = "text"
      <3>1. toServer' \in {<<>>, <<Discover>>}
        BY <1>2, <2>1, <2>2, Messages, OneInQueue DEF ClientDiscovers, SendToServer
      <3>2. inbox'[c] = <<>> /\ state'[c] = "DISCOVER_SENT"
        BY <1>2, <2>1, <2>2 DEF ClientDiscovers, Goto, Inv, TypeOK
      <3> QED BY <3>1, <3>2 DEF InStep
    <2>3. CASE server_address[c] # "text"
      <3>1. state'[c] = "dead"
        BY <1>2, <2>3 DEF ClientDiscovers, Goto, Inv, TypeOK
      <3>2. response[c] = Nak
        BY <1>2, <2>3 DEF InStep, ClientDiscovers
      <3> QED BY <2>1, <3>1, <3>2 DEF InStep
    <2> QED BY <2>2, <2>3
  <1>3. CASE ClientRequests(c)
    <2>1. PICK m \in Datagram : IsDhcpOffer(m) /\ inbox[c] = <<m>>
      BY <1>3 DEF InStep, ClientRequests, Receive
    <2>2. toServer = <<>> /\ Received(c) = m
      BY <1>3, <2>1, OneInQueue DEF InStep, ClientRequests, Receive, Received
    <2>3. inbox'[c] = <<>>
      BY <1>3, <2>1, OneInQueue DEF ClientRequests, Receive, Inv
    <2>4. toServer' \in {<<>>, <<Request>>}
      BY <1>3, <2>1, <2>2, Messages, OneInQueue DEF ClientRequests, SendToServer
    <2>5. state'[c] = "REQUEST_SENT"
      BY <1>3, <2>1, <2>2 DEF ClientRequests, Goto, Inv, TypeOK
    <2> QED BY <2>3, <2>4, <2>5 DEF InStep
  <1>4. CASE ClientConfigures(c)
    <2>1. toServer = <<>> /\ inbox[c] \in {<<Ack>>, <<Nak>>}
      BY <1>4 DEF InStep, ClientConfigures, Receive
    <2>2. Received(c) \in {Ack, Nak} /\ response'[c] = Received(c)
      BY <1>4, <2>1, Messages, OneInQueue DEF ClientConfigures, Receive, Received, Inv, TypeOK
    <2>3. inbox'[c] = <<>> /\ toServer' = <<>>
      BY <1>4, <2>1, Messages, OneInQueue DEF ClientConfigures, Receive, Inv
    <2>4. CASE IsDhcpAck(Received(c))
      <3>1. state'[c] = "READY"
        BY <1>4, <2>4 DEF ClientConfigures, Goto, Inv, TypeOK
      <3> QED BY <3>1 DEF InStep
    <2>5. CASE ~IsDhcpAck(Received(c))
      <3>1. state'[c] = "INIT" /\ response'[c] = Nak
        BY <1>4, <2>2, <2>5, Messages DEF ClientConfigures, Goto, Inv, TypeOK
      <3> QED BY <2>3, <3>1 DEF InStep
    <2> QED BY <2>4, <2>5
  <1>5. CASE ClientQueries(c)
    BY <1>5 DEF ClientQueries, Goto, Inv, TypeOK, InStep
  <1>6. CASE ClientResolves(c)
    BY <1>6 DEF ClientResolves, Goto, Inv, TypeOK, InStep
  <1> QED BY <1>1, <1>2, <1>3, <1>4, <1>5, <1>6 DEF ClientStep

LEMMA NextLoneInv == Inv /\ LoneInv /\ [Next]_vars => LoneInv'
  <1> SUFFICES ASSUME Inv, LoneInv, [Next]_vars, NEW c \in Clients, Alone(c)'
               PROVE  InStep(c)'
    BY DEF LoneInv
  <1>1. Alone(c) /\ InStep(c)
    BY AloneEnds DEF LoneInv
  <1>2. CASE \E d \in Clients : ClientStarts(d) \/ ClientStep(d)
    BY <1>1, <1>2, AloneEnds, ClientInStep
  <1>3. CASE ServerAnswers
    BY <1>1, <1>3, ServerInStep
  <1>4. CASE UNCHANGED <<toServer, state, inbox, server_address, response>>
    BY <1>1, <1>4 DEF InStep
  <1> QED BY <1>2, <1>3, <1>4
          DEF Next, ServerStarts, NameServerWorks, NameServerDisturbed, HostsChange, dhcpVars, vars

\* A client that is alone on its host dies only of a refusal, for every range of addresses
\* and whatever the probes meet: no datagram of an earlier exchange is left for a later one.
THEOREM LoneDiesOnlyOfNak == Spec => []LoneClientDiesOnlyOfNak
  <1>1. Init => LoneInv
    BY DEF Init, LoneInv, InStep
  <1>2. Inv /\ LoneInv => LoneClientDiesOnlyOfNak
    BY DEF LoneInv, LoneClientDiesOnlyOfNak, InStep
  <1> QED BY <1>1, <1>2, InitInv, NextInv, NextLoneInv, PTL DEF Spec

---------------------------------------------------------------------------
\* ---- second offers

\* Where an offer is under way or has been received too many: a discover in the server's
\* buffer, an offer in a client's, and a client that got one in INIT, where it will die.
Holds(kind, c, i) ==
    \/ kind = "pending" /\ c = 0 /\ i \in DOMAIN toServer /\ toServer[i].at242 = 1
    \/ kind = "offered" /\ c \in Clients /\ i \in DOMAIN inbox[c] /\ IsDhcpOffer(inbox[c][i])
    \/ /\ kind = "doomed" /\ c \in Clients /\ i = 0
       /\ state[c] \in {"INIT", "dead"} /\ server_address[c] = "pair" /\ IsDhcpOffer(response[c])

Tokens == {"pending", "offered", "doomed"} \X (Clients \cup {0}) \X Nat
Offers == {t \in Tokens : Holds(t[1], t[2], t[3])}

\* Every offer is one that a waiting client will miss, each for another one.
OfferInv ==
    /\ ExistsInjection(Offers, Waiting)
    /\ \A c \in Clients : /\ state[c] = "off" => server_address[c] = "text"
                          /\ state[c] = "dead" => server_address[c] = "pair"

LEMMA TokenFacts ==
    /\ \A t \in Tokens : t = <<t[1], t[2], t[3]>>
    /\ \A k, c, i : /\ <<k, c, i>>[1] = k /\ <<k, c, i>>[2] = c /\ <<k, c, i>>[3] = i
                    /\ <<k, c, i>> \in Tokens <=>
                           k \in {"pending", "offered", "doomed"} /\ c \in Clients \cup {0} /\ i \in Nat
    /\ \A s, t \in Tokens : s[1] = t[1] /\ s[2] = t[2] /\ s[3] = t[3] => s = t
  BY DEF Tokens

\* Injections between smaller and larger sets, and with one element more or less.
LEMMA InjectionBetween ==
    ASSUME NEW S, NEW T, NEW U, NEW V, S \subseteq T, U \subseteq V, ExistsInjection(T, U)
    PROVE  ExistsInjection(S, V)
  <1>1. PICK f : f \in Injection(T, U)
    BY Fun_ExistsInj
  <1>2. f \in [T -> U] /\ \A a, b \in T : f[a] = f[b] => a = b
    BY <1>1, Fun_InjectionProperties
  <1> DEFINE g == [x \in S |-> f[x]]
  <1>3. g \in [S -> V] /\ \A a, b \in S : g[a] = g[b] => a = b
    BY <1>2
  <1>4. g \in Injection(S, V)
    BY <1>3, Fun_IsInj
  <1> QED BY <1>4, Fun_ExistsInj

LEMMA InjectionMore ==
    ASSUME NEW S, NEW T, ExistsInjection(S, T), NEW x, NEW c, c \notin T
    PROVE  ExistsInjection(S \cup {x}, T \cup {c})
  <1>1. PICK f : f \in Injection(S, T)
    BY Fun_ExistsInj
  <1>2. f \in [S -> T] /\ \A a, b \in S : f[a] = f[b] => a = b
    BY <1>1, Fun_InjectionProperties
  <1>3. CASE x \in S
    BY <1>3, InjectionBetween
  <1>4. CASE x \notin S
    <2> DEFINE g == [y \in S \cup {x} |-> IF y = x THEN c ELSE f[y]]
    <2>1. g[x] = c /\ \A y \in S : g[y] = f[y] /\ g[y] \in T
      BY <1>2, <1>4
    <2>2. g \in [S \cup {x} -> T \cup {c}]
      BY <1>2
    <2> HIDE DEF g
    <2>3. \A a, b \in S \cup {x} : g[a] = g[b] => a = b
      BY <1>2, <2>1
    <2>4. g \in Injection(S \cup {x}, T \cup {c})
      BY <2>2, <2>3, Fun_IsInj
    <2> QED BY <2>4, Fun_ExistsInj
  <1> QED BY <1>3, <1>4

LEMMA InjectionLess ==
    ASSUME NEW S, NEW T, ExistsInjection(S, T), NEW x \in S, NEW c
    PROVE  ExistsInjection(S \ {x}, T \ {c})
  <1>1. PICK f : f \in Injection(S, T)
    BY Fun_ExistsInj
  <1>2. f \in [S -> T] /\ \A a, b \in S : f[a] = f[b] => a = b
    BY <1>1, Fun_InjectionProperties
  <1> DEFINE g == [y \in S \ {x} |-> IF f[y] = c THEN f[x] ELSE f[y]]
  <1>3. \A y \in S \ {x} : f[y] \in T /\ f[x] \in T /\ f[y] # f[x]
    BY <1>2
  <1>4. \A y \in S \ {x} : g[y] \in T \ {c}
    BY <1>3
  <1>5. \A a, b \in S \ {x} : g[a] = g[b] => a = b
    BY <1>2, <1>3
  <1>6. g \in [S \ {x} -> T \ {c}]
    BY <1>4
  <1> HIDE DEF g
  <1>7. g \in Injection(S \ {x}, T \ {c})
    BY <1>5, <1>6, Fun_IsInj
  <1> QED BY <1>7, Fun_ExistsInj

\* Steps that send, take and forget no datagram on the two ports.
LEMMA OffersKept ==
    ASSUME Inv, OfferInv, UNCHANGED <<toServer, inbox, server_address, response>>,
           \A c \in Clients : \/ state'[c] = state[c]
                              \/ state'[c] = "INIT" /\ server_address[c] = "text" /\ state[c] # "DISCOVER_SENT"
                              \/ {state[c], state'[c]} \subseteq {"READY", "QUERY_SENT"}
    PROVE  OfferInv'
  <1>1. Offers' \subseteq Offers
    BY DEF Offers, Holds
  <1>2. Waiting \subseteq Waiting'
    BY DEF Waiting
  <1>3. ExistsInjection(Offers', Waiting')
    BY <1>1, <1>2, InjectionBetween DEF OfferInv
  <1> QED BY <1>3 DEF OfferInv

\* The discover of a client is its own: one token more, and one waiting client.
LEMMA DiscoverOffers ==
    ASSUME Inv, OfferInv, NEW c \in Clients, ClientDiscovers(c)
    PROVE  OfferInv'
  <1>1. state[c] = "INIT" /\ UNCHANGED <<server_address, response>>
        /\ state \in [Clients -> ClientStates] /\ toServer \in Seq(Datagram)
    BY DEF ClientDiscovers, Inv, TypeOK
  <1>2. CASE server_address[c] = "text"
    <2>1. SendToServer(Discover) /\ state' = [state EXCEPT ![c] = "DISCOVER_SENT"] /\ UNCHANGED inbox
      BY <1>2 DEF ClientDiscovers, Goto
    <2> DEFINE new == <<"pending", 0, Len(toServer) + 1>>
    <2>2. Offers' \subseteq Offers \cup {new}
      <3>1. ASSUME NEW t \in Tokens, Holds(t[1], t[2], t[3])' PROVE t \in Offers \cup {new}
        <4>1. CASE t[1] = "pending"
          <5>1. t[2] = 0 /\ t[3] \in DOMAIN toServer' /\ toServer'[t[3]].at242 = 1
            BY <3>1, <4>1 DEF Holds
          <5>2. \/ t[3] \in DOMAIN toServer /\ toServer'[t[3]] = toServer[t[3]]
                \/ t[3] = Len(toServer) + 1
            BY <1>1, <2>1, <5>1 DEF SendToServer
          <5> QED BY <4>1, <5>1, <5>2, TokenFacts DEF Offers, Holds
        <4>2. CASE t[1] # "pending"
          BY <1>1, <2>1, <3>1, <4>2 DEF Offers, Holds
        <4> QED BY <4>1, <4>2
      <3> QED BY <3>1 DEF Offers
    <2> HIDE DEF new
    <2>3. Waiting' = Waiting \cup {c} /\ c \notin Waiting
      BY <1>1, <2>1 DEF Waiting
    <2>4. ExistsInjection(Offers \cup {new}, Waiting \cup {c})
      BY <2>3, InjectionMore DEF OfferInv
    <2>5. ExistsInjection(Offers', Waiting')
      BY <2>2, <2>3, <2>4, InjectionBetween
    <2> QED BY <1>1, <2>1, <2>5 DEF OfferInv
  <1>3. CASE server_address[c] # "text"
    <2>1. UNCHANGED toServer /\ state' = [state EXCEPT ![c] = "dead"] /\ inbox' = [inbox EXCEPT ![c] = <<>>]
      BY <1>3 DEF ClientDiscovers, Goto
    <2>2. server_address[c] = "pair"
      BY <1>3 DEF Inv, TypeOK
    <2>3. \A d \in Clients : inbox'[d] = <<>> \/ inbox'[d] = inbox[d]
      BY <2>1 DEF Inv, TypeOK
    <2>4. Offers' \subseteq Offers
      BY <1>1, <2>1, <2>3 DEF Offers, Holds
    <2>5. Waiting' = Waiting
      BY <1>1, <2>1 DEF Waiting
    <2>6. ExistsInjection(Offers', Waiting')
      BY <2>4, <2>5, InjectionBetween DEF OfferInv
    <2> QED BY <1>1, <2>1, <2>2, <2>6 DEF OfferInv
  <1> QED BY <1>2, <1>3

\* A client that receives: the first offer of its buffer is spent, or has become its doom.
LEMMA ReceiveOffers ==
    ASSUME Inv, NEW c \in Clients, Receive(c), state[c] \in {"DISCOVER_SENT", "REQUEST_SENT"},
           \A d \in Clients \ {c} : state'[d] = state[d],
           UNCHANGED toServer \/ SendToServer(Request)
    PROVE  \E g \in [Offers' -> Offers] :
               /\ \A a, b \in Offers' : g[a] = g[b] => a = b
               /\ state'[c] \notin {"INIT", "dead"} => \A a \in Offers' : g[a] # <<"offered", c, 1>>
  <1>1. /\ inbox[c] \in Seq(Datagram) /\ inbox[c] # <<>>
        /\ inbox \in [Clients -> Seq(Datagram)] /\ response \in [Clients -> Datagram \cup {NoResponse}]
        /\ server_address \in [Clients -> {"text", "pair"}] /\ toServer \in Seq(Datagram)
    BY DEF Receive, Inv, TypeOK
  <1>2. /\ inbox' = [inbox EXCEPT ![c] = Tail(@)]
        /\ response' = [response EXCEPT ![c] = Received(c)]
        /\ server_address' = [server_address EXCEPT ![c] = "pair"]
    BY DEF Receive
  <1>3. /\ Len(inbox'[c]) = Len(inbox[c]) - 1 /\ Len(inbox[c]) \in Nat \ {0}
        /\ \A i \in 1..(Len(inbox[c]) - 1) : inbox'[c][i] = inbox[c][i + 1]
        /\ Received(c) = inbox[c][1]
    BY <1>1, <1>2 DEF Received
  <1> DEFINE old(t) == CASE t[1] = "doomed" /\ t[2] = c  -> <<"offered", c, 1>>
                         [] t[1] = "offered" /\ t[2] = c -> <<"offered", c, t[3] + 1>>
                         [] OTHER -> t
  <1>4. ASSUME NEW t \in Offers'
        PROVE  /\ old(t) \in Offers
               /\ state'[c] \notin {"INIT", "dead"} => old(t) # <<"offered", c, 1>>
    <2>1. t \in Tokens /\ Holds(t[1], t[2], t[3])' /\ t = <<t[1], t[2], t[3]>>
      BY <1>4, TokenFacts DEF Offers
    <2>2. CASE t[1] = "doomed" /\ t[2] = c
      <3>1. state'[c] \in {"INIT", "dead"} /\ IsDhcpOffer(response'[c]) /\ response'[c] = Received(c)
        BY <1>1, <1>2, <2>1, <2>2 DEF Holds
      <3>2. Holds("offered", c, 1)
        BY <1>1, <1>3, <3>1 DEF Holds
      <3> QED BY <2>2, <3>1, <3>2, TokenFacts DEF Offers
    <2>3. CASE t[1] = "offered" /\ t[2] = c
      <3>1. t[3] \in 1..(Len(inbox[c]) - 1) /\ IsDhcpOffer(inbox[c][t[3] + 1])
        BY <1>1, <1>2, <1>3, <2>1, <2>3 DEF Holds
      <3>2. Holds("offered", c, t[3] + 1) /\ t[3] + 1 \in Nat /\ t[3] + 1 # 1
        BY <1>1, <1>3, <3>1 DEF Holds
      <3> QED BY <2>3, <3>2, TokenFacts DEF Offers
    <2>4. CASE ~(t[1] = "doomed" /\ t[2] = c) /\ ~(t[1] = "offered" /\ t[2] = c)
      <3>1. old(t) = t
        BY <2>4
      <3>2. Holds(t[1], t[2], t[3])
        <4>1. CASE t[1] = "pending"
          <5>1. t[3] \in DOMAIN toServer' /\ toServer'[t[3]].at242 = 1
            BY <2>1, <4>1 DEF Holds
          <5>2. t[3] \in DOMAIN toServer /\ toServer'[t[3]] = toServer[t[3]]
            <6>1. Request \in Datagram /\ Request.at242 # 1
              BY Messages
            <6>2. CASE UNCHANGED toServer
              BY <5>1, <6>2
            <6>3. CASE toServer' = Append(toServer, Request)
              <7>1. /\ Len(toServer') = Len(toServer) + 1
                    /\ toServer'[Len(toServer) + 1] = Request
                    /\ \A n \in 1..Len(toServer) : toServer'[n] = toServer[n]
                BY <1>1, <6>1, <6>3
              <7>2. t[3] \in 1..(Len(toServer) + 1) /\ t[3] # Len(toServer) + 1
                BY <1>1, <5>1, <6>1, <6>3, <7>1
              <7>3. DOMAIN toServer = 1..Len(toServer) /\ Len(toServer) \in Nat
                BY <1>1
              <7>4. t[3] \in 1..Len(toServer)
                BY <7>2, <7>3
              <7> QED BY <7>1, <7>3, <7>4
            <6> QED BY <6>2, <6>3 DEF SendToServer
          <5> QED BY <2>1, <4>1, <5>1, <5>2 DEF Holds
        <4>2. CASE t[1] # "pending"
          <5>1. t[2] # c \/ t[1] \notin {"doomed", "offered"}
            BY <2>4
          <5>2. \A d \in Clients \ {c} : /\ inbox'[d] = inbox[d] /\ response'[d] = response[d]
                                         /\ server_address'[d] = server_address[d]
            BY <1>1, <1>2
          <5> QED BY <2>1, <4>2, <5>1, <5>2 DEF Holds
        <4> QED BY <4>1, <4>2
      <3>3. t # <<"offered", c, 1>>
        BY <2>4, TokenFacts
      <3> QED BY <2>1, <3>1, <3>2, <3>3 DEF Offers
    <2> QED BY <2>2, <2>3, <2>4
  <1>5. ASSUME NEW a \in Offers', NEW b \in Offers', old(a) = old(b) PROVE a = b
    <2>1. a \in Tokens /\ b \in Tokens /\ Holds(a[1], a[2], a[3])' /\ Holds(b[1], b[2], b[3])'
      BY <1>5 DEF Offers
    <2>2. a = <<a[1], a[2], a[3]>> /\ b = <<b[1], b[2], b[3]>> /\ a[3] \in Nat /\ b[3] \in Nat
      BY <2>1, TokenFacts
    <2>3. a[1] = "offered" => a[3] >= 1
      BY <1>1, <1>2, <2>1 DEF Holds
    <2>4. b[1] = "offered" => b[3] >= 1
      BY <1>1, <1>2, <2>1 DEF Holds
    <2>5. a[1] = "doomed" => a[3] = 0
      BY <2>1 DEF Holds
    <2>6. b[1] = "doomed" => b[3] = 0
      BY <2>1 DEF Holds
    <2>7. \A k, i, l, j : <<k, c, i>> = <<l, c, j>> => k = l /\ i = j
      BY TokenFacts
    <2> QED BY <1>5, <2>2, <2>3, <2>4, <2>5, <2>6, <2>7, TokenFacts
  <1> DEFINE g == [t \in Offers' |-> old(t)]
  <1> HIDE DEF old
  <1>6. g \in [Offers' -> Offers]
    BY <1>4
  <1>7. \A a, b \in Offers' : g[a] = g[b] => a = b
    BY <1>5
  <1>8. state'[c] \notin {"INIT", "dead"} => \A a \in Offers' : g[a] # <<"offered", c, 1>>
    BY <1>4
  <1> QED BY <1>6, <1>7, <1>8

LEMMA RequestOffers ==
    ASSUME Inv, OfferInv, NEW c \in Clients, ClientRequests(c)
    PROVE  OfferInv'
  <1>1. /\ state[c] = "DISCOVER_SENT" /\ Receive(c) /\ state \in [Clients -> ClientStates]
        /\ server_address' = [server_address EXCEPT ![c] = "pair"]
        /\ server_address \in [Clients -> {"text", "pair"}]
    BY DEF ClientRequests, Receive, Inv, TypeOK
  <1>2. CASE IsDhcpOffer(Received(c))
    <2>1. SendToServer(Request) /\ state' = [state EXCEPT ![c] = "REQUEST_SENT"]
      BY <1>2 DEF ClientRequests, Goto
    <2>2. state'[c] = "REQUEST_SENT" /\ \A d \in Clients \ {c} : state'[d] = state[d]
      BY <1>1, <2>1
    <2>3. PICK g \in [Offers' -> Offers] :
              /\ \A a, b \in Offers' : g[a] = g[b] => a = b
              /\ \A a \in Offers' : g[a] # <<"offered", c, 1>>
      BY <1>1, <2>1, <2>2, ReceiveOffers
    <2> DEFINE spent == <<"offered", c, 1>>
    <2>4. spent \in Offers
      <3>1. inbox[c] \in Seq(Datagram) /\ inbox[c] # <<>> /\ Received(c) = inbox[c][1]
        BY <1>1 DEF Receive, Received, Inv, TypeOK
      <3>2. Holds("offered", c, 1)
        BY <1>2, <3>1 DEF Holds
      <3> QED BY <3>2, TokenFacts DEF Offers
    <2>5. g \in [Offers' -> Offers \ {spent}]
      BY <2>3
    <2> HIDE DEF spent
    <2>6. ExistsInjection(Offers', Offers \ {spent})
      <3>1. g \in Injection(Offers', Offers \ {spent})
        BY <2>3, <2>5, Fun_IsInj
      <3> QED BY <3>1, Fun_ExistsInj
    <2>7. ExistsInjection(Offers \ {spent}, Waiting \ {c})
      BY <2>4, InjectionLess DEF OfferInv
    <2>8. Waiting \ {c} \subseteq Waiting'
      BY <2>2 DEF Waiting
    <2>9. ExistsInjection(Offers', Waiting')
      <3>1. ExistsInjection(Offers', Waiting \ {c})
        BY <2>6, <2>7, Fun_ExistsInjTransitive
      <3> QED BY <2>8, <3>1, InjectionBetween
    <2> QED BY <1>1, <2>2, <2>9 DEF OfferInv
  <1>3. CASE ~IsDhcpOffer(Received(c))
    <2>1. UNCHANGED <<toServer, state>>
      BY <1>3 DEF ClientRequests
    <2>2. PICK g \in [Offers' -> Offers] : \A a, b \in Offers' : g[a] = g[b] => a = b
      BY <1>1, <2>1, ReceiveOffers
    <2>3. ExistsInjection(Offers', Offers)
      <3>1. g \in Injection(Offers', Offers)
        BY <2>2, Fun_IsInj
      <3> QED BY <3>1, Fun_ExistsInj
    <2>4. Waiting' = Waiting
      BY <2>1 DEF Waiting
    <2>5. ExistsInjection(Offers', Waiting')
      BY <2>3, <2>4, Fun_ExistsInjTransitive DEF OfferInv
    <2> QED BY <1>1, <2>1, <2>5 DEF OfferInv
  <1> QED BY <1>2, <1>3

LEMMA ConfigureOffers ==
    ASSUME Inv, OfferInv, NEW c \in Clients, ClientConfigures(c)
    PROVE  OfferInv'
  <1>1. /\ state[c] = "REQUEST_SENT" /\ Receive(c) /\ state \in [Clients -> ClientStates]
        /\ server_address' = [server_address EXCEPT ![c] = "pair"]
        /\ server_address \in [Clients -> {"text", "pair"}]
        /\ UNCHANGED toServer
    BY DEF ClientConfigures, Receive, Inv, TypeOK
  <1>2. state'[c] \in {"READY", "INIT"} /\ \A d \in Clients \ {c} : state'[d] = state[d]
    BY <1>1 DEF ClientConfigures, Goto
  <1>3. PICK g \in [Offers' -> Offers] : \A a, b \in Offers' : g[a] = g[b] => a = b
    BY <1>1, <1>2, ReceiveOffers
  <1>4. ExistsInjection(Offers', Offers)
    <2>1. g \in Injection(Offers', Offers)
      BY <1>3, Fun_IsInj
    <2> QED BY <2>1, Fun_ExistsInj
  <1>5. Waiting' = Waiting
    BY <1>1, <1>2 DEF Waiting
  <1>6. ExistsInjection(Offers', Waiting')
    BY <1>4, <1>5, Fun_ExistsInjTransitive DEF OfferInv
  <1> QED BY <1>1, <1>2, <1>6 DEF OfferInv

\* What the server sends goes to one client or is lost; an offer answers a discover.
LEMMA ServerSends ==
    ASSUME Inv, ServerAnswers
    PROVE  \/ UNCHANGED inbox
           \/ \E d \in Clients, m \in Datagram :
                  /\ inbox' = [inbox EXCEPT ![d] = Append(@, m)]
                  /\ IsDhcpOffer(m) => Head(toServer).at242 = 1
  <1>1. ASSUME NEW m \in Datagram, Deliver(m), IsDhcpOffer(m) => Head(toServer).at242 = 1
        PROVE  \/ UNCHANGED inbox
               \/ \E d \in Clients :
                      /\ inbox' = [inbox EXCEPT ![d] = Append(@, m)]
                      /\ IsDhcpOffer(m) => Head(toServer).at242 = 1
    BY <1>1 DEF Deliver, Running
  <1>2. CASE Head(toServer).at242 = 1 /\ AnswerDiscover
    <2>1. CASE \A ip \in Pool : ~IsIpAvailable(ip)
      BY <1>2, <2>1 DEF AnswerDiscover
    <2>2. CASE ~ \A ip \in Pool : ~IsIpAvailable(ip)
      <3>1. PICK ip \in Pool : Deliver(Offer(ip))
        BY <1>2, <2>2 DEF AnswerDiscover
      <3>2. Offer(ip) \in Datagram
        BY PoolIsAddresses, Messages
      <3> QED BY <1>1, <1>2, <3>1, <3>2
    <2> QED BY <2>1, <2>2
  <1>3. CASE AnswerRequest(Head(toServer))
    <2>1. Deliver(Ack) \/ Deliver(Nak)
      BY <1>3 DEF AnswerRequest
    <2> QED BY <1>1, <2>1, Messages
  <1> QED BY <1>2, <1>3 DEF ServerAnswers

\* So at most one place holds an offer that was not there.
LEMMA ServerAddsOne ==
    ASSUME Inv, ServerAnswers
    PROVE  \E d, n :
               /\ \A c \in Clients : \A i \in DOMAIN inbox'[c] :
                      (c = d /\ i = n) \/ (i \in DOMAIN inbox[c] /\ inbox'[c][i] = inbox[c][i])
               /\ d \in Clients /\ n \in DOMAIN inbox'[d] /\ IsDhcpOffer(inbox'[d][n])
                      => Head(toServer).at242 = 1
  <1>1. inbox \in [Clients -> Seq(Datagram)]
    BY DEF Inv, TypeOK
  <1>2. CASE UNCHANGED inbox
    <2>1. \A c \in Clients : 0 \notin DOMAIN inbox[c]
      BY <1>1
    <2> QED BY <1>2, <2>1
  <1>3. ASSUME NEW d \in Clients, NEW m \in Datagram, inbox' = [inbox EXCEPT ![d] = Append(@, m)],
               IsDhcpOffer(m) => Head(toServer).at242 = 1
        PROVE  \E n :
                   /\ \A c \in Clients : \A i \in DOMAIN inbox'[c] :
                          (c = d /\ i = n) \/ (i \in DOMAIN inbox[c] /\ inbox'[c][i] = inbox[c][i])
                   /\ n \in DOMAIN inbox'[d] /\ IsDhcpOffer(inbox'[d][n]) => Head(toServer).at242 = 1
    <2> DEFINE n == Len(inbox[d]) + 1
    <2>1. \A c \in Clients \ {d} : inbox'[c] = inbox[c]
      BY <1>1, <1>3
    <2>2. /\ inbox'[d][n] = m
          /\ \A i \in DOMAIN inbox'[d] : i = n \/ (i \in DOMAIN inbox[d] /\ inbox'[d][i] = inbox[d][i])
      BY <1>1, <1>3
    <2> HIDE DEF n
    <2> QED BY <1>3, <2>1, <2>2
  <1> QED BY <1>2, <1>3, ServerSends

\* The server turns a discover into one offer at most, whoever obtains it.
LEMMA ServerOffers ==
    ASSUME Inv, OfferInv, ServerAnswers
    PROVE  OfferInv'
  <1>1. /\ toServer \in Seq(Datagram) /\ toServer # <<>> /\ toServer' = Tail(toServer)
        /\ UNCHANGED <<state, server_address, response>>
    BY DEF ServerAnswers, Inv, TypeOK
  <1>2. /\ Len(toServer) \in Nat \ {0} /\ DOMAIN toServer' = 1..(Len(toServer) - 1)
        /\ DOMAIN toServer = 1..Len(toServer)
        /\ \A i \in 1..(Len(toServer) - 1) : toServer'[i] = toServer[i + 1]
        /\ Head(toServer) = toServer[1]
    BY <1>1
  <1>3. PICK d, n :
            /\ \A c \in Clients : \A i \in DOMAIN inbox'[c] :
                   (c = d /\ i = n) \/ (i \in DOMAIN inbox[c] /\ inbox'[c][i] = inbox[c][i])
            /\ d \in Clients /\ n \in DOMAIN inbox'[d] /\ IsDhcpOffer(inbox'[d][n])
                   => Head(toServer).at242 = 1
    BY ServerAddsOne
  <1> DEFINE new(t) == t[1] = "offered" /\ t[2] = d /\ t[3] = n
             old(t) == CASE new(t) -> <<"pending", 0, 1>>
                         [] t[1] = "pending" -> <<"pending", 0, t[3] + 1>>
                         [] OTHER -> t
  <1>4. ASSUME NEW t \in Offers'
        PROVE  old(t) \in Offers
    <2>1. t \in Tokens /\ Holds(t[1], t[2], t[3])'
      BY <1>4 DEF Offers
    <2>2. CASE new(t)
      <3>1. toServer[1].at242 = 1
        BY <1>2, <1>3, <2>1, <2>2 DEF Holds
      <3>2. Holds("pending", 0, 1)
        BY <1>2, <3>1 DEF Holds
      <3> QED BY <2>2, <3>2, TokenFacts DEF Offers
    <2>3. CASE t[1] = "pending"
      <3>1. t[3] \in 1..(Len(toServer) - 1) /\ toServer[t[3] + 1].at242 = 1
        BY <1>2, <2>1, <2>3 DEF Holds
      <3>2. Holds("pending", 0, t[3] + 1) /\ t[3] + 1 \in Nat
        BY <1>2, <3>1 DEF Holds
      <3> QED BY <2>3, <3>2, TokenFacts DEF Offers
    <2>4. CASE t[1] # "pending" /\ ~new(t)
      <3>1. Holds(t[1], t[2], t[3])
        BY <1>1, <1>3, <2>1, <2>4 DEF Holds
      <3> QED BY <2>1, <2>4, <3>1 DEF Offers
    <2> QED BY <2>2, <2>3, <2>4
  <1>5. ASSUME NEW a \in Offers', NEW b \in Offers', old(a) = old(b) PROVE a = b
    <2>1. a \in Tokens /\ b \in Tokens /\ Holds(a[1], a[2], a[3])' /\ Holds(b[1], b[2], b[3])'
      BY <1>5 DEF Offers
    <2>2. a = <<a[1], a[2], a[3]>> /\ b = <<b[1], b[2], b[3]>> /\ a[3] \in Nat /\ b[3] \in Nat
      BY <2>1, TokenFacts
    <2>3. a[1] = "pending" => a[2] = 0 /\ a[3] >= 1
      BY <1>2, <2>1 DEF Holds
    <2>4. b[1] = "pending" => b[2] = 0 /\ b[3] >= 1
      BY <1>2, <2>1 DEF Holds
    <2>5. \A k, i, l, j : <<k, 0, i>> = <<l, 0, j>> => k = l /\ i = j
      BY TokenFacts
    <2>6. new(a) /\ new(b) => a = b
      BY <2>2
    <2>7. old(a)[1] = "pending" => new(a) \/ a[1] = "pending"
      OBVIOUS
    <2>8. old(b)[1] = "pending" => new(b) \/ b[1] = "pending"
      OBVIOUS
    <2>9. CASE new(a) \/ a[1] = "pending"
      <3>1. old(a)[1] = "pending"
        BY <2>9, TokenFacts
      <3>2. new(b) \/ b[1] = "pending"
        BY <1>5, <2>8, <3>1
      <3>3. new(a) => old(a)[3] = 1
        BY TokenFacts
      <3>4. new(b) => old(b)[3] = 1
        BY TokenFacts
      <3>5. ~new(a) => old(a)[3] = a[3] + 1
        BY <2>9, TokenFacts
      <3>6. ~new(b) => old(b)[3] = b[3] + 1
        BY <3>2, TokenFacts
      <3> HIDE DEF old, new
      <3>7. new(a) <=> new(b)
        BY <1>5, <2>2, <2>3, <2>4, <2>9, <3>2, <3>3, <3>4, <3>5, <3>6
      <3> QED BY <1>5, <2>2, <2>3, <2>4, <2>6, <2>9, <3>2, <3>5, <3>6, <3>7
    <2>10. CASE ~(new(a) \/ a[1] = "pending")
      <3>1. old(a) = a
        BY <2>10
      <3>2. ~(new(b) \/ b[1] = "pending")
        BY <1>5, <2>10, <3>1, TokenFacts
      <3>3. old(b) = b
        BY <3>2
      <3> QED BY <1>5, <3>1, <3>3
    <2> QED BY <2>9, <2>10
  <1> DEFINE g == [t \in Offers' |-> old(t)]
  <1> HIDE DEF old, new
  <1>6. g \in [Offers' -> Offers] /\ \A a, b \in Offers' : g[a] = g[b] => a = b
    BY <1>4, <1>5
  <1>7. ExistsInjection(Offers', Offers)
    <2>1. g \in Injection(Offers', Offers)
      BY <1>6, Fun_IsInj
    <2> QED BY <2>1, Fun_ExistsInj
  <1>8. Waiting' = Waiting
    BY <1>1 DEF Waiting
  <1>9. ExistsInjection(Offers', Waiting')
    BY <1>7, <1>8, Fun_ExistsInjTransitive DEF OfferInv
  <1> QED BY <1>1, <1>9 DEF OfferInv

LEMMA NextOfferInv == Inv /\ OfferInv /\ [Next]_vars => OfferInv'
  <1> SUFFICES ASSUME Inv, OfferInv, [Next]_vars PROVE OfferInv'
    OBVIOUS
  <1>1. ASSUME NEW c \in Clients, ClientStarts(c) \/ ClientQueries(c) \/ ClientResolves(c) PROVE OfferInv'
    <2>1. UNCHANGED <<toServer, inbox, server_address, response>>
      BY <1>1 DEF ClientStarts, ClientQueries, ClientResolves
    <2>2. \A d \in Clients : \/ state'[d] = state[d]
                             \/ state'[d] = "INIT" /\ server_address[d] = "text" /\ state[d] # "DISCOVER_SENT"
                             \/ {state[d], state'[d]} \subseteq {"READY", "QUERY_SENT"}
      BY <1>1 DEF ClientStarts, ClientQueries, ClientResolves, Goto, Inv, TypeOK, OfferInv
    <2> QED BY <2>1, <2>2, OffersKept
  <1>2. CASE UNCHANGED <<toServer, state, inbox, server_address, response>>
    BY <1>2, OffersKept
  <1>3. ASSUME NEW c \in Clients, ClientStarts(c) \/ ClientStep(c) PROVE OfferInv'
    BY <1>1, <1>3, DiscoverOffers, RequestOffers, ConfigureOffers DEF ClientStep
  <1> QED BY <1>2, <1>3, ServerOffers
          DEF Next, ServerStarts, NameServerWorks, NameServerDisturbed, HostsChange, dhcpVars, vars

\* However many clients share port 68 and in whatever order they receive: one that dies of a second
\* offer has taken that of another one, which has sent its discover and waits (the return to INIT in
\* client1.py, and the server's loop, which answers each discover once).
THEOREM SecondOffersAreOthers == Spec => []SecondOffersWereOthers
  <1>1. Init => OfferInv
    <2> SUFFICES ASSUME Init PROVE OfferInv
      OBVIOUS
    <2>1. Offers = {}
      BY DEF Init, Offers, Holds
    <2>2. ExistsInjection(Offers, Waiting)
      <3>1. ExistsInjection(Waiting, Waiting)
        BY Fun_ExistsInjReflexive
      <3> QED BY <2>1, <3>1, InjectionBetween
    <2> QED BY <2>2 DEF Init, OfferInv
  <1>2. Inv /\ OfferInv => SecondOffersWereOthers
    <2> SUFFICES ASSUME Inv, OfferInv PROVE Cardinality(Dead) <= Cardinality(Waiting)
      BY DEF SecondOffersWereOthers
    <2> DEFINE g == [c \in Dead |-> <<"doomed", c, 0>>]
    <2>1. ASSUME NEW c \in Dead PROVE <<"doomed", c, 0>> \in Offers
      <3>1. Holds("doomed", c, 0)
        BY <2>1 DEF Dead, Holds, OfferInv
      <3>2. c \in Clients
        BY <2>1 DEF Dead
      <3> QED BY <3>1, <3>2, TokenFacts DEF Offers
    <2>2. g \in [Dead -> Offers] /\ \A a, b \in Dead : g[a] = g[b] => a = b
      BY <2>1, TokenFacts
    <2>3. ExistsInjection(Dead, Offers)
      <3>1. g \in Injection(Dead, Offers)
        BY <2>2, Fun_IsInj
      <3> QED BY <3>1, Fun_ExistsInj
    <2>4. ExistsInjection(Dead, Waiting)
      BY <2>3, Fun_ExistsInjTransitive DEF OfferInv
    <2>5. IsFiniteSet(Waiting)
      BY DhcpAssumption, FS_Subset DEF Waiting
    <2>6. PICK f : f \in Injection(Dead, Waiting)
      BY <2>4, Fun_ExistsInj
    <2> QED BY <2>5, <2>6, FS_Injection
  <1> QED BY <1>1, <1>2, InitInv, NextInv, NextOfferInv, PTL DEF Spec
===============================================================================
