---------------------------- MODULE CalculatorProxy ----------------------------
(***************************************************************************)
(* Assignment-2: clients (client.py) that ask a caching proxy (proxy.py),  *)
(* which asks the calculator server (server.py).  Proxy and server run one *)
(* thread per connection; the proxy's threads share an unlocked dictionary.*)
(* An action is what one process does between two points where another one *)
(* can interfere: socket calls, readings of the clock, uses of the cache.  *)
(***************************************************************************)
EXTENDS CalculatorHeader, Sequences, FiniteSets

CONSTANTS
    Clients,     \* runs of client.py, each with its proxy and server threads
    Requests,    \* what they may ask: [of, steps, cache, cc]
    Policies,    \* CACHE_POLICY and CACHE_CONTROL of server.py: [cache, cc]
    CutSets,     \* lengths at which the network may cut a packet, sets to be tried
    MaxTime,     \* bound: seconds that pass
    MaxCrashes   \* bound: how often the server process is killed

ASSUME ProxyAssumption ==
    /\ Requests \subseteq [of : Exprs, steps : BOOLEAN, cache : BOOLEAN, cc : 0..MAX_CACHE_CONTROL]
    /\ Policies \subseteq [cache : BOOLEAN, cc : 0..MAX_CACHE_CONTROL]
    /\ \A cs \in CutSets : cs \subseteq {n \in Nat : n >= HEADER_MIN_LENGTH}
    /\ MaxTime \in Nat
    /\ MaxCrashes \in Nat

VARIABLES
    now,       \* time.time() in whole seconds
    policy,    \* the server's policy
    cuts,      \* where the network may cut a packet
    up,        \* the server process runs
    crashes,   \* how often it has been killed
    cache,     \* the proxy's dictionary
    cpc,       \* where each client is
    born,      \* when it sent its request
    answer,    \* the packet it received, in a sequence of at most one
    ppc,       \* where each thread of the proxy is
    request,   \* its variable request
    response,  \* its variable response
    spc,       \* where each thread of the server is
    served,    \* its variable request
    toProxy, toServer, fromServer, toClient   \* the packets under way

clientVars == <<cpc, born, answer>>
proxyVars  == <<cache, ppc, request, response>>
serverVars == <<up, crashes, spc, served>>
wires      == <<toProxy, toServer, fromServer, toClient>>
vars       == <<now, policy, cuts, clientVars, proxyVars, serverVars, wires>>

\* The dictionary's keys: (request.data, request.show_steps).
Keys == [data : Data, steps : BOOLEAN]

\* Mutants: the flag for steps is no part of the key; expressions of one length
\* collide.
KeyWithoutSteps(r) == [data |-> r.data, steps |-> FALSE]
KeyByLength(r) ==
    [data |-> [r.data EXCEPT !.of = CHOOSE e \in Exprs : TRUE], steps |-> r.steps]

Key(r) == [data |-> r.data, steps |-> r.steps]

ProxyStates  == {"off", "recv", "lookup", "judge", "connect", "wait", "weigh", "store", "reply",
                 "again", "closed"}
ServerStates == {"off", "recv", "compute"}
ClientStates == {"idle", "wait", "done", "failed"}

Init ==
    /\ now = 0
    /\ policy \in Policies
    /\ cuts \in CutSets
    /\ up = TRUE
    /\ crashes = 0
    /\ cache = <<>>
    /\ cpc = [c \in Clients |-> "idle"]
    /\ born = [c \in Clients |-> 0]
    /\ ppc = [c \in Clients |-> "off"]
    /\ spc = [c \in Clients |-> "off"]
    /\ answer = [c \in Clients |-> <<>>]
    /\ request = [c \in Clients |-> <<>>]
    /\ response = [c \in Clients |-> <<>>]
    /\ served = [c \in Clients |-> <<>>]
    /\ toProxy = [c \in Clients |-> <<>>]
    /\ toServer = [c \in Clients |-> <<>>]
    /\ fromServer = [c \in Clients |-> <<>>]
    /\ toClient = [c \in Clients |-> <<>>]

---------------------------------------------------------------------------
\* The two handlers do not read up to BUFFER_SIZE.
HANDLER_READ == 8192

Smaller(a, b) == IF a < b THEN a ELSE b

\* The lengths recv(limit) may return of a packet.
Lengths(h, limit) ==
    LET there == HEADER_MIN_LENGTH + h.data.len
    IN  {Smaller(there, limit)} \cup {n \in cuts : n <= Smaller(there, limit)}

Goto(pc, c, place) == pc' = [pc EXCEPT ![c] = place]

\* INDEFINITE stands for math.inf.
Fresh(cc, age) == cc = MAX_CACHE_CONTROL \/ cc - age > 0

\* ---- client.py

\* client(): connect, build the request and send it; the proxy accepts and
\* starts a thread.  An expression too long to be packed ends the client here.
ClientAsks(c) ==
    /\ cpc[c] = "idle"
    /\ \E r \in Requests :
        LET h == FromExpression(now, r.of, r.steps, r.cache, r.cc)
        IN  IF Constructible(h.data) /\ Packs(h)
            THEN /\ Goto(cpc, c, "wait")
                 /\ Goto(ppc, c, "recv")
                 /\ toProxy' = [toProxy EXCEPT ![c] = <<h>>]
            ELSE /\ Goto(cpc, c, "failed")
                 /\ UNCHANGED <<ppc, toProxy>>
    /\ born' = [born EXCEPT ![c] = now]
    /\ UNCHANGED <<now, policy, cuts, answer, cache, request, response, serverVars,
                   toServer, fromServer, toClient>>

\* recv() and process_response: a result that loads is printed, anything else
\* raises an exception.
ClientReceives(c) ==
    /\ cpc[c] = "wait"
    /\ toClient[c] # <<>>
    /\ \E n \in Lengths(toClient[c][1], BUFFER_SIZE) :
        LET h == Unpack(toClient[c][1], n)
        IN  /\ answer' = [answer EXCEPT ![c] = <<h>>]
            /\ Goto(cpc, c, IF h.status = STATUS_OK /\ Loads(h.data) THEN "done" ELSE "failed")
    /\ toClient' = [toClient EXCEPT ![c] = <<>>]
    /\ UNCHANGED <<now, policy, cuts, born, proxyVars, serverVars, toProxy, toServer, fromServer>>

\* The proxy closed the connection with bytes of the request unread: the reset
\* may overtake its answer.
ClientIsReset(c) ==
    /\ cpc[c] = "wait"
    /\ ppc[c] = "closed" /\ ~Loads(request[c][1].data)
    /\ Goto(cpc, c, "failed")
    /\ toClient' = [toClient EXCEPT ![c] = <<>>]
    /\ UNCHANGED <<now, policy, cuts, born, answer, proxyVars, serverVars, toProxy, toServer, fromServer>>

\* ---- proxy.py

\* Mutant: a buffer that is smaller than the packets.
ProxyReceivesLittle(c) ==
    /\ ppc[c] = "recv"
    /\ toProxy[c] # <<>>
    /\ \E n \in Lengths(toProxy[c][1], 256) :
        request' = [request EXCEPT ![c] = <<Unpack(toProxy[c][1], n)>>]
    /\ toProxy' = [toProxy EXCEPT ![c] = <<>>]
    /\ Goto(ppc, c, "lookup")
    /\ UNCHANGED <<now, policy, cuts, clientVars, cache, response, serverVars, toServer, fromServer, toClient>>

\* client_handler: recv() and unpack.
ProxyReceives(c) ==
    /\ ppc[c] = "recv"
    /\ toProxy[c] # <<>>
    /\ \E n \in Lengths(toProxy[c][1], HANDLER_READ) :
        request' = [request EXCEPT ![c] = <<Unpack(toProxy[c][1], n)>>]
    /\ toProxy' = [toProxy EXCEPT ![c] = <<>>]
    /\ Goto(ppc, c, "lookup")
    /\ UNCHANGED <<now, policy, cuts, clientVars, cache, response, serverVars, toServer, fromServer, toClient>>

\* process_request: the look-up, not for a cache control of 0.
LookUp(c) ==
    /\ ppc[c] = "lookup"
    /\ LET r == request[c][1]
       IN  IF Key(r) \in DOMAIN cache /\ r.cc # 0
           THEN /\ response' = [response EXCEPT ![c] = <<cache[Key(r)]>>]
                /\ Goto(ppc, c, "judge")
           ELSE /\ Goto(ppc, c, "connect")
                /\ UNCHANGED response
    /\ UNCHANGED <<now, policy, cuts, clientVars, cache, request, serverVars, wires>>

\* Mutant: the client's limit is not looked at.
FreshForServer(c) == Fresh(response[c][1].cc, now - response[c][1].stamp)

FreshForBoth(c) ==
    LET age == now - response[c][1].stamp
    IN  Fresh(response[c][1].cc, age) /\ Fresh(request[c][1].cc, age)

\* Mutant: a stale response is kept on as if it had been fetched.
JudgeKeepsStale(c) ==
    /\ ppc[c] = "judge"
    /\ Goto(ppc, c, IF FreshForBoth(c) THEN "reply" ELSE "store")
    /\ UNCHANGED <<now, policy, cuts, clientVars, cache, request, response, serverVars, wires>>

\* The clock is read after the look-up; a fresh response is returned, a stale
\* one asked for anew.
Judge(c) ==
    /\ ppc[c] = "judge"
    /\ Goto(ppc, c, IF FreshForBoth(c) THEN "reply" ELSE "connect")
    /\ UNCHANGED <<now, policy, cuts, clientVars, cache, request, response, serverVars, wires>>

\* The handler's except clause: an error that nobody may cache is sent, and the
\* thread goes back to recv().
InternalError(c) ==
    /\ toClient' = [toClient EXCEPT ![c] =
           <<FromError(now, request[c][1], STATUS_SERVER_ERROR, FALSE, 0)>>]
    /\ Goto(ppc, c, "again")

\* connect and sendall; the server accepts and starts a thread.
Forward(c) ==
    /\ ppc[c] = "connect"
    /\ up
    /\ toServer' = [toServer EXCEPT ![c] = <<request[c][1]>>]
    /\ Goto(spc, c, "recv")
    /\ Goto(ppc, c, "wait")
    /\ UNCHANGED <<now, policy, cuts, clientVars, cache, request, response, up, crashes, served,
                   toProxy, fromServer, toClient>>

\* Mutant: the connection is tried again for ever.
ForwardRetries(c) ==
    /\ ppc[c] = "connect"
    /\ ~up
    /\ UNCHANGED vars

\* ConnectionRefusedError.
ForwardFails(c) ==
    /\ ppc[c] = "connect"
    /\ ~up
    /\ InternalError(c)
    /\ UNCHANGED <<now, policy, cuts, clientVars, cache, request, response, serverVars,
                   toProxy, toServer, fromServer>>

\* The server's response arrives and is unpacked.
Fetch(c) ==
    /\ ppc[c] = "wait"
    /\ fromServer[c] # <<>>
    /\ \E n \in Lengths(fromServer[c][1], BUFFER_SIZE) :
        response' = [response EXCEPT ![c] = <<Unpack(fromServer[c][1], n)>>]
    /\ fromServer' = [fromServer EXCEPT ![c] = <<>>]
    /\ Goto(ppc, c, "weigh")
    /\ UNCHANGED <<now, policy, cuts, clientVars, cache, request, serverVars, toProxy, toServer, toClient>>

\* The server died, or closed the connection with bytes of the request unread:
\* recv() returns nothing or raises an exception.
FetchFails(c) ==
    /\ ppc[c] = "wait"
    /\ spc[c] = "off"
    /\ fromServer[c] # <<>> => served[c][1].data.len < request[c][1].data.len
    /\ fromServer' = [fromServer EXCEPT ![c] = <<>>]
    /\ InternalError(c)
    /\ UNCHANGED <<now, policy, cuts, clientVars, cache, request, response, serverVars,
                   toProxy, toServer>>

\* The clock is read; the response is cached if all sides agree.
Weigh(c) ==
    /\ ppc[c] = "weigh"
    /\ Goto(ppc, c, IF request[c][1].cache /\ response[c][1].cache /\ FreshForBoth(c)
                    THEN "store" ELSE "reply")
    /\ UNCHANGED <<now, policy, cuts, clientVars, cache, request, response, serverVars, wires>>

Store(c) ==
    /\ ppc[c] = "store"
    /\ LET k == Key(request[c][1])
       IN  cache' = [x \in DOMAIN cache \cup {k} |-> IF x = k THEN response[c][1] ELSE cache[x]]
    /\ Goto(ppc, c, "reply")
    /\ UNCHANGED <<now, policy, cuts, clientVars, request, response, serverVars, wires>>

\* The response is packed and sent as it is, and the connection closed.
Reply(c) ==
    /\ ppc[c] = "reply"
    /\ toClient' = [toClient EXCEPT ![c] = <<response[c][1]>>]
    /\ Goto(ppc, c, "closed")
    /\ UNCHANGED <<now, policy, cuts, clientVars, cache, request, response, serverVars,
                   toProxy, toServer, fromServer>>

\* The client has closed its end: recv() returns nothing and the thread ends.
ThreadEnds(c) ==
    /\ ppc[c] = "again"
    /\ cpc[c] \in {"done", "failed"}
    /\ Goto(ppc, c, "closed")
    /\ UNCHANGED <<now, policy, cuts, clientVars, cache, request, response, serverVars, wires>>

\* ---- server.py

\* client_handler: recv() and unpack.
ServerReceives(c) ==
    /\ spc[c] = "recv"
    /\ \E n \in Lengths(toServer[c][1], HANDLER_READ) :
        served' = [served EXCEPT ![c] = <<Unpack(toServer[c][1], n)>>]
    /\ toServer' = [toServer EXCEPT ![c] = <<>>]
    /\ Goto(spc, c, "compute")
    /\ UNCHANGED <<now, policy, cuts, clientVars, proxyVars, up, crashes, toProxy, fromServer, toClient>>

\* Mutant: the exception of an evaluation reaches the handler.
ProcessedOutsideTry(r) ==
    IF Loads(r.data) /\ r.data.of \notin Failing
    THEN FromResult(now, r, policy.cache, policy.cc)
    ELSE FromError(now, r, STATUS_SERVER_ERROR, policy.cache, policy.cc)

\* process_request: what does not load or does not evaluate is a client error.
Processed(r) ==
    IF Loads(r.data) /\ r.data.of \notin Failing
    THEN FromResult(now, r, policy.cache, policy.cc)
    ELSE FromError(now, r, STATUS_CLIENT_ERROR, policy.cache, policy.cc)

\* Mutant: the loop is not left after the answer.
ServerAnswersWithoutBreak(c) ==
    /\ spc[c] = "compute"
    /\ fromServer' = [fromServer EXCEPT ![c] = Append(@, Processed(served[c][1]))]
    /\ UNCHANGED <<now, policy, cuts, clientVars, proxyVars, serverVars, toProxy, toServer, toClient>>

\* The response is sent; one that is too long raises an exception, which the
\* handler sends as a server error under the same cache policy.
ServerAnswers(c) ==
    /\ spc[c] = "compute"
    /\ LET r == served[c][1]
           h == Processed(r)
       IN  fromServer' = [fromServer EXCEPT ![c] =
               <<IF Constructible(h.data) /\ Packs(h) THEN h
                 ELSE FromError(now, r, STATUS_SERVER_ERROR, policy.cache, policy.cc)>>]
    /\ Goto(spc, c, "off")
    /\ UNCHANGED <<now, policy, cuts, clientVars, proxyVars, up, crashes, served, toProxy, toServer, toClient>>

\* ---- the environment

\* The server process is killed, or had not been started; what its threads had not sent is lost.
ServerCrashes ==
    /\ up
    /\ crashes < MaxCrashes
    /\ crashes' = crashes + 1
    /\ up' = FALSE
    /\ spc' = [c \in Clients |-> "off"]
    /\ toServer' = [c \in Clients |-> <<>>]
    /\ UNCHANGED <<now, policy, cuts, clientVars, proxyVars, served, toProxy, fromServer, toClient>>

ServerStarts ==
    /\ ~up
    /\ up' = TRUE
    /\ UNCHANGED <<now, policy, cuts, clientVars, proxyVars, crashes, spc, served, wires>>

Tick ==
    /\ now < MaxTime
    /\ now' = now + 1
    /\ UNCHANGED <<policy, cuts, clientVars, proxyVars, serverVars, wires>>

\* All clients are served and all their threads are over.
Rest ==
    /\ \A c \in Clients : cpc[c] \in {"done", "failed"} /\ ppc[c] \in {"off", "closed"} /\ spc[c] = "off"
    /\ UNCHANGED vars

ClientStep(c) == ClientReceives(c) \/ ClientIsReset(c)
ProxyStep(c) ==
    \/ ProxyReceives(c) \/ LookUp(c) \/ Judge(c)
    \/ Forward(c) \/ ForwardFails(c) \/ Fetch(c) \/ FetchFails(c)
    \/ Weigh(c) \/ Store(c) \/ Reply(c) \/ ThreadEnds(c)
ServerStep(c) == ServerReceives(c) \/ ServerAnswers(c)

Next ==
    \/ \E c \in Clients : ClientAsks(c) \/ ClientStep(c) \/ ProxyStep(c) \/ ServerStep(c)
    \/ ServerCrashes \/ ServerStarts
    \/ Tick
    \/ Rest

\* Every thread is scheduled; nobody has to start a client or the server.
Fairness ==
    \A c \in Clients : WF_vars(ClientStep(c)) /\ WF_vars(ProxyStep(c)) /\ WF_vars(ServerStep(c))

Spec == Init /\ [][Next]_vars /\ Fairness

---------------------------------------------------------------------------
TypeOK ==
    /\ now \in 0..MaxTime
    /\ policy \in Policies
    /\ cuts \in CutSets
    /\ up \in BOOLEAN
    /\ crashes \in 0..MaxCrashes
    /\ DOMAIN cache \subseteq Keys
    /\ \A k \in DOMAIN cache : cache[k] \in Headers
    /\ cpc \in [Clients -> ClientStates]
    /\ born \in [Clients -> 0..MaxTime]
    /\ ppc \in [Clients -> ProxyStates]
    /\ spc \in [Clients -> ServerStates]
    /\ \A f \in {answer, request, response, served, toProxy, toServer, fromServer, toClient} :
           f \in [Clients -> Seq(Headers)] /\ \A c \in Clients : Len(f[c]) <= 1

\* A response answers the question: it is the server's for this expression and
\* this wish for steps.
Answers(h, r) == h.data.of = r.data.of /\ h.data.steps = r.steps

\* Whatever other clients ask at the same time, and whatever the cache holds, no
\* client obtains the answer to another one's question: another expression's, or
\* one with steps for one without (the key of the cache in proxy.py).
AnswersOwnQuestion ==
    \A c \in Clients : answer[c] # <<>> => Answers(answer[c][1], request[c][1])

\* How old an answer may be: made after the client asked, or then not yet as old
\* as the client accepts and as the server allows (cache control in api.py).
RecentEnough(h, c) ==
    \/ h.stamp >= born[c]
    \/ Fresh(request[c][1].cc, born[c] - h.stamp) /\ Fresh(h.cc, born[c] - h.stamp)

\* No client obtains an answer that was too old when it asked.  One that asked
\* with a max-age of 0 obtains an answer computed after that.
AnswersAreRecent ==
    \A c \in Clients :
        answer[c] # <<>> =>
            /\ RecentEnough(answer[c][1], c)
            /\ request[c][1].cc = 0 => answer[c][1].stamp >= born[c]

\* The status of the server's response about an expression.
Deserved(e, steps) ==
    CASE e \in Failing -> STATUS_CLIENT_ERROR
      [] e \notin Failing /\ TotalOf(Pickle("result", e, steps)) > 65535 -> STATUS_SERVER_ERROR
      [] OTHER -> STATUS_OK

\* While no packet is cut, what the cache holds serves every client that may ask
\* for it: it is kept under its own question, it loads, and it is what the server would
\* respond and let be cached.  A server error is kept only for an answer that can never
\* be packed, not for a failure of the moment (the proxy's own errors, say).
CacheServes ==
    \A k \in DOMAIN cache :
        LET h == cache[k]
        IN  /\ h.data.of = k.data.of /\ h.data.steps = k.steps /\ Loads(h.data)
            /\ ~h.isRequest /\ h.cache /\ policy.cache
            /\ h.status = Deserved(k.data.of, k.steps)

\* Threads race to fill the cache, and an entry may be replaced by an older one.
\* That happens only when the client of the late thread had asked before the
\* replaced entry was made, in an earlier second.
CacheAgesOnlyInRaces ==
    [][\A k \in DOMAIN cache :
           cache'[k].stamp < cache[k].stamp =>
               \E c \in Clients :
                   ppc[c] = "store" /\ ppc'[c] = "reply" /\ born[c] < cache[k].stamp]_vars

\* Every client that has asked ends, also when the server is down or dies.
EveryClientEnds == \A c \in Clients : cpc[c] = "wait" ~> cpc[c] \in {"done", "failed"}

\* Whether both handlers read the client's request whole and its answer can be packed.
FitsTheProtocol(c) ==
    /\ cuts = {}
    /\ toProxy[c] # <<>>
    /\ LET r == toProxy[c][1]
       IN  r.total <= HANDLER_READ /\ HEADER_MIN_LENGTH + ResultLen[r.data.of, r.steps] < 2 ^ 16

\* While the server runs, a question that fits the protocol is answered: with
\* its result or, if it has none, with the error its evaluation raised.
GoodQuestionsAreAnswered ==
    []up => \A c \in Clients :
        (cpc[c] = "wait" /\ FitsTheProtocol(c)) ~>
            \/ cpc[c] = "done"
            \/ cpc[c] = "failed" /\ answer[c] # <<>> /\ answer[c][1].status = STATUS_CLIENT_ERROR
               /\ answer[c][1].data.of \in Failing
================================================================================
