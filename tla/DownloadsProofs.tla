---------------------------- MODULE DownloadsProofs ----------------------------
(***************************************************************************)
(* What Downloads promises for any number of clients, names, URLs and      *)
(* kills: types, that a completed download left the whole file, and that   *)
(* the TCP server never touches a file it has saved before.                *)
(***************************************************************************)
EXTENDS Downloads, TLAPS

\* A variable that holds one thing or none.
One(S) == {<<>>} \cup {<<x>> : x \in S}

LEMMA OneFacts ==
    ASSUME NEW S
    PROVE  /\ <<>> \in One(S)
           /\ \A x \in S : <<x>> \in One(S) /\ <<x>> # <<>> /\ <<x>>[1] = x
           /\ \A s \in One(S) : s # <<>> => s[1] \in S /\ s = <<s[1]>> /\ Len(s) = 1
  BY DEF One

LEMMA TwoServers ==
    /\ Protocols = {"TCP", "RUDP"}
    /\ \A s \in Protocols : Other(s) \in Protocols /\ Other(s) # s /\ \A t \in Protocols : t = s \/ t = Other(s)
  BY DEF Protocols, Other

\* A queue holds what is put into it.
LEMMA Queues ==
    ASSUME NEW S, NEW q \in Seq(S)
    PROVE  /\ \A x \in S : Append(q, x) \in Seq(S)
           /\ q # <<>> => Head(q) \in S /\ Tail(q) \in Seq(S)
  OBVIOUS

LEMMA QueuesKeep ==
    ASSUME NEW S, NEW q \in Seq(S), NEW T, \A i \in DOMAIN q : q[i] \in T
    PROVE  /\ \A x \in T : \A i \in DOMAIN Append(q, x) : Append(q, x)[i] \in T
           /\ q # <<>> => Head(q) \in T /\ \A i \in DOMAIN Tail(q) : Tail(q)[i] \in T
  OBVIOUS

---------------------------------------------------------------------------
Response == [says : Says, at : Paths \cup {<<>>}]

Types ==
    /\ running \in [Protocols -> BOOLEAN]
    /\ kills \in 0..MaxKills
    /\ pc \in [Protocols -> Places]
    /\ job \in [Protocols -> One(Clients)]
    /\ path \in [Protocols -> Paths \cup {<<>>}]
    /\ pos \in [Protocols -> Nat]
    /\ meddled \in [Protocols -> BOOLEAN]
    /\ answer \in [Protocols -> Response]
    /\ waiting \in [Protocols -> Seq(Clients)]
    /\ files \in [Paths -> File]
    /\ asked \in [Clients -> One(Requests)]
    /\ label \in [Clients -> Response]

\* The clients a server knows of have asked it.
Askers(s) == {c \in Clients : asked[c] # <<>> /\ asked[c][1].protocol = s}

Place(s) ==
    /\ running[s] <=> pc[s] # "off"
    /\ (job[s] # <<>>) <=> pc[s] \in {"check", "get", "write", "reply"}
    /\ job[s] # <<>> => job[s][1] \in Askers(s)
    /\ \A i \in DOMAIN waiting[s] : waiting[s][i] \in Askers(s)
    /\ pc[s] = "write" => path[s] \in Paths /\ pos[s] <= Request(s).url.chunks

\* Until it opens its file the TCP server relies on what it found at its check.
TcpChecked == pc["TCP"] = "get" => path["TCP"] \in Paths /\ files[path["TCP"]].by # "TCP"

\* While nobody meddles, the file holds what has been written, in its order.
Beginning(u, n) == [i \in 1..n |-> <<u, i>>]

Whole(s) ==
    /\ pc[s] = "write" /\ ~meddled[s] => files[path[s]].chunks = Beginning(Request(s).url, pos[s])
    /\ pc[s] = "reply" /\ answer[s].says = "complete" /\ ~meddled[s] =>
           /\ answer[s].at = path[s] /\ path[s] \in Paths
           /\ files[path[s]].chunks = Chunks(Request(s).url)

Inv == Types /\ TcpChecked /\ \A s \in Protocols : Place(s) /\ Whole(s)

LEMMA RequestFacts ==
    ASSUME Types, NEW s \in Protocols, Place(s), job[s] # <<>>
    PROVE  /\ job[s][1] \in Clients /\ asked[job[s][1]] # <<>>
           /\ Request(s) \in Requests /\ Request(s).url \in Sites /\ Request(s).name \in Names
           /\ Request(s).url.chunks \in Nat
           /\ Request(s).url.get \in ContentTypes /\ Request(s).url.head \in ContentTypes
  <1>1. job[s][1] \in Clients /\ asked[job[s][1]] # <<>> /\ Request(s).protocol = s
    BY OneFacts DEF Types, Place, Askers, Request
  <1>2. Request(s) \in Requests
    BY <1>1, OneFacts DEF Types, Request
  <1>3. Request(s).url \in Sites /\ Request(s).name \in Names
    BY <1>1, <1>2, DownloadsAssumption
  <1>4. Request(s).url \in Site
    BY <1>3, DownloadsAssumption
  <1> QED BY <1>1, <1>2, <1>3, <1>4 DEF Site

LEMMA InvImplies == Inv => TypeOK /\ CompleteMeansWhole
  <1> SUFFICES ASSUME Inv PROVE TypeOK /\ CompleteMeansWhole
    OBVIOUS
  <1>1. TypeOK
    BY OneFacts DEF Inv, Types, Place, TypeOK, Response
  <1>2. CompleteMeansWhole
    BY DEF Inv, Whole, CompleteMeansWhole
  <1> QED BY <1>1, <1>2

LEMMA InitInv == Init => Inv
  <1> SUFFICES ASSUME Init PROVE Inv
    OBVIOUS
  <1>1. Blank \in Response /\ Absent \in File
    BY DEF Blank, Answer, Response, Says, Absent, File
  <1>2. Types
    BY <1>1, OneFacts, DownloadsAssumption DEF Init, Types, Places
  <1>3. \A s \in Protocols : Place(s) /\ Whole(s)
    BY DEF Init, Place, Whole
  <1>4. TcpChecked
    BY DEF Init, TcpChecked, Protocols
  <1> QED BY <1>2, <1>3, <1>4 DEF Inv

---------------------------------------------------------------------------
\* A request that is being worked on stays what it is.
LEMMA AskedStays ==
    ASSUME Inv, NEW c \in Clients, asked[c] = <<>>, NEW r \in Requests, asked' = [asked EXCEPT ![c] = <<r>>]
    PROVE  /\ asked' \in [Clients -> One(Requests)]
           /\ \A s \in Protocols : \A d \in Askers(s) : d \in Askers(s)' /\ asked'[d] = asked[d]
  <1>1. asked' \in [Clients -> One(Requests)]
    BY OneFacts DEF Inv, Types
  <1>2. ASSUME NEW s \in Protocols, NEW d \in Askers(s)
        PROVE  d \in Askers(s)' /\ asked'[d] = asked[d]
    BY DEF Inv, Types, Askers
  <1> QED BY <1>1, <1>2

LEMMA ClientAsksInv ==
    ASSUME Inv, NEW c \in Clients, ClientAsks(c)
    PROVE  Inv'
  <1>1. PICK r \in Requests :
          /\ asked[c] = <<>> /\ asked' = [asked EXCEPT ![c] = <<r>>]
          /\ \/ (\E says \in {"invalid", "refused"} : Tell(c, says)) /\ UNCHANGED waiting
             \/ /\ r.protocol \in Protocols
                /\ waiting' = [waiting EXCEPT ![r.protocol] = Append(@, c)]
                /\ UNCHANGED label
    BY DEF ClientAsks
  <1>2. UNCHANGED <<running, kills, pc, job, path, pos, meddled, answer, files>>
    BY DEF ClientAsks, servers
  <1>3. /\ asked' \in [Clients -> One(Requests)]
        /\ \A s \in Protocols : \A d \in Askers(s) : d \in Askers(s)' /\ asked'[d] = asked[d]
    BY <1>1, AskedStays
  <1>4. label' \in [Clients -> Response]
    <2>1. \A says \in {"invalid", "refused"} : Answer(says, <<>>) \in Response
      BY DEF Answer, Response, Says
    <2>2. label \in [Clients -> Response]
      BY DEF Inv, Types
    <2> QED BY <1>1, <2>1, <2>2 DEF Tell
  <1>5. ASSUME NEW s \in Protocols
        PROVE  waiting'[s] \in Seq(Clients) /\ \A i \in DOMAIN waiting'[s] : waiting'[s][i] \in Askers(s)'
    <2>1. waiting[s] \in Seq(Clients) /\ \A i \in DOMAIN waiting[s] : waiting[s][i] \in Askers(s)'
      BY <1>3 DEF Inv, Types, Place
    <2>2. CASE waiting'[s] = waiting[s]
      BY <2>1, <2>2
    <2>3. CASE r.protocol = s /\ waiting'[s] = Append(waiting[s], c)
      <3>1. c \in Askers(s)'
        BY <1>1, <2>3 DEF Askers, Inv, Types
      <3> QED BY <2>1, <2>3, <3>1, Queues, QueuesKeep
    <2> QED BY <1>1, <2>2, <2>3 DEF Inv, Types
  <1>6. waiting' \in [Protocols -> Seq(Clients)]
    BY <1>1, <1>5 DEF Inv, Types
  <1>7. Types'
    BY <1>2, <1>3, <1>4, <1>6 DEF Inv, Types
  <1>8. ASSUME NEW s \in Protocols PROVE Place(s)' /\ Whole(s)'
    <2>1. job[s] # <<>> => job[s][1] \in Askers(s)' /\ Request(s)' = Request(s)
      BY <1>2, <1>3 DEF Inv, Place, Request
    <2>2. pc[s] \in {"check", "get", "write", "reply"} => Request(s)' = Request(s)
      BY <2>1 DEF Inv, Place
    <2>3. Place(s)'
      BY <1>2, <1>5, <2>1, <2>2 DEF Inv, Place
    <2>4. Whole(s)'
      BY <1>2, <2>2 DEF Inv, Whole
    <2> QED BY <2>3, <2>4
  <1>9. TcpChecked'
    BY <1>2 DEF Inv, TcpChecked
  <1> QED BY <1>7, <1>8, <1>9 DEF Inv

LEMMA ClientIsResetInv ==
    ASSUME Inv, NEW c \in Clients, ClientIsReset(c)
    PROVE  Inv'
  <1>1. /\ label' = [label EXCEPT ![c] = Answer("error", <<>>)]
        /\ UNCHANGED <<running, kills, pc, job, path, pos, meddled, answer, waiting, files, asked>>
    BY DEF ClientIsReset, Tell, servers
  <1>2. Types'
    BY <1>1 DEF Inv, Types, Answer, Response, Says
  <1> QED BY <1>1, <1>2 DEF Inv, Place, Askers, Whole, TcpChecked, Request

\* A server starts, ends by itself or is killed: what it had opened stays as it is.
LEMMA StopsInv ==
    ASSUME Inv, NEW s \in Protocols, ServerStarts(s) \/ Killed(s) \/ Ends(s)
    PROVE  Inv'
  <1>1. PICK runs \in BOOLEAN, place \in {"off", "idle"} :
          /\ runs <=> place # "off"
          /\ running' = [running EXCEPT ![s] = runs] /\ pc' = [pc EXCEPT ![s] = place]
    BY DEF ServerStarts, Killed, Ends, Goto
  <1>2. /\ job' = [job EXCEPT ![s] = <<>>]
        /\ waiting' = waiting \/ waiting' = [waiting EXCEPT ![s] = <<>>]
        /\ kills' \in 0..MaxKills
        /\ UNCHANGED <<path, pos, meddled, answer, files, asked, label>>
    <2>1. CASE ServerStarts(s)
      <3>1. job[s] = <<>>
        BY <2>1 DEF ServerStarts, Inv, Place
      <3> QED BY <2>1, <3>1 DEF ServerStarts, Inv, Types
    <2>2. CASE Killed(s)
      BY <2>2, DownloadsAssumption DEF Killed, Inv, Types
    <2>3. CASE Ends(s)
      BY <2>3 DEF Ends, Inv, Types
    <2> QED BY <2>1, <2>2, <2>3
  <1>3. Types'
    <2>1. waiting' \in [Protocols -> Seq(Clients)]
      <3>1. <<>> \in Seq(Clients) /\ waiting \in [Protocols -> Seq(Clients)]
        BY DEF Inv, Types
      <3> QED BY <1>2, <3>1
    <2>2. job' \in [Protocols -> One(Clients)]
      BY <1>2, OneFacts DEF Inv, Types
    <2>3. running' \in [Protocols -> BOOLEAN] /\ pc' \in [Protocols -> Places]
      BY <1>1 DEF Inv, Types, Places
    <2> QED BY <1>2, <2>1, <2>2, <2>3 DEF Inv, Types
  <1>4. ASSUME NEW t \in Protocols PROVE Place(t)' /\ Whole(t)'
    BY <1>1, <1>2 DEF Inv, Types, Place, Askers, Whole, Request
  <1>5. TcpChecked'
    BY <1>1, <1>2 DEF Inv, Types, TcpChecked, Protocols
  <1> QED BY <1>3, <1>4, <1>5 DEF Inv

LEMMA TakesInv ==
    ASSUME Inv, NEW s \in Protocols, Takes(s)
    PROVE  Inv'
  <1>1. /\ pc[s] = "idle" /\ pc' = [pc EXCEPT ![s] = "check"] /\ waiting[s] # <<>>
        /\ job' = [job EXCEPT ![s] = <<Head(waiting[s])>>] /\ waiting' = [waiting EXCEPT ![s] = Tail(@)]
        /\ UNCHANGED <<running, kills, path, pos, meddled, answer, files, asked, label>>
    BY DEF Takes, Goto
  <1>2. /\ Head(waiting[s]) \in Clients /\ Tail(waiting[s]) \in Seq(Clients)
        /\ Head(waiting[s]) \in Askers(s) /\ \A i \in DOMAIN Tail(waiting[s]) : Tail(waiting[s])[i] \in Askers(s)
    BY <1>1, Queues, QueuesKeep DEF Inv, Types, Place
  <1>3. Types'
    BY <1>1, <1>2, OneFacts DEF Inv, Types, Places
  <1>4. ASSUME NEW t \in Protocols PROVE Place(t)' /\ Whole(t)'
    <2>1. Askers(t)' = Askers(t)
      BY <1>1 DEF Askers
    <2>2. t # s => Request(t)' = Request(t)
      BY <1>1 DEF Request, Inv, Types
    <2>3. CASE t = s
      <3>1. job'[s] = <<Head(waiting[s])>> /\ waiting'[s] = Tail(waiting[s]) /\ pc'[s] = "check"
        BY <1>1 DEF Inv, Types
      <3> QED BY <1>1, <1>2, <2>1, <2>3, <3>1 DEF Inv, Types, Place, Whole
    <2>4. CASE t # s
      BY <1>1, <2>1, <2>2, <2>4 DEF Inv, Types, Place, Whole
    <2> QED BY <2>3, <2>4
  <1>5. TcpChecked'
    BY <1>1 DEF Inv, Types, TcpChecked, Protocols
  <1> QED BY <1>3, <1>4, <1>5 DEF Inv

\* A step that only decides how a request ends, or goes on.
LEMMA AnswersInv ==
    ASSUME Inv, NEW s \in Protocols, pc[s] \in {"check", "get"} \/ pc[s] = "write",
           NEW says \in Says, NEW p \in Paths \cup {<<>>}, Answers(s, says, p),
           says = "complete" => pc[s] = "write" /\ p = path[s] /\ pos[s] = Request(s).url.chunks
    PROVE  Inv'
  <1>1. /\ answer' = [answer EXCEPT ![s] = Answer(says, p)] /\ pc' = [pc EXCEPT ![s] = "reply"]
        /\ UNCHANGED <<running, kills, job, path, pos, meddled, waiting, files, asked, label>>
    BY DEF Answers, Goto
  <1>2. Answer(says, p) \in Response /\ Answer(says, p).says = says /\ Answer(says, p).at = p
    BY DEF Answer, Response
  <1>3. Types'
    BY <1>1, <1>2 DEF Inv, Types, Places
  <1>4. ASSUME NEW t \in Protocols PROVE Place(t)' /\ Whole(t)'
    <2>1. Askers(t)' = Askers(t) /\ Request(t)' = Request(t)
      BY <1>1 DEF Askers, Request
    <2>2. Place(t)'
      BY <1>1, <2>1 DEF Inv, Types, Place
    <2>3. CASE t = s
      <3>1. pc'[s] = "reply" /\ answer'[s].says = says /\ answer'[s].at = p
        BY <1>1, <1>2 DEF Inv, Types
      <3>2. says = "complete" /\ ~meddled[s] =>
                /\ p = path[s] /\ path[s] \in Paths
                /\ files[path[s]].chunks = Chunks(Request(s).url)
        BY DEF Inv, Place, Whole, Beginning, Chunks
      <3> HIDE DEF Inv
      <3> QED BY <1>1, <2>1, <2>2, <2>3, <3>1, <3>2 DEF Whole
    <2>4. CASE t # s
      <3>1. pc'[t] = pc[t] /\ answer'[t] = answer[t]
        BY <1>1, <2>4 DEF Inv, Types
      <3>2. Whole(t)
        BY DEF Inv
      <3> QED BY <1>1, <2>1, <2>2, <3>1, <3>2 DEF Whole
    <2> QED BY <2>2, <2>3, <2>4
  <1>5. TcpChecked'
    BY <1>1 DEF Inv, Types, TcpChecked, Protocols
  <1> QED BY <1>3, <1>4, <1>5 DEF Inv

LEMMA DownloadsInv ==
    ASSUME Inv, NEW s \in Protocols, pc[s] = "check", NEW p \in Paths \cup {<<>>}, Downloads(s, p),
           s = "TCP" => p \in Paths /\ ~Exists(p)
    PROVE  Inv'
  <1>1. /\ path' = [path EXCEPT ![s] = p] /\ pc' = [pc EXCEPT ![s] = "get"]
        /\ UNCHANGED <<running, kills, job, pos, meddled, answer, waiting, files, asked, label>>
    BY DEF Downloads, Goto
  <1>2. Types'
    BY <1>1 DEF Inv, Types, Places
  <1>3. ASSUME NEW t \in Protocols PROVE Place(t)' /\ Whole(t)'
    <2>1. Askers(t)' = Askers(t) /\ Request(t)' = Request(t)
      BY <1>1 DEF Askers, Request
    <2> QED BY <1>1, <2>1 DEF Inv, Types, Place, Whole
  <1>4. TcpChecked'
    <2>1. CASE s = "TCP"
      BY <1>1, <2>1 DEF Exists, Inv, Types, TcpChecked
    <2>2. CASE s # "TCP"
      BY <1>1, <2>2 DEF Inv, Types, TcpChecked, Protocols
    <2> QED BY <2>1, <2>2
  <1> QED BY <1>2, <1>3, <1>4 DEF Inv

\* The names of the servers' answers.
LEMMA PathFacts ==
    /\ \A n \in Names : n \in Paths
    /\ \A n \in Names, e \in Extensions : Append(n, e) \in Paths
  BY DEF Paths

LEMMA ChecksInv ==
    ASSUME Inv, NEW s \in Protocols, (s = "TCP" /\ TcpChecks) \/ (s = "RUDP" /\ RudpChecks)
    PROVE  Inv'
  <1>1. pc[s] = "check" /\ job[s] # <<>> /\ "error" \in Says /\ "exists" \in Says /\ "invalid" \in Says
    BY DEF TcpChecks, RudpChecks, Inv, Place, Says
  <1> DEFINE r == Request(s)
  <1>2. r.name \in Names
    BY <1>1, RequestFacts DEF Inv
  <1>3. ASSUME NEW says \in {"error", "exists", "invalid"}, NEW p \in Paths \cup {<<>>}, Answers(s, says, p)
        PROVE  Inv'
    BY <1>1, <1>3, AnswersInv
  <1>4. CASE s = "TCP" /\ TcpChecks
    <2> DEFINE p == Append(r.name, r.url.head)
    <2>1. r.url.head \in Extensions => p \in Paths
      BY <1>2, PathFacts
    <2>2. \/ Ends(s)
          \/ Answers(s, "error", <<>>)
          \/ r.url.head \in Extensions /\ Answers(s, "exists", p)
          \/ r.url.head \in Extensions /\ ~Exists(p) /\ Downloads(s, p)
      BY <1>4 DEF TcpChecks
    <2> HIDE DEF p, r
    <2> QED BY <1>1, <1>3, <2>1, <2>2, StopsInv, DownloadsInv
  <1>5. CASE s = "RUDP" /\ RudpChecks
    <2>1. r.name \in Paths
      BY <1>2, PathFacts
    <2>2. \/ Ends(s)
          \/ Answers(s, "invalid", <<>>)
          \/ Answers(s, "exists", r.name)
          \/ Downloads(s, <<>>)
      BY <1>5 DEF RudpChecks
    <2> HIDE DEF r
    <2> QED BY <1>1, <1>3, <1>5, <2>1, <2>2, StopsInv, DownloadsInv
  <1> QED BY <1>4, <1>5

\* A file is opened: it is empty, and whoever else writes it knows.
LEMMA OpensInv ==
    ASSUME Inv, NEW s \in Protocols, pc[s] = "get", NEW p \in Paths, Opens(s, p)
    PROVE  Inv'
  <1>1. /\ path' = [path EXCEPT ![s] = p] /\ pc' = [pc EXCEPT ![s] = "write"]
        /\ files' = [files EXCEPT ![p] = [by |-> s, chunks |-> <<>>]]
        /\ pos' = [pos EXCEPT ![s] = 0]
        /\ meddled' = [meddled EXCEPT ![s] = pc[Other(s)] = "write" /\ path[Other(s)] = p,
                                      ![Other(s)] = @ \/ path[Other(s)] = p]
        /\ UNCHANGED <<running, kills, job, answer, waiting, asked, label>>
    BY DEF Opens, Goto
  <1>2. job[s] # <<>> /\ Request(s).url.chunks \in Nat
    <2>1. job[s] # <<>>
      BY DEF Inv, Place
    <2> QED BY <2>1, RequestFacts DEF Inv
  <1>3. Types'
    <2>1. [by |-> s, chunks |-> <<>>] \in File
      BY DEF File
    <2>2. files' \in [Paths -> File]
      BY <1>1, <2>1 DEF Inv, Types
    <2>3. meddled' \in [Protocols -> BOOLEAN]
      BY <1>1, TwoServers DEF Inv, Types
    <2> QED BY <1>1, <2>2, <2>3 DEF Inv, Types, Places
  <1>4. ASSUME NEW t \in Protocols PROVE Place(t)'
    <2>1. Askers(t)' = Askers(t) /\ Request(t)' = Request(t)
      BY <1>1 DEF Askers, Request
    <2> QED BY <1>1, <1>2, <2>1 DEF Inv, Types, Place
  <1>5. Whole(s)'
    <2>1. pc'[s] = "write" /\ path'[s] = p /\ pos'[s] = 0 /\ files'[p].chunks = <<>>
      BY <1>1 DEF Inv, Types
    <2>2. \A u : Beginning(u, 0) = <<>>
      BY DEF Beginning
    <2> QED BY <2>1, <2>2 DEF Whole
  <1>6. ASSUME NEW t \in Protocols, t = Other(s) PROVE Whole(t)'
    <2>1. t # s /\ pc'[t] = pc[t] /\ path'[t] = path[t] /\ pos'[t] = pos[t] /\ answer'[t] = answer[t]
      BY <1>1, <1>6, TwoServers DEF Inv, Types
    <2>2. Request(t)' = Request(t)
      BY <1>1 DEF Request
    <2>3. ~meddled'[t] => ~meddled[t] /\ path[t] # p
      BY <1>1, <1>6, TwoServers DEF Inv, Types
    <2>4. \A x \in Paths : x # p => files'[x] = files[x]
      BY <1>1 DEF Inv, Types
    <2>5. Place(t) /\ Whole(t)
      BY DEF Inv
    <2> QED BY <2>1, <2>2, <2>3, <2>4, <2>5 DEF Place, Whole
  <1>7. TcpChecked'
    <2>1. CASE s = "TCP"
      BY <1>1, <2>1 DEF Inv, Types, TcpChecked
    <2>2. CASE s # "TCP"
      <3>1. \A x \in Paths : files'[x].by # "TCP" \/ files'[x] = files[x]
        BY <1>1, <2>2 DEF Inv, Types
      <3>2. pc'["TCP"] = pc["TCP"] /\ path'["TCP"] = path["TCP"]
        BY <1>1, <2>2 DEF Inv, Types, Protocols
      <3> QED BY <3>1, <3>2 DEF Inv, TcpChecked
    <2> QED BY <2>1, <2>2
  <1> QED BY <1>3, <1>4, <1>5, <1>6, <1>7, TwoServers DEF Inv

LEMMA GetInv ==
    ASSUME Inv, NEW s \in Protocols, Get(s)
    PROVE  Inv'
  <1>1. pc[s] = "get" /\ job[s] # <<>> /\ "error" \in Says
    BY DEF Get, Inv, Place, Says
  <1> DEFINE r == Request(s)
             unopenable == r.url.get # "none" /\ (r.name \in Unwritable \/ Target(s) \in Unstatable)
             raises == r.url.get # "raises" /\ (r.url.get = "none" \/ unopenable)
  <1>2. r.name \in Names /\ r.url.get \in ContentTypes
    BY <1>1, RequestFacts DEF Inv
  <1>3. \/ Answers(s, "error", <<>>)
        \/ Ends(s)
        \/ r.url.get # "raises" /\ ~raises /\ Opens(s, Target(s))
    BY DEF Get
  <1>4. r.url.get # "raises" /\ ~raises => Target(s) \in Paths
    <2>1. CASE s = "TCP"
      BY <1>1, <2>1 DEF Target, Inv, TcpChecked
    <2>2. CASE s # "TCP" /\ r.url.get = "unknown"
      BY <1>2, <2>2, PathFacts DEF Target
    <2>3. CASE s # "TCP" /\ r.url.get # "unknown" /\ r.url.get # "raises" /\ ~raises
      <3>1. r.url.get \in Extensions
        BY <1>2, <2>3 DEF ContentTypes
      <3> QED BY <1>2, <2>3, <3>1, PathFacts DEF Target
    <2> QED BY <2>1, <2>2, <2>3
  <1> HIDE DEF r, raises
  <1>5. CASE Answers(s, "error", <<>>)
    BY <1>1, <1>5, AnswersInv
  <1>6. CASE Ends(s)
    BY <1>6, StopsInv
  <1>7. CASE r.url.get # "raises" /\ ~raises /\ Opens(s, Target(s))
    BY <1>1, <1>4, <1>7, OpensInv
  <1> QED BY <1>3, <1>5, <1>6, <1>7

\* What write() makes of a file: n is the place of the chunk.
Written(old, u, n) ==
    [i \in 1..(IF Len(old) < n THEN n ELSE Len(old)) |->
        IF i = n THEN <<u, n>> ELSE IF i <= Len(old) THEN old[i] ELSE Hole]

LEMMA WrittenFacts ==
    ASSUME NEW old \in Seq(Chunk), NEW u \in Sites, NEW n \in Nat
    PROVE  /\ Written(old, u, n + 1) \in Seq(Chunk)
           /\ old = Beginning(u, n) => Written(old, u, n + 1) = Beginning(u, n + 1)
  <1> DEFINE len == IF Len(old) < n + 1 THEN n + 1 ELSE Len(old)
  <1>1. len \in Nat
    OBVIOUS
  <1>2. ASSUME NEW i \in 1..len
        PROVE  (IF i = n + 1 THEN <<u, n + 1>> ELSE IF i <= Len(old) THEN old[i] ELSE Hole) \in Chunk
    BY DEF Chunk
  <1>3. Written(old, u, n + 1) \in Seq(Chunk)
    BY <1>1, <1>2 DEF Written
  <1>4. ASSUME old = Beginning(u, n)
        PROVE  Written(old, u, n + 1) = Beginning(u, n + 1)
    <2>1. Len(old) = n /\ \A i \in 1..n : old[i] = <<u, i>>
      BY <1>4 DEF Beginning
    <2> QED BY <2>1 DEF Written, Beginning
  <1> QED BY <1>3, <1>4

LEMMA WritesInv ==
    ASSUME Inv, NEW s \in Protocols, Writes(s)
    PROVE  Inv'
  <1> DEFINE p == path[s]
             n == pos[s]
             u == Request(s).url
  <1>1. /\ pc[s] = "write" /\ n < u.chunks
        /\ files' = [files EXCEPT ![p].chunks = Written(files[p].chunks, u, n + 1)]
        /\ pos' = [pos EXCEPT ![s] = n + 1]
        /\ meddled' = [meddled EXCEPT ![Other(s)] = @ \/ path[Other(s)] = p]
        /\ UNCHANGED <<running, kills, pc, job, path, answer, waiting, asked, label>>
    BY DEF Writes, Written
  <1>2. job[s] # <<>> /\ p \in Paths /\ n \in Nat /\ u \in Sites /\ u.chunks \in Nat
    <2>1. job[s] # <<>> /\ p \in Paths /\ n \in Nat
      BY <1>1 DEF Inv, Types, Place
    <2> QED BY <2>1, RequestFacts DEF Inv
  <1>3. files[p].chunks \in Seq(Chunk) /\ files[p] \in File
    BY <1>2 DEF Inv, Types, File
  <1> DEFINE new == Written(files[p].chunks, u, n + 1)
  <1>4. new \in Seq(Chunk) /\ (files[p].chunks = Beginning(u, n) => new = Beginning(u, n + 1))
    BY <1>2, <1>3, WrittenFacts
  <1>5. files' = [files EXCEPT ![p].chunks = new]
    BY <1>1
  <1>6. \A t \in Protocols : Askers(t)' = Askers(t) /\ Request(t)' = Request(t)
    BY <1>1 DEF Askers, Request
  <1> HIDE DEF new
  <1>7. /\ files' \in [Paths -> File]
        /\ files'[p].chunks = new /\ \A x \in Paths : x # p => files'[x] = files[x]
        /\ \A x \in Paths : files'[x].by = files[x].by
    BY <1>2, <1>3, <1>4, <1>5 DEF Inv, Types, File
  <1>8. Types'
    <2>1. meddled' \in [Protocols -> BOOLEAN]
      BY <1>1, TwoServers DEF Inv, Types
    <2> QED BY <1>1, <1>2, <1>7, <2>1 DEF Inv, Types
  <1>9. ASSUME NEW t \in Protocols PROVE Place(t)'
    BY <1>1, <1>2, <1>6 DEF Inv, Types, Place
  <1>10. Whole(s)'
    <2>1. meddled'[s] = meddled[s] /\ pos'[s] = n + 1
      BY <1>1, TwoServers DEF Inv, Types
    <2>2. Request(s)' = Request(s)
      BY <1>6
    <2>3. ~meddled[s] => new = Beginning(u, n + 1)
      BY <1>1, <1>4 DEF Inv, Whole
    <2> QED BY <1>1, <1>7, <2>1, <2>2, <2>3 DEF Whole
  <1>11. ASSUME NEW t \in Protocols, t = Other(s) PROVE Whole(t)'
    <2>1. t # s /\ pos'[t] = pos[t] /\ Request(t)' = Request(t)
      BY <1>1, <1>6, <1>11, TwoServers DEF Inv, Types
    <2>2. ~meddled'[t] => ~meddled[t] /\ path[t] # p
      BY <1>1, <1>11, TwoServers DEF Inv, Types
    <2>3. Place(t) /\ Whole(t)
      BY DEF Inv
    <2> QED BY <1>1, <1>7, <2>1, <2>2, <2>3 DEF Place, Whole
  <1>12. TcpChecked'
    BY <1>1, <1>7 DEF Inv, TcpChecked
  <1> QED BY <1>8, <1>9, <1>10, <1>11, <1>12, TwoServers DEF Inv

LEMMA EndOfWriteInv ==
    ASSUME Inv, NEW s \in Protocols, Completes(s) \/ BreaksOff(s) \/ DiskFails(s)
    PROVE  Inv'
  <1>1. pc[s] = "write" /\ path[s] \in Paths /\ "complete" \in Says /\ "error" \in Says
    BY DEF Completes, BreaksOff, DiskFails, Inv, Place, Says
  <1>2. CASE Completes(s)
    BY <1>1, <1>2, AnswersInv DEF Completes
  <1>3. CASE BreaksOff(s)
    BY <1>1, <1>3, AnswersInv DEF BreaksOff
  <1>4. CASE DiskFails(s)
    BY <1>1, <1>4, AnswersInv, StopsInv DEF DiskFails
  <1> QED BY <1>2, <1>3, <1>4

LEMMA RepliesInv ==
    ASSUME Inv, NEW s \in Protocols, Replies(s)
    PROVE  Inv'
  <1>1. /\ pc[s] = "reply" /\ pc' = [pc EXCEPT ![s] = "idle"]
        /\ job' = [job EXCEPT ![s] = <<>>] /\ label' = [label EXCEPT ![job[s][1]] = answer[s]]
        /\ UNCHANGED <<running, kills, path, pos, meddled, answer, waiting, files, asked>>
    BY DEF Replies, Goto
  <1>2. Types'
    BY <1>1, OneFacts DEF Inv, Types, Places
  <1>3. ASSUME NEW t \in Protocols PROVE Place(t)' /\ Whole(t)'
    <2>1. Askers(t)' = Askers(t)
      BY <1>1 DEF Askers
    <2>2. t # s => Request(t)' = Request(t)
      BY <1>1 DEF Request, Inv, Types
    <2> QED BY <1>1, <2>1, <2>2 DEF Inv, Types, Place, Whole
  <1>4. TcpChecked'
    BY <1>1 DEF Inv, Types, TcpChecked, Protocols
  <1> QED BY <1>2, <1>3, <1>4 DEF Inv

LEMMA StutterInv ==
    ASSUME Inv, UNCHANGED vars
    PROVE  Inv'
  BY DEF vars, servers, Inv, Types, Place, Askers, Whole, TcpChecked, Request

LEMMA StepInv == Inv /\ [Next]_vars => Inv'
  <1> SUFFICES ASSUME Inv, [Next]_vars PROVE Inv'
    OBVIOUS
  <1>1. ASSUME NEW c \in Clients, ClientAsks(c) \/ ClientIsReset(c) PROVE Inv'
    BY <1>1, ClientAsksInv, ClientIsResetInv
  <1>2. ASSUME NEW s \in Protocols, ServerStarts(s) \/ ServerStep(s) \/ Killed(s) PROVE Inv'
    <2>1. CASE ServerStarts(s) \/ Killed(s)
      BY <2>1, StopsInv
    <2>2. CASE ServerStep(s)
      BY <2>2, TakesInv, ChecksInv, GetInv, WritesInv, EndOfWriteInv, RepliesInv DEF ServerStep
    <2> QED BY <1>2, <2>1, <2>2
  <1>3. CASE Rest \/ UNCHANGED vars
    BY <1>3, StutterInv DEF Rest
  <1> QED BY <1>1, <1>2, <1>3 DEF Next

\* Which step changes a file: one that opens it or writes into it.
KeepsFiles ==
    \A p \in Paths :
        files[p].by = "TCP" /\ files'[p].chunks # files[p].chunks =>
            \/ files'[p].by = "RUDP"
            \/ pc["TCP"] = "write" /\ path["TCP"] = p
            \/ pc["RUDP"] = "write" /\ path["RUDP"] = p

LEMMA StepKeepsFiles == Inv /\ [Next]_vars => KeepsFiles
  <1> SUFFICES ASSUME Inv, [Next]_vars PROVE KeepsFiles
    OBVIOUS
  <1>1. CASE UNCHANGED files
    BY <1>1 DEF KeepsFiles
  <1>2. ASSUME NEW s \in Protocols, Opens(s, Target(s)), pc[s] = "get"
        PROVE  KeepsFiles
    <2> DEFINE p == Target(s)
    <2>1. \A x \in Paths : files'[x] = files[x] \/ (x = p /\ files'[x].by = s)
      BY <1>2 DEF Opens, Inv, Types
    <2>2. s = "TCP" => p = path["TCP"] /\ files[path["TCP"]].by # "TCP"
      BY <1>2 DEF Target, Inv, TcpChecked
    <2> HIDE DEF p
    <2> QED BY <2>1, <2>2 DEF KeepsFiles, Protocols
  <1>3. ASSUME NEW s \in Protocols, Writes(s)
        PROVE  KeepsFiles
    <2>1. pc[s] = "write" /\ \A x \in Paths : x # path[s] => files'[x] = files[x]
      BY <1>3 DEF Writes, Inv, Types
    <2> QED BY <2>1 DEF KeepsFiles, Protocols
  <1>4. CASE \E c \in Clients : ClientAsks(c) \/ ClientIsReset(c)
    BY <1>1, <1>4 DEF ClientAsks, ClientIsReset
  <1>5. ASSUME NEW s \in Protocols, ServerStarts(s) \/ ServerStep(s) \/ Killed(s)
        PROVE  UNCHANGED files \/ Writes(s) \/ (Opens(s, Target(s)) /\ pc[s] = "get")
    <2>1. CASE ServerStarts(s) \/ Killed(s) \/ Takes(s) \/ Completes(s) \/ BreaksOff(s) \/ DiskFails(s) \/ Replies(s)
      BY <2>1 DEF ServerStarts, Killed, Takes, Completes, BreaksOff, DiskFails, Ends, Answers, Replies
    <2>2. CASE TcpChecks \/ RudpChecks
      BY <2>2 DEF TcpChecks, RudpChecks, Ends, Answers, Downloads
    <2>3. CASE Get(s)
      BY <2>3 DEF Get, Ends, Answers
    <2> QED BY <1>5, <2>1, <2>2, <2>3 DEF ServerStep
  <1>6. CASE Rest \/ UNCHANGED vars
    BY <1>1, <1>6 DEF Rest, vars
  <1> QED BY <1>1, <1>2, <1>3, <1>4, <1>5, <1>6 DEF Next

THEOREM Invariant == Spec => []Inv
  <1> QED BY InitInv, StepInv, PTL DEF Spec

\* The variables of clients and servers hold what the code can put there: a server that works has
\* a request, and a position within the file it writes.
THEOREM DownloadsTypeCorrect == Spec => []TypeOK
  <1> QED BY Invariant, InvImplies, PTL

\* "Download complete" is true when it is said, unless the other server had the same file open.
THEOREM CompletedIsWhole == Spec => []CompleteMeansWhole
  <1> QED BY Invariant, InvImplies, PTL

\* The TCP server empties or overwrites no file that it has saved itself.
THEOREM TcpKeeps == Spec => TcpKeepsItsFiles
  <1>1. Inv /\ [Next]_vars => [KeepsFiles]_vars
    BY StepKeepsFiles
  <1>2. Spec => [][KeepsFiles]_vars
    BY <1>1, Invariant, PTL DEF Spec
  <1> QED BY <1>2 DEF TcpKeepsItsFiles, KeepsFiles
================================================================================
