------------------------------- MODULE Downloads -------------------------------
(***************************************************************************)
(* Final Project/Code: Client.py asks TCPserver.py or RUDPserver.py to     *)
(* download an URL into a file.  Both servers serve one request after the  *)
(* other, and main.py starts both in one directory.  A path is a sequence  *)
(* of the name a user typed and the extension a server appended.           *)
(***************************************************************************)
EXTENDS Integers, Sequences

CONSTANTS
    Clients,     \* runs of connect() of Client.py
    Sites,       \* what the URLs lead to
    Names,       \* the names users type
    Extensions,  \* those of mimetypes
    Unwritable,  \* names under which no file can be opened
    Unstatable,  \* paths about which stat() raises an error: too long, or in a closed directory
    Silent,      \* sites that may stop answering without closing the connection
    Requests,    \* what users ask for: [protocol, url, name]
    MaxKills     \* bound: how often a server is killed

\* An URL: whether it has a scheme and a host, what HEAD and GET tell of its type, its number
\* of chunks, and into how many parts the servers split a request for it: none if the 1024
\* bytes they read end within a character, which cannot be decoded.
ContentTypes == Extensions \cup {"raises", "none", "unknown"}
Site == [valid : BOOLEAN, head : ContentTypes, get : ContentTypes, chunks : Nat, parts : Nat]
Protocols == {"TCP", "RUDP"}

ASSUME DownloadsAssumption ==
    /\ Sites \subseteq Site
    /\ \A u \in Sites : u.valid \/ u.head = "raises"
    /\ Extensions \cap {"raises", "none", "unknown"} = {}
    /\ \A r \in Requests : r.protocol \in Protocols => r.url \in Sites /\ r.name \in Names
    /\ Silent \subseteq Sites
    /\ MaxKills \in Nat

VARIABLES
    running,    \* whether each server runs
    kills,      \* how often one has been killed
    pc,         \* where each server is
    job,        \* whose request it works on, in a sequence of at most one
    path,       \* its filename
    pos,        \* its position in the open file
    meddled,    \* history: the other server has opened or written that file meanwhile
    answer,     \* its response
    waiting,    \* the connections, or datagrams, it has not taken yet
    files,      \* the directory
    asked,      \* the request of each client, in a sequence of at most one
    label       \* the client's response_label: [says, at]

servers == <<running, kills, pc, job, path, pos, meddled, answer>>
vars == <<servers, waiting, files, asked, label>>

Paths  == Names \cup {Append(n, e) : n \in Names, e \in Extensions}
Hole   == <<>>
Chunks(u) == [i \in 1..u.chunks |-> <<u, i>>]
Chunk  == {Hole} \cup (Sites \X Nat)
File   == [by : Protocols \cup {"nobody"}, chunks : Seq(Chunk)]
Absent == [by |-> "nobody", chunks |-> <<>>]
Other(s) == IF s = "TCP" THEN "RUDP" ELSE "TCP"

Exists(p) == files[p].by # "nobody"

Says   == {"", "complete", "exists", "error", "refused", "invalid"}
Answer(says, p) == [says |-> says, at |-> p]
Blank  == Answer("", <<>>)
Places == {"off", "idle", "check", "get", "write", "reply"}

Init ==
    /\ running = [s \in Protocols |-> FALSE]
    /\ kills = 0
    /\ pc = [s \in Protocols |-> "off"]
    /\ job = [s \in Protocols |-> <<>>]
    /\ path = [s \in Protocols |-> <<>>]
    /\ pos = [s \in Protocols |-> 0]
    /\ meddled = [s \in Protocols |-> FALSE]
    /\ answer = [s \in Protocols |-> Blank]
    /\ waiting = [s \in Protocols |-> <<>>]
    /\ files = [p \in Paths |-> Absent]
    /\ asked = [c \in Clients |-> <<>>]
    /\ label = [c \in Clients |-> Blank]

---------------------------------------------------------------------------
\* ---- Client.py

Ended(c) == label[c] # Blank
Tell(c, says) == label' = [label EXCEPT ![c] = Answer(says, <<>>)]

\* connect(): the inputs are checked; TCP's connect() and the first datagram to a port that is
\* closed both end in an exception; otherwise the request is sent.
ClientAsks(c) ==
    /\ asked[c] = <<>>
    /\ \E r \in Requests :
        /\ asked' = [asked EXCEPT ![c] = <<r>>]
        /\ \/ r.protocol \notin Protocols /\ Tell(c, "invalid") /\ UNCHANGED waiting
           \/ r.protocol \in Protocols /\ ~running[r.protocol] /\ Tell(c, "refused") /\ UNCHANGED waiting
           \/ /\ r.protocol \in Protocols /\ running[r.protocol]
              /\ waiting' = [waiting EXCEPT ![r.protocol] = Append(@, c)]
              /\ UNCHANGED label
    /\ UNCHANGED <<servers, files>>

\* The server a client is connected to has ended: its connection is reset.
ClientIsReset(c) ==
    /\ asked[c] # <<>> /\ ~Ended(c)
    /\ asked[c][1].protocol = "TCP"
    /\ job["TCP"] # <<c>> /\ \A i \in DOMAIN waiting["TCP"] : waiting["TCP"][i] # c
    /\ Tell(c, "error")
    /\ UNCHANGED <<servers, waiting, files, asked>>

---------------------------------------------------------------------------
\* ---- the servers

Request(s) == asked[job[s][1]][1]
Goto(s, place) == pc' = [pc EXCEPT ![s] = place]

\* main.py, activate_http.
ServerStarts(s) ==
    /\ pc[s] = "off"
    /\ running' = [running EXCEPT ![s] = TRUE]
    /\ Goto(s, "idle")
    /\ UNCHANGED <<kills, job, path, pos, meddled, answer, waiting, files, asked, label>>

\* An exception nobody catches, or a signal: what was sent to the process is gone.
Ends(s) ==
    /\ running' = [running EXCEPT ![s] = FALSE]
    /\ Goto(s, "off")
    /\ job' = [job EXCEPT ![s] = <<>>]
    /\ waiting' = [waiting EXCEPT ![s] = <<>>]
    /\ UNCHANGED <<kills, path, pos, meddled, answer, files, asked, label>>

\* A response is ready.
Answers(s, says, p) ==
    /\ answer' = [answer EXCEPT ![s] = Answer(says, p)]
    /\ Goto(s, "reply")
    /\ UNCHANGED <<running, kills, job, path, pos, meddled, waiting, files, asked, label>>

\* A request goes on, to the download into p.
Downloads(s, p) ==
    /\ path' = [path EXCEPT ![s] = p]
    /\ Goto(s, "get")
    /\ UNCHANGED <<running, kills, job, pos, meddled, answer, waiting, files, asked, label>>

\* accept() and recv(), or recvfrom().
Takes(s) ==
    /\ pc[s] = "idle"
    /\ waiting[s] # <<>>
    /\ job' = [job EXCEPT ![s] = <<Head(waiting[s])>>]
    /\ waiting' = [waiting EXCEPT ![s] = Tail(@)]
    /\ Goto(s, "check")
    /\ UNCHANGED <<running, kills, path, pos, meddled, answer, files, asked, label>>

\* TCPserver.py: neither the decoding of the request, nor its unpacking, nor requests.head()
\* is inside a try.
TcpUnreadable(u) == u.parts # 2 \/ u.head = "raises"

\* Mutant: the name is looked for before the extension is appended.
TcpChecksName ==
    /\ pc["TCP"] = "check"
    /\ LET r == Request("TCP")
           p == Append(r.name, r.url.head)
       IN  \/ (TcpUnreadable(r.url) \/ r.name \in Unstatable) /\ Ends("TCP")
           \/ /\ ~TcpUnreadable(r.url) /\ r.url.head \in {"none", "unknown"}
              /\ Answers("TCP", "error", <<>>)
           \/ /\ ~TcpUnreadable(r.url) /\ r.url.head \in Extensions /\ r.name \notin Unstatable
              /\ IF Exists(r.name) THEN Answers("TCP", "exists", p) ELSE Downloads("TCP", p)

\* The file is looked for under its full name, and Path.exists() passes on the errors of
\* stat() but "not found".
TcpChecks ==
    /\ pc["TCP"] = "check"
    /\ LET r == Request("TCP")
           p == Append(r.name, r.url.head)
       IN  \/ (TcpUnreadable(r.url) \/ p \in Unstatable) /\ Ends("TCP")
           \/ /\ ~TcpUnreadable(r.url) /\ r.url.head \in {"none", "unknown"}
              /\ Answers("TCP", "error", <<>>)
           \/ /\ ~TcpUnreadable(r.url) /\ r.url.head \in Extensions /\ p \notin Unstatable
              /\ IF Exists(p) THEN Answers("TCP", "exists", p) ELSE Downloads("TCP", p)

\* RUDPserver.py: the decoding of the request and Path.exists() are outside of its try.
RudpRaises(r) == r.url.parts = 0 \/ (r.url.parts = 2 /\ r.name \in Unstatable)

\* Mutant: a request that is not two parts, or no URL, is passed over.
RudpChecksSilently ==
    /\ pc["RUDP"] = "check"
    /\ LET r == Request("RUDP")
           new == r.url.parts = 2 /\ ~Exists(r.name)
       IN  \/ RudpRaises(r) /\ Ends("RUDP")
           \/ ~RudpRaises(r) /\ r.url.parts = 2 /\ Exists(r.name) /\ Answers("RUDP", "exists", r.name)
           \/ ~RudpRaises(r) /\ new /\ r.url.valid /\ Downloads("RUDP", <<>>)
           \/ /\ ~RudpRaises(r) /\ (r.url.parts # 2 \/ (new /\ ~r.url.valid))
              /\ job' = [job EXCEPT !["RUDP"] = <<>>]
              /\ Goto("RUDP", "idle")
              /\ UNCHANGED <<running, kills, path, pos, meddled, answer, waiting, files, asked, label>>

\* The file is looked for under the name as it was typed; the name it will have is made later.
RudpChecks ==
    /\ pc["RUDP"] = "check"
    /\ LET r == Request("RUDP")
           new == r.url.parts = 2 /\ ~Exists(r.name)
       IN  \/ RudpRaises(r) /\ Ends("RUDP")
           \/ ~RudpRaises(r) /\ (r.url.parts # 2 \/ (new /\ ~r.url.valid)) /\ Answers("RUDP", "invalid", <<>>)
           \/ ~RudpRaises(r) /\ r.url.parts = 2 /\ Exists(r.name) /\ Answers("RUDP", "exists", r.name)
           \/ ~RudpRaises(r) /\ new /\ r.url.valid /\ Downloads("RUDP", <<>>)

\* Mutant: the file is opened without being emptied.
OpensWithoutEmptying(s, p) ==
    /\ path' = [path EXCEPT ![s] = p]
    /\ files' = [files EXCEPT ![p].by = s]
    /\ pos' = [pos EXCEPT ![s] = 0]
    /\ meddled' = [meddled EXCEPT ![s] = pc[Other(s)] = "write" /\ path[Other(s)] = p,
                                  ![Other(s)] = @ \/ path[Other(s)] = p]
    /\ Goto(s, "write")
    /\ UNCHANGED <<running, kills, job, answer, waiting, asked, label>>

\* open(filename, 'wb') makes the file or empties it.
Opens(s, p) ==
    /\ path' = [path EXCEPT ![s] = p]
    /\ files' = [files EXCEPT ![p] = [by |-> s, chunks |-> <<>>]]
    /\ pos' = [pos EXCEPT ![s] = 0]
    /\ meddled' = [meddled EXCEPT ![s] = pc[Other(s)] = "write" /\ path[Other(s)] = p,
                                  ![Other(s)] = @ \/ path[Other(s)] = p]
    /\ Goto(s, "write")
    /\ UNCHANGED <<running, kills, job, answer, waiting, asked, label>>

\* The name of the file: RUDPserver.py appends the extension here.
Target(s) ==
    IF s = "TCP" THEN path[s]
    ELSE IF Request(s).url.get = "unknown" THEN Request(s).name
    ELSE Append(Request(s).name, Request(s).url.get)

\* download_file up to open(): guess_extension() of no type raises AttributeError and open()
\* may raise OSError; TCPserver.py catches neither.
Get(s) ==
    /\ pc[s] = "get"
    /\ LET r == Request(s)
           unopenable == r.url.get # "none" /\ (r.name \in Unwritable \/ Target(s) \in Unstatable)
           raises == r.url.get # "raises" /\ (r.url.get = "none" \/ unopenable)
       IN  \/ r.url.get = "raises" /\ Answers(s, "error", <<>>)
           \/ raises /\ s = "TCP" /\ Ends(s)
           \/ raises /\ s = "RUDP" /\ Answers(s, "error", <<>>)
           \/ r.url.get # "raises" /\ ~raises /\ Opens(s, Target(s))

\* write() at the process's own position, and flush(); the file may have been emptied below it.
Writes(s) ==
    /\ pc[s] = "write"
    /\ pos[s] < Request(s).url.chunks
    /\ LET p   == path[s]
           n   == pos[s] + 1
           old == files[p].chunks
           len == IF Len(old) < n THEN n ELSE Len(old)
       IN  /\ files' = [files EXCEPT ![p].chunks =
                  [i \in 1..len |-> IF i = n THEN <<Request(s).url, n>>
                                    ELSE IF i <= Len(old) THEN old[i] ELSE Hole]]
           /\ pos' = [pos EXCEPT ![s] = n]
           /\ meddled' = [meddled EXCEPT ![Other(s)] = @ \/ path[Other(s)] = p]
    /\ UNCHANGED <<running, kills, pc, job, path, answer, waiting, asked, label>>

\* The download ends: the file is closed, after all chunks or after an exception.
Completes(s) ==
    /\ pc[s] = "write"
    /\ pos[s] = Request(s).url.chunks
    /\ Answers(s, "complete", path[s])

\* requests raises one of its own exceptions: both servers report it.
BreaksOff(s) ==
    /\ pc[s] = "write"
    /\ Answers(s, "error", path[s])

\* write() raises OSError, as on a full disk: TCPserver.py catches the exceptions of requests only.
DiskFails(s) ==
    /\ pc[s] = "write"
    /\ pos[s] < Request(s).url.chunks
    /\ \/ s = "TCP" /\ Ends(s)
       \/ s = "RUDP" /\ Answers(s, "error", path[s])

\* Mutant: the connection is kept.
RepliesWithoutClose(s) ==
    /\ pc[s] = "reply"
    /\ label' = [label EXCEPT ![job[s][1]] = answer[s]]
    /\ Goto(s, "idle")
    /\ UNCHANGED <<running, kills, job, path, pos, meddled, answer, waiting, files, asked>>

\* send() or sendto(), and the next request.
Replies(s) ==
    /\ pc[s] = "reply"
    /\ label' = [label EXCEPT ![job[s][1]] = answer[s]]
    /\ job' = [job EXCEPT ![s] = <<>>]
    /\ Goto(s, "idle")
    /\ UNCHANGED <<running, kills, path, pos, meddled, answer, waiting, files, asked>>

Killed(s) ==
    /\ running[s]
    /\ kills < MaxKills
    /\ kills' = kills + 1
    /\ running' = [running EXCEPT ![s] = FALSE]
    /\ Goto(s, "off")
    /\ job' = [job EXCEPT ![s] = <<>>]
    /\ waiting' = [waiting EXCEPT ![s] = <<>>]
    /\ UNCHANGED <<path, pos, meddled, answer, files, asked, label>>

\* Everybody has an answer, or has asked a server that was killed.
Rest == (\A c \in Clients : asked[c] # <<>>) /\ UNCHANGED vars

ServerStep(s) ==
    \/ Takes(s)
    \/ s = "TCP" /\ TcpChecks
    \/ s = "RUDP" /\ RudpChecks
    \/ Get(s) \/ Writes(s) \/ Completes(s) \/ BreaksOff(s) \/ DiskFails(s) \/ Replies(s)

Next ==
    \/ \E c \in Clients : ClientAsks(c) \/ ClientIsReset(c)
    \/ \E s \in Protocols : ServerStarts(s) \/ ServerStep(s) \/ Killed(s)
    \/ Rest

\* A server is inside requests.head(), requests.get() or iter_content(), which have no timeout,
\* for a site that may be silent.
AwaitsSite(s) ==
    \/ pc[s] = "check" /\ s = "TCP" /\ Request(s).url.parts = 2
    \/ pc[s] \in {"get", "write"}
MayHang(s) == AwaitsSite(s) /\ Request(s).url \in Silent

\* Processes that run are scheduled, sites that are not silent answer or fail; nobody starts
\* a server.
Fairness ==
    /\ \A c \in Clients : WF_vars(ClientIsReset(c))
    /\ \A s \in Protocols : WF_vars(~MayHang(s) /\ ServerStep(s))

Spec == Init /\ [][Next]_vars /\ Fairness

---------------------------------------------------------------------------
TypeOK ==
    /\ running \in [Protocols -> BOOLEAN]
    /\ kills \in 0..MaxKills
    /\ pc \in [Protocols -> Places]
    /\ \A s \in Protocols :
        /\ running[s] <=> pc[s] # "off"
        /\ (job[s] # <<>>) <=> pc[s] \in {"check", "get", "write", "reply"}
        /\ job[s] # <<>> => Len(job[s]) = 1 /\ job[s][1] \in Clients
        /\ pc[s] = "write" => path[s] \in Paths /\ pos[s] <= Request(s).url.chunks
        /\ answer[s].says \in Says
    /\ pos \in [Protocols -> Nat]
    /\ meddled \in [Protocols -> BOOLEAN]
    /\ waiting \in [Protocols -> Seq(Clients)]
    /\ files \in [Paths -> File]
    /\ \A c \in Clients : label[c].says \in Says

\* "Download complete" is true when it is said: the file holds all chunks of the URL in their
\* order, unless the other server had the same file open (the two processes know nothing of
\* each other).
CompleteMeansWhole ==
    \A s \in Protocols :
        (pc[s] = "reply" /\ answer[s].says = "complete" /\ ~meddled[s]) =>
            files[answer[s].at].chunks = Chunks(Request(s).url)

\* What the TCP server has saved is only ever emptied or overwritten by the RUDP server, whose
\* check is for another name; the TCP server itself empties no file but one the RUDP server
\* made after its own check.
TcpKeepsItsFiles ==
    [][\A p \in Paths :
          files[p].by = "TCP" /\ files'[p].chunks # files[p].chunks =>
              \/ files'[p].by = "RUDP"
              \/ pc["TCP"] = "write" /\ path["TCP"] = p
              \/ pc["RUDP"] = "write" /\ path["RUDP"] = p]_vars

\* The RUDP server ends by itself at such a request, and its clients, who wait for one datagram
\* without a timeout, are told nothing.
EndsRudp(r) == r.protocol = "RUDP" /\ RudpRaises(r)
RudpMayHaveEnded == kills > 0 \/ \E d \in Clients : asked[d] # <<>> /\ EndsRudp(asked[d][1])

\* Such a client may wait for ever.
Abandoned(c) == asked[c] # <<>> /\ asked[c][1].protocol = "RUDP" /\ RudpMayHaveEnded

\* Its server waits for a site that may be silent, perhaps for another client.
Kept(c) == asked[c] # <<>> /\ \E s \in Protocols : asked[c][1].protocol = s /\ MayHang(s)

\* Every other client ends, also when a request before its own has ended the TCP server: it is
\* answered, refused or reset, unless its server waits for a silent site and goes on doing so.
EveryClientEnds == \A c \in Clients : asked[c] # <<>> ~> (Ended(c) \/ Abandoned(c) \/ []Kept(c))
================================================================================
