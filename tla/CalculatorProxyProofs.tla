------------------------- MODULE CalculatorProxyProofs -------------------------
(***************************************************************************)
(* What CalculatorProxy promises for any number of clients, expressions,   *)
(* policies, cuts and crashes: types, that every answer is to the client's *)
(* own question, and that it is no older than client and server accept.    *)
(***************************************************************************)
EXTENDS CalculatorProxy, TLAPS

---------------------------------------------------------------------------
\* ---- packets

\* The packets that are sent: the constructor leaves no cache control without the flag.
Packet == {h \in Headers : ~h.cache => h.cc = 0}

\* All that matters of the sizes (the literals are too large for Zenon).
LEMMA Numbers ==
    /\ MAX_CACHE_CONTROL \in Nat
    /\ HEADER_MIN_LENGTH \in Nat /\ HEADER_MAX_LENGTH \in Nat
    /\ HANDLER_READ \in Nat /\ HANDLER_READ >= HEADER_MIN_LENGTH
    /\ BUFFER_SIZE \in Nat /\ BUFFER_SIZE >= HEADER_MIN_LENGTH
    /\ HEADER_MIN_LENGTH + ErrorLen <= HEADER_MAX_LENGTH
  BY SMT, HeaderAssumption, ErrorAssumption
     DEF BUFFER_SIZE, HANDLER_READ, HEADER_MIN_LENGTH, HEADER_MAX_LENGTH, MAX_CACHE_CONTROL

LEMMA PackedIsShort ==
    ASSUME NEW h, h.total \in Nat, Packs(h)
    PROVE  h.total <= HEADER_MAX_LENGTH
  BY SMT DEF Packs, HEADER_MAX_LENGTH

\* What a pickle is about is what it was made for.
LEMMA PickleFacts ==
    ASSUME NEW kind \in {"expr", "result", "error"}, NEW e \in Exprs, NEW steps \in BOOLEAN
    PROVE  /\ Pickle(kind, e, steps) \in Data
           /\ Pickle(kind, e, steps).kind = kind
           /\ Pickle(kind, e, steps).of = e
           /\ Pickle(kind, e, steps).steps = steps
           /\ kind = "error" => Pickle(kind, e, steps).len = ErrorLen
  <1> DEFINE d == [kind |-> kind, of |-> e, steps |-> steps, len |-> 0]
  <1>1. CASE kind = "expr"
    <2>1. FullLen(d) = ExprLen[e]
      BY <1>1 DEF FullLen
    <2>2. FullLen(d) \in Nat
      BY <2>1, HeaderAssumption
    <2> QED BY <1>1, <2>2 DEF Pickle, Data
  <1>2. CASE kind = "result"
    <2>1. FullLen(d) = ResultLen[<<e, steps>>]
      BY <1>2 DEF FullLen
    <2>2. FullLen(d) \in Nat
      BY <2>1, HeaderAssumption
    <2> QED BY <1>2, <2>2 DEF Pickle, Data
  <1>3. CASE kind = "error"
    <2>1. FullLen(d) = ErrorLen
      BY <1>3 DEF FullLen
    <2>2. FullLen(d) \in Nat
      BY <2>1, HeaderAssumption
    <2> QED BY <1>3, <2>1, <2>2 DEF Pickle, Data
  <1> QED BY <1>1, <1>2, <1>3

Statuses == {0, STATUS_OK, STATUS_CLIENT_ERROR, STATUS_SERVER_ERROR}

LEMMA HeaderFacts ==
    ASSUME NEW stamp \in Nat, NEW total \in HEADER_MIN_LENGTH..HEADER_MAX_LENGTH, NEW cached \in BOOLEAN,
           NEW steps \in BOOLEAN, NEW isRequest \in BOOLEAN,
           NEW status \in Statuses,
           NEW cc \in 0..MAX_CACHE_CONTROL, NEW data \in Data
    PROVE  /\ Header(stamp, total, cached, steps, isRequest, status, cc, data) \in Packet
           /\ Header(stamp, total, cached, steps, isRequest, status, cc, data).stamp = stamp
           /\ Header(stamp, total, cached, steps, isRequest, status, cc, data).data = data
           /\ Header(stamp, total, cached, steps, isRequest, status, cc, data).steps = steps
           /\ Header(stamp, total, cached, steps, isRequest, status, cc, data).total = total
  <1>1. 0 \in 0..MAX_CACHE_CONTROL
    BY Numbers
  <1>2. \E flag \in BOOLEAN, limit \in 0..MAX_CACHE_CONTROL :
          /\ (cached /\ (isRequest \/ cc # 0)) = flag
          /\ (IF cached THEN cc ELSE 0) = limit
          /\ ~flag => limit = 0
    <2>1. CASE cached /\ (isRequest \/ cc # 0)
      BY <2>1
    <2>2. CASE cached /\ ~(isRequest \/ cc # 0)
      BY <2>2
    <2>3. CASE ~cached
      BY <2>3, <1>1
    <2> QED BY <2>1, <2>2, <2>3
  <1>3. PICK flag \in BOOLEAN, limit \in 0..MAX_CACHE_CONTROL :
          /\ (cached /\ (isRequest \/ cc # 0)) = flag
          /\ (IF cached THEN cc ELSE 0) = limit
          /\ ~flag => limit = 0
    BY <1>2
  <1> DEFINE h == [stamp |-> stamp, total |-> total, cache |-> flag, steps |-> steps,
                   isRequest |-> isRequest, status |-> status, cc |-> limit, data |-> data]
  <1>4. Header(stamp, total, cached, steps, isRequest, status, cc, data) = h
    BY <1>3 DEF Header
  <1>5. h \in Headers
    BY DEF Headers, Statuses
  <1>6. ~h.cache => h.cc = 0
    BY <1>3
  <1>7. h \in Packet
    BY <1>5, <1>6 DEF Packet
  <1>8. h.stamp = stamp /\ h.data = data /\ h.steps = steps /\ h.total = total
    OBVIOUS
  <1> HIDE DEF h
  <1> QED BY <1>4, <1>7, <1>8

\* A packet that is received, in whole or in part, says what was sent.
LEMMA UnpackFacts ==
    ASSUME cuts \in CutSets, NEW h \in Packet, NEW limit \in Nat, limit >= HEADER_MIN_LENGTH,
           NEW n \in Lengths(h, limit)
    PROVE  /\ Unpack(h, n) \in Packet
           /\ Unpack(h, n).stamp = h.stamp /\ Unpack(h, n).cc = h.cc /\ Unpack(h, n).steps = h.steps
           /\ Unpack(h, n).data.of = h.data.of /\ Unpack(h, n).data.steps = h.data.steps
  <1>1. h \in Headers /\ h.data \in Data /\ h.data.len \in Nat
    BY DEF Packet, Headers, Data
  <1>2. n - HEADER_MIN_LENGTH \in Nat
    <2> DEFINE there == HEADER_MIN_LENGTH + h.data.len
    <2>1. there \in Nat /\ there >= HEADER_MIN_LENGTH
      BY <1>1, Numbers
    <2>2. Smaller(there, limit) \in Nat /\ Smaller(there, limit) >= HEADER_MIN_LENGTH
      BY <2>1, Numbers DEF Smaller
    <2>3. n = Smaller(there, limit) \/ n \in cuts
      BY DEF Lengths
    <2>4. n \in cuts => n \in Nat /\ n >= HEADER_MIN_LENGTH
      BY ProxyAssumption
    <2> HIDE DEF there
    <2> QED BY <2>2, <2>3, <2>4, Numbers
  <1>3. [h.data EXCEPT !.len = n - HEADER_MIN_LENGTH] \in Data
    BY <1>1, <1>2 DEF Data
  <1>4. ~h.cache => h.cc = 0
    BY DEF Packet
  <1>5. /\ h.stamp \in Nat /\ h.total \in HEADER_MIN_LENGTH..HEADER_MAX_LENGTH /\ h.cache \in BOOLEAN
        /\ h.steps \in BOOLEAN /\ h.isRequest \in BOOLEAN
        /\ h.status \in Statuses
        /\ h.cc \in 0..MAX_CACHE_CONTROL
    BY <1>1 DEF Headers, Statuses
  <1>6. Unpack(h, n) \in Packet /\ Unpack(h, n).stamp = h.stamp /\ Unpack(h, n).steps = h.steps
        /\ Unpack(h, n).data = [h.data EXCEPT !.len = n - HEADER_MIN_LENGTH]
    <2> DEFINE data == [h.data EXCEPT !.len = n - HEADER_MIN_LENGTH]
    <2>1. Unpack(h, n) = Header(h.stamp, h.total, h.cache, h.steps, h.isRequest, h.status, h.cc, data)
      BY DEF Unpack
    <2>2. data \in Data
      BY <1>3
    <2> HIDE DEF data
    <2>3. Header(h.stamp, h.total, h.cache, h.steps, h.isRequest, h.status, h.cc, data) \in Packet
      BY <1>5, <2>2, HeaderFacts
    <2>4. /\ Header(h.stamp, h.total, h.cache, h.steps, h.isRequest, h.status, h.cc, data).stamp = h.stamp
          /\ Header(h.stamp, h.total, h.cache, h.steps, h.isRequest, h.status, h.cc, data).steps = h.steps
          /\ Header(h.stamp, h.total, h.cache, h.steps, h.isRequest, h.status, h.cc, data).data = data
      BY <1>5, <2>2, HeaderFacts
    <2> QED BY <2>1, <2>3, <2>4 DEF data
  <1>7. Unpack(h, n).cc = h.cc
    BY <1>4 DEF Unpack, Header
  <1>8. /\ [h.data EXCEPT !.len = n - HEADER_MIN_LENGTH].of = h.data.of
        /\ [h.data EXCEPT !.len = n - HEADER_MIN_LENGTH].steps = h.data.steps
    BY <1>1 DEF Data
  <1> QED BY <1>6, <1>7, <1>8

\* A new request, unless it is too long to be sent.
LEMMA ExpressionFacts ==
    ASSUME NEW t \in Nat, NEW r \in Requests, Packs(FromExpression(t, r.of, r.steps, r.cache, r.cc))
    PROVE  FromExpression(t, r.of, r.steps, r.cache, r.cc) \in Packet
  <1> DEFINE data == Pickle("expr", r.of, FALSE)
  <1>1. r.of \in Exprs /\ r.steps \in BOOLEAN /\ r.cache \in BOOLEAN /\ r.cc \in 0..MAX_CACHE_CONTROL
    BY ProxyAssumption
  <1>2. data \in Data
    BY <1>1, PickleFacts
  <1> DEFINE total == TotalOf(data)
  <1>3. FromExpression(t, r.of, r.steps, r.cache, r.cc) = Header(t, total, r.cache, r.steps, TRUE, 0, r.cc, data)
    BY DEF FromExpression
  <1> HIDE DEF data
  <1>4. total \in Nat /\ total >= HEADER_MIN_LENGTH
    BY <1>2, Numbers DEF TotalOf, Data
  <1> HIDE DEF total
  <1>5. total <= HEADER_MAX_LENGTH
    <2> DEFINE h == Header(t, total, r.cache, r.steps, TRUE, 0, r.cc, data)
    <2>1. h.total = total
      BY DEF Header
    <2>2. Packs(h)
      BY <1>3
    <2> HIDE DEF h
    <2> QED BY <1>4, <2>1, <2>2, PackedIsShort
  <1>6. total \in HEADER_MIN_LENGTH..HEADER_MAX_LENGTH
    BY <1>4, <1>5, Numbers
  <1>7. Header(t, total, r.cache, r.steps, TRUE, 0, r.cc, data) \in Packet
    <2>1. PICK yes \in BOOLEAN, none \in Statuses : yes = TRUE /\ none = 0
      BY DEF Statuses
    <2>2. Header(t, total, r.cache, r.steps, yes, none, r.cc, data) \in Packet
      BY <1>1, <1>2, <1>6, HeaderFacts
    <2> QED BY <2>1, <2>2 DEF Header
  <1> QED BY <1>3, <1>7

\* A response about a request r: what it says, and when it was made.
IsAbout(h, r) == h.data.of = r.data.of /\ h.data.steps = r.steps

LEMMA ErrorFacts ==
    ASSUME NEW t \in Nat, NEW r \in Packet, NEW status \in Statuses,
           NEW cached \in BOOLEAN, NEW cc \in 0..MAX_CACHE_CONTROL
    PROVE  LET h == FromError(t, r, status, cached, cc)
           IN  h \in Packet /\ h.stamp = t /\ IsAbout(h, r)
  <1> DEFINE data == Pickle("error", r.data.of, r.steps)
  <1>1. r.data.of \in Exprs /\ r.steps \in BOOLEAN
    BY DEF Packet, Headers, Data
  <1>2. data \in Data /\ data.len = ErrorLen /\ data.of = r.data.of /\ data.steps = r.steps
    BY <1>1, PickleFacts
  <1> DEFINE total == TotalOf(data)
             h == Header(t, total, cached, FALSE, FALSE, status, cc, data)
  <1>3. FromError(t, r, status, cached, cc) = h
    BY DEF FromError
  <1> HIDE DEF data
  <1>4. total \in HEADER_MIN_LENGTH..HEADER_MAX_LENGTH
    BY <1>2, Numbers, HeaderAssumption DEF TotalOf
  <1> HIDE DEF total
  <1>5. h \in Packet /\ h.stamp = t /\ h.data = data
    <2>1. PICK no \in BOOLEAN : no = FALSE
      OBVIOUS
    <2> DEFINE g == Header(t, total, cached, no, no, status, cc, data)
    <2>2. g \in Packet /\ g.stamp = t /\ g.data = data
      BY <1>2, <1>4, HeaderFacts
    <2>3. g = h
      BY <2>1 DEF Header
    <2> HIDE DEF g, h
    <2> QED BY <2>2, <2>3
  <1> HIDE DEF h
  <1> QED BY <1>2, <1>3, <1>5 DEF IsAbout

LEMMA ResultFacts ==
    ASSUME NEW t \in Nat, NEW r \in Packet, NEW cached \in BOOLEAN, NEW cc \in 0..MAX_CACHE_CONTROL,
           Packs(FromResult(t, r, cached, cc))
    PROVE  LET h == FromResult(t, r, cached, cc)
           IN  h \in Packet /\ h.stamp = t /\ IsAbout(h, r)
  <1> DEFINE data == Pickle("result", r.data.of, r.steps)
  <1>1. r.data.of \in Exprs /\ r.steps \in BOOLEAN
    BY DEF Packet, Headers, Data
  <1>2. data \in Data /\ data.of = r.data.of /\ data.steps = r.steps
    BY <1>1, PickleFacts
  <1>3. PICK steps \in BOOLEAN : (r.steps /\ r.data.of \notin Constants) = steps
    OBVIOUS
  <1> DEFINE total == TotalOf(data)
             h == Header(t, total, cached, steps, FALSE, STATUS_OK, cc, data)
  <1>4. FromResult(t, r, cached, cc) = h
    BY <1>3 DEF FromResult
  <1> HIDE DEF data
  <1>5. total \in Nat /\ total >= HEADER_MIN_LENGTH
    BY <1>2, Numbers DEF TotalOf, Data
  <1> HIDE DEF total
  <1>6. h.total = total
    BY DEF Header
  <1> HIDE DEF h
  <1>7. total <= HEADER_MAX_LENGTH
    BY <1>4, <1>5, <1>6, PackedIsShort
  <1>8. total \in HEADER_MIN_LENGTH..HEADER_MAX_LENGTH
    BY <1>5, <1>7, Numbers
  <1>9. h \in Packet /\ h.stamp = t /\ h.data = data
    <2>1. PICK no \in BOOLEAN : no = FALSE
      OBVIOUS
    <2>2. PICK status \in Statuses : status = STATUS_OK
      BY DEF Statuses
    <2> DEFINE g == Header(t, total, cached, steps, no, status, cc, data)
    <2>3. g \in Packet /\ g.stamp = t /\ g.data = data
      BY <1>2, <1>8, HeaderFacts
    <2>4. g = h
      BY <2>1, <2>2 DEF Header, h
    <2> HIDE DEF g
    <2> QED BY <2>3, <2>4
  <1> QED BY <1>2, <1>4, <1>9 DEF IsAbout

---------------------------------------------------------------------------
\* ---- the invariant

\* A variable that holds one packet or none.
One(S) == {<<>>} \cup {<<x>> : x \in S}

LEMMA OneFacts ==
    ASSUME NEW S
    PROVE  /\ <<>> \in One(S)
           /\ \A x \in S : <<x>> \in One(S) /\ <<x>> # <<>> /\ <<x>>[1] = x
           /\ \A s \in One(S) : s # <<>> => s[1] \in S /\ s = <<s[1]>>
  BY DEF One

Types ==
    /\ now \in 0..MaxTime
    /\ policy \in Policies
    /\ cuts \in CutSets
    /\ up \in BOOLEAN
    /\ crashes \in 0..MaxCrashes
    /\ DOMAIN cache \subseteq Keys
    /\ \A k \in DOMAIN cache : cache[k] \in Packet
    /\ cpc \in [Clients -> ClientStates]
    /\ born \in [Clients -> 0..MaxTime]
    /\ ppc \in [Clients -> ProxyStates]
    /\ spc \in [Clients -> ServerStates]
    /\ answer \in [Clients -> One(Packet)]
    /\ request \in [Clients -> One(Packet)]
    /\ response \in [Clients -> One(Packet)]
    /\ served \in [Clients -> One(Packet)]
    /\ toProxy \in [Clients -> One(Packet)]
    /\ toServer \in [Clients -> One(Packet)]
    /\ fromServer \in [Clients -> One(Packet)]
    /\ toClient \in [Clients -> One(Packet)]

\* Which variables are filled where: nothing is under way before the proxy has read the request,
\* and a thread finds what it works on.
Filled(c) ==
    /\ cpc[c] = "idle" => ppc[c] = "off"
    /\ ppc[c] \in {"off", "recv"} =>
           spc[c] = "off" /\ answer[c] = <<>> /\ fromServer[c] = <<>> /\ toClient[c] = <<>>
    /\ ppc[c] \notin {"off", "recv"} => request[c] # <<>>
    /\ ppc[c] \in {"judge", "weigh", "store", "reply"} => response[c] # <<>>
    /\ (toServer[c] # <<>>) <=> spc[c] = "recv"
    /\ spc[c] = "compute" => served[c] # <<>>

\* The same question; an answer to it; one that was computed for it; one that may be given.
IsOf(h, r) == h.data.of = r.data.of /\ h.steps = r.steps
Fetched(h, c) == IsAbout(h, request[c][1]) /\ h.stamp >= born[c]
Given(h, c) ==
    /\ IsAbout(h, request[c][1])
    /\ RecentEnough(h, c)
    /\ request[c][1].cc = 0 => h.stamp >= born[c]

\* What a packet is about, wherever it is.
Meaning(c) ==
    /\ born[c] <= now
    /\ toServer[c] # <<>> => IsOf(toServer[c][1], request[c][1])
    /\ spc[c] = "compute" => IsOf(served[c][1], request[c][1])
    /\ fromServer[c] # <<>> => Fetched(fromServer[c][1], c)
    /\ ppc[c] = "judge" => IsAbout(response[c][1], request[c][1]) /\ request[c][1].cc # 0
    /\ ppc[c] \in {"weigh", "store"} => Fetched(response[c][1], c)
    /\ ppc[c] = "reply" => Given(response[c][1], c)
    /\ toClient[c] # <<>> => Given(toClient[c][1], c)
    /\ answer[c] # <<>> => Given(answer[c][1], c)

CacheMeans == \A k \in DOMAIN cache : cache[k].data.of = k.data.of /\ cache[k].data.steps = k.steps

Inv ==
    /\ Types
    /\ CacheMeans
    /\ \A c \in Clients : Filled(c) /\ Meaning(c)

LEMMA InvImplies == Inv => TypeOK /\ AnswersOwnQuestion /\ AnswersAreRecent
  <1> SUFFICES ASSUME Inv PROVE TypeOK /\ AnswersOwnQuestion /\ AnswersAreRecent
    OBVIOUS
  <1>1. \A x \in Packet : x \in Headers
    BY DEF Packet
  <1>2. ASSUME NEW s \in One(Packet)
        PROVE  s \in Seq(Headers) /\ Len(s) <= 1
    <2>1. CASE s = <<>>
      BY <2>1
    <2>2. CASE s # <<>>
      <3>1. PICK x \in Packet : s = <<x>>
        BY <2>2 DEF One
      <3> QED BY <1>1, <3>1
    <2> QED BY <2>1, <2>2
  <1>3. \A f \in {answer, request, response, served, toProxy, toServer, fromServer, toClient} :
            f \in [Clients -> One(Packet)]
    BY DEF Inv, Types
  <1>4. \A f \in {answer, request, response, served, toProxy, toServer, fromServer, toClient} :
            f \in [Clients -> Seq(Headers)] /\ \A c \in Clients : Len(f[c]) <= 1
    BY <1>2, <1>3
  <1>5. TypeOK
    BY <1>1, <1>4 DEF Inv, Types, TypeOK
  <1>6. AnswersOwnQuestion
    BY DEF Inv, Meaning, Given, IsAbout, AnswersOwnQuestion, Answers
  <1>7. AnswersAreRecent
    BY DEF Inv, Meaning, Given, AnswersAreRecent
  <1> QED BY <1>5, <1>6, <1>7

LEMMA InitInv == Init => Inv
  <1> SUFFICES ASSUME Init PROVE Inv
    OBVIOUS
  <1>1. \A c \in Clients : Filled(c)
    BY DEF Init, Filled
  <1>2. \A c \in Clients : Meaning(c)
    BY DEF Init, Meaning
  <1>3. Types
    <2>1. DOMAIN cache = {}
      BY DEF Init
    <2>2. 0 \in 0..MaxTime /\ 0 \in 0..MaxCrashes /\ <<>> \in One(Packet)
      BY OneFacts, ProxyAssumption
    <2> QED BY <2>1, <2>2 DEF Init, Types, ClientStates, ProxyStates, ServerStates
  <1>4. CacheMeans
    BY DEF Init, CacheMeans
  <1> QED BY <1>1, <1>2, <1>3, <1>4 DEF Inv

\* ---- client.py

LEMMA ClientAsksInv ==
    ASSUME Inv, NEW c \in Clients, ClientAsks(c)
    PROVE  Inv'
  <1>1. PICK r \in Requests :
          LET h == FromExpression(now, r.of, r.steps, r.cache, r.cc)
          IN  IF Constructible(h.data) /\ Packs(h)
              THEN /\ Goto(cpc, c, "wait")
                   /\ Goto(ppc, c, "recv")
                   /\ toProxy' = [toProxy EXCEPT ![c] = <<h>>]
              ELSE /\ Goto(cpc, c, "failed")
                   /\ UNCHANGED <<ppc, toProxy>>
    BY DEF ClientAsks
  <1>2. now \in Nat
    BY ProxyAssumption DEF Inv, Types
  <1>3. \/ /\ cpc' = [cpc EXCEPT ![c] = "wait"]
           /\ ppc' = [ppc EXCEPT ![c] = "recv"]
           /\ \E h \in Packet : toProxy' = [toProxy EXCEPT ![c] = <<h>>]
        \/ /\ cpc' = [cpc EXCEPT ![c] = "failed"]
           /\ UNCHANGED <<ppc, toProxy>>
    BY <1>1, <1>2, ExpressionFacts DEF Goto
  <1>4. /\ cpc[c] = "idle" /\ born' = [born EXCEPT ![c] = now]
        /\ UNCHANGED <<now, policy, cuts, answer, cache, request, response, up, crashes, spc, served,
                       toServer, fromServer, toClient>>
    BY DEF ClientAsks, serverVars
  <1>5. Types'
    BY <1>3, <1>4, OneFacts DEF Inv, Types, ClientStates, ProxyStates
  <1>6. ASSUME NEW d \in Clients PROVE Filled(d)'
    BY <1>3, <1>4 DEF Inv, Types, Filled
  <1>7. ASSUME NEW d \in Clients PROVE Meaning(d)'
    <2>1. CASE d = c
      BY <1>2, <1>3, <1>4, <2>1 DEF Inv, Types, Filled, Meaning
    <2>2. CASE d # c
      BY <1>3, <1>4, <2>2 DEF Inv, Types, Filled, Meaning, Fetched, Given, RecentEnough
    <2> QED BY <2>1, <2>2
  <1>8. CacheMeans'
    BY <1>4 DEF Inv, CacheMeans
  <1> QED BY <1>5, <1>6, <1>7, <1>8 DEF Inv

\* What stays the same for every client but one, given by the action.
LEMMA ClientReceivesInv ==
    ASSUME Inv, NEW c \in Clients, ClientReceives(c)
    PROVE  Inv'
  <1>1. toClient[c] # <<>> /\ toClient[c][1] \in Packet
    BY OneFacts DEF ClientReceives, Inv, Types
  <1>2. PICK n \in Lengths(toClient[c][1], BUFFER_SIZE) :
          LET h == Unpack(toClient[c][1], n)
          IN  /\ answer' = [answer EXCEPT ![c] = <<h>>]
              /\ Goto(cpc, c, IF h.status = STATUS_OK /\ Loads(h.data) THEN "done" ELSE "failed")
    BY DEF ClientReceives
  <1>3. PICK h \in Packet :
          /\ answer' = [answer EXCEPT ![c] = <<h>>]
          /\ \E place \in {"done", "failed"} : cpc' = [cpc EXCEPT ![c] = place]
          /\ h.data.of = toClient[c][1].data.of /\ h.data.steps = toClient[c][1].data.steps
          /\ h.stamp = toClient[c][1].stamp /\ h.cc = toClient[c][1].cc
    <2> DEFINE h == Unpack(toClient[c][1], n)
    <2>1. cuts \in CutSets
      BY DEF Inv, Types
    <2>2. /\ h \in Packet
          /\ h.data.of = toClient[c][1].data.of /\ h.data.steps = toClient[c][1].data.steps
          /\ h.stamp = toClient[c][1].stamp /\ h.cc = toClient[c][1].cc
      BY <1>1, <2>1, UnpackFacts, Numbers
    <2>3. \E place \in {"done", "failed"} : cpc' = [cpc EXCEPT ![c] = place]
      BY <1>2 DEF Goto
    <2>4. answer' = [answer EXCEPT ![c] = <<h>>]
      BY <1>2
    <2> HIDE DEF h
    <2> QED BY <2>2, <2>3, <2>4
  <1>4. /\ cpc[c] = "wait" /\ toClient' = [toClient EXCEPT ![c] = <<>>]
        /\ UNCHANGED <<now, policy, cuts, born, cache, ppc, request, response, up, crashes, spc, served,
                       toProxy, toServer, fromServer>>
    BY DEF ClientReceives, proxyVars, serverVars
  <1>5. Types'
    BY <1>3, <1>4, OneFacts DEF Inv, Types, ClientStates
  <1>6. ASSUME NEW d \in Clients PROVE Filled(d)'
    BY <1>1, <1>3, <1>4 DEF Inv, Types, Filled
  <1>7. ASSUME NEW d \in Clients PROVE Meaning(d)'
    <2>1. CASE d = c
      <3>1. Given(toClient[c][1], c)
        BY <1>1 DEF Inv, Meaning
      <3>2. Given(h, c)
        BY <1>3, <3>1 DEF Given, IsAbout, RecentEnough
      <3>3. answer'[c] = <<h>> /\ toClient'[c] = <<>>
        BY <1>3, <1>4 DEF Inv, Types
      <3> QED BY <1>3, <1>4, <2>1, <3>2, <3>3 DEF Inv, Types, Meaning, Fetched, Given, RecentEnough
    <2>2. CASE d # c
      BY <1>3, <1>4, <2>2 DEF Inv, Types, Meaning, Fetched, Given, RecentEnough
    <2> QED BY <2>1, <2>2
  <1>8. CacheMeans'
    BY <1>4 DEF Inv, CacheMeans
  <1> QED BY <1>5, <1>6, <1>7, <1>8 DEF Inv

LEMMA ClientIsResetInv ==
    ASSUME Inv, NEW c \in Clients, ClientIsReset(c)
    PROVE  Inv'
  <1>1. /\ cpc[c] = "wait" /\ cpc' = [cpc EXCEPT ![c] = "failed"]
        /\ toClient' = [toClient EXCEPT ![c] = <<>>]
        /\ UNCHANGED <<now, policy, cuts, born, answer, cache, ppc, request, response, up, crashes, spc, served,
                       toProxy, toServer, fromServer>>
    BY DEF ClientIsReset, Goto, proxyVars, serverVars
  <1>2. Types'
    BY <1>1, OneFacts DEF Inv, Types, ClientStates
  <1>3. ASSUME NEW d \in Clients PROVE Filled(d)' /\ Meaning(d)'
    BY <1>1 DEF Inv, Types, Filled, Meaning, Fetched, Given, RecentEnough
  <1>4. CacheMeans'
    BY <1>1 DEF Inv, CacheMeans
  <1> QED BY <1>2, <1>3, <1>4 DEF Inv

\* ---- proxy.py

LEMMA ProxyReceivesInv ==
    ASSUME Inv, NEW c \in Clients, ProxyReceives(c)
    PROVE  Inv'
  <1>1. toProxy[c] # <<>> /\ toProxy[c][1] \in Packet
    BY OneFacts DEF ProxyReceives, Inv, Types
  <1>2. PICK h \in Packet : request' = [request EXCEPT ![c] = <<h>>]
    <2>1. cuts \in CutSets
      BY DEF Inv, Types
    <2>3. PICK n \in Lengths(toProxy[c][1], HANDLER_READ) : request' = [request EXCEPT ![c] = <<Unpack(toProxy[c][1], n)>>]
      BY DEF ProxyReceives
    <2>4. Unpack(toProxy[c][1], n) \in Packet
      BY <1>1, <2>1, Numbers, UnpackFacts
    <2> QED BY <2>3, <2>4
  <1>3. /\ ppc[c] = "recv" /\ ppc' = [ppc EXCEPT ![c] = "lookup"]
        /\ toProxy' = [toProxy EXCEPT ![c] = <<>>]
        /\ UNCHANGED <<now, policy, cuts, cpc, born, answer, cache, response, up, crashes, spc, served,
                       toServer, fromServer, toClient>>
    BY DEF ProxyReceives, Goto, clientVars, serverVars
  <1>4. Types'
    BY <1>2, <1>3, OneFacts DEF Inv, Types, ProxyStates
  <1>5. ASSUME NEW d \in Clients PROVE Filled(d)'
    BY <1>2, <1>3 DEF Inv, Types, Filled
  <1>6. ASSUME NEW d \in Clients PROVE Meaning(d)'
    <2>1. CASE d = c
      BY <1>2, <1>3, <2>1 DEF Inv, Types, Filled, Meaning
    <2>2. CASE d # c
      BY <1>2, <1>3, <2>2 DEF Inv, Types, Meaning, Fetched, Given, RecentEnough
    <2> QED BY <2>1, <2>2
  <1>7. CacheMeans'
    BY <1>3 DEF Inv, CacheMeans
  <1> QED BY <1>4, <1>5, <1>6, <1>7 DEF Inv

\* What the cache holds under the key of a request answers it.
LEMMA LookUpInv ==
    ASSUME Inv, NEW c \in Clients, LookUp(c)
    PROVE  Inv'
  <1> DEFINE r == request[c][1]
  <1>1. r \in Packet /\ request[c] # <<>>
    BY OneFacts DEF LookUp, Inv, Types, Filled
  <1>2. /\ ppc[c] = "lookup"
        /\ UNCHANGED <<now, policy, cuts, cpc, born, answer, cache, request, up, crashes, spc, served,
                       toProxy, toServer, fromServer, toClient>>
    BY DEF LookUp, clientVars, serverVars, wires
  <1>3. CASE Key(r) \in DOMAIN cache /\ r.cc # 0
    <2>1. PICK h \in Packet : /\ response' = [response EXCEPT ![c] = <<h>>]
                              /\ ppc' = [ppc EXCEPT ![c] = "judge"]
                              /\ h = cache[Key(r)]
      BY <1>3 DEF LookUp, Goto, Inv, Types
    <2>2. IsAbout(h, r)
      BY <1>3, <2>1 DEF Inv, CacheMeans, Key, IsAbout
    <2>3. Types'
      BY <1>2, <2>1, OneFacts DEF Inv, Types, ProxyStates
    <2>4. ASSUME NEW d \in Clients PROVE Filled(d)'
      BY <1>1, <1>2, <2>1 DEF Inv, Types, Filled
    <2>5. ASSUME NEW d \in Clients PROVE Meaning(d)'
      <3>1. CASE d = c
        BY <1>2, <1>3, <2>1, <2>2, <3>1 DEF Inv, Types, Meaning, Fetched, Given, RecentEnough
      <3>2. CASE d # c
        BY <1>2, <2>1, <3>2 DEF Inv, Types, Meaning, Fetched, Given, RecentEnough
      <3> QED BY <3>1, <3>2
    <2>6. CacheMeans'
      BY <1>2 DEF Inv, CacheMeans
    <2> QED BY <2>3, <2>4, <2>5, <2>6 DEF Inv
  <1>4. CASE ~(Key(r) \in DOMAIN cache /\ r.cc # 0)
    <2>1. ppc' = [ppc EXCEPT ![c] = "connect"] /\ response' = response
      BY <1>4 DEF LookUp, Goto
    <2>2. Types'
      BY <1>2, <2>1 DEF Inv, Types, ProxyStates
    <2>3. ASSUME NEW d \in Clients PROVE Filled(d)' /\ Meaning(d)'
      BY <1>2, <2>1 DEF Inv, Types, Filled, Meaning, Fetched, Given, RecentEnough
    <2>4. CacheMeans'
      BY <1>2 DEF Inv, CacheMeans
    <2> QED BY <2>2, <2>3, <2>4 DEF Inv
  <1> QED BY <1>3, <1>4

LEMMA FreshWhenYounger ==
    ASSUME NEW cc \in Int, NEW older \in Int, NEW younger \in Int, younger <= older, Fresh(cc, older)
    PROVE  Fresh(cc, younger)
  BY DEF Fresh

\* An answer that is fresh now was fresh when the client asked.
LEMMA FreshBefore ==
    ASSUME Inv, NEW c \in Clients, FreshForBoth(c), request[c] # <<>>, response[c] # <<>>
    PROVE  RecentEnough(response[c][1], c)
  <1>1. /\ request[c][1].cc \in Int /\ response[c][1].cc \in Int /\ response[c][1].stamp \in Int
        /\ now \in Int /\ born[c] \in Int /\ born[c] <= now
    <2>1. request[c][1] \in Headers /\ response[c][1] \in Headers
      BY OneFacts DEF Inv, Types, Packet
    <2>2. now \in Int /\ born[c] \in Int /\ born[c] <= now
      BY ProxyAssumption DEF Inv, Types, Meaning
    <2> QED BY <2>1, <2>2, Numbers DEF Headers
  <1> DEFINE older   == now - response[c][1].stamp
             younger == born[c] - response[c][1].stamp
  <1>2. older \in Int /\ younger \in Int /\ younger <= older
    BY <1>1
  <1>3. Fresh(response[c][1].cc, older) /\ Fresh(request[c][1].cc, older)
    BY DEF FreshForBoth
  <1> HIDE DEF older
  <1>4. Fresh(response[c][1].cc, younger) /\ Fresh(request[c][1].cc, younger)
    <2> HIDE DEF younger
    <2> QED BY <1>1, <1>2, <1>3, FreshWhenYounger
  <1> QED BY <1>4 DEF RecentEnough

LEMMA JudgeInv ==
    ASSUME Inv, NEW c \in Clients, Judge(c)
    PROVE  Inv'
  <1>1. /\ ppc[c] = "judge"
        /\ UNCHANGED <<now, policy, cuts, cpc, born, answer, cache, request, response, up, crashes, spc, served,
                       toProxy, toServer, fromServer, toClient>>
    BY DEF Judge, clientVars, serverVars, wires
  <1>2. request[c] # <<>> /\ response[c] # <<>>
    BY <1>1 DEF Inv, Filled
  <1>3. PICK place \in {"reply", "connect"} :
          ppc' = [ppc EXCEPT ![c] = place] /\ (place = "reply" => Given(response[c][1], c))
    <2>1. CASE FreshForBoth(c)
      <3>1. Given(response[c][1], c)
        BY <1>1, <1>2, <2>1, FreshBefore DEF Inv, Meaning, Given
      <3> QED BY <2>1, <3>1 DEF Judge, Goto
    <2>2. CASE ~FreshForBoth(c)
      BY <2>2 DEF Judge, Goto
    <2> QED BY <2>1, <2>2
  <1>4. Types'
    BY <1>1, <1>3 DEF Inv, Types, ProxyStates
  <1>5. ASSUME NEW d \in Clients PROVE Filled(d)' /\ Meaning(d)'
    BY <1>1, <1>2, <1>3 DEF Inv, Types, Filled, Meaning, Fetched, Given, RecentEnough
  <1>6. CacheMeans'
    BY <1>1 DEF Inv, CacheMeans
  <1> QED BY <1>4, <1>5, <1>6 DEF Inv

LEMMA ForwardInv ==
    ASSUME Inv, NEW c \in Clients, Forward(c)
    PROVE  Inv'
  <1>1. /\ ppc[c] = "connect" /\ ppc' = [ppc EXCEPT ![c] = "wait"] /\ spc' = [spc EXCEPT ![c] = "recv"]
        /\ toServer' = [toServer EXCEPT ![c] = <<request[c][1]>>]
        /\ UNCHANGED <<now, policy, cuts, cpc, born, answer, cache, request, response, up, crashes, served,
                       toProxy, fromServer, toClient>>
    BY DEF Forward, Goto, clientVars
  <1>2. request[c] # <<>> /\ request[c][1] \in Packet /\ request[c][1].data.of = request[c][1].data.of
    BY <1>1, OneFacts DEF Inv, Types, Filled
  <1>3. Types'
    BY <1>1, <1>2, OneFacts DEF Inv, Types, ProxyStates, ServerStates
  <1>4. ASSUME NEW d \in Clients PROVE Filled(d)'
    BY <1>1, <1>2 DEF Inv, Types, Filled
  <1>5. ASSUME NEW d \in Clients PROVE Meaning(d)'
    BY <1>1 DEF Inv, Types, Meaning, IsOf, Fetched, Given, RecentEnough
  <1>6. CacheMeans'
    BY <1>1 DEF Inv, CacheMeans
  <1> QED BY <1>3, <1>4, <1>5, <1>6 DEF Inv

\* The proxy's own error is about the request and made after it.
LEMMA InternalErrorFacts ==
    ASSUME Inv, NEW c \in Clients, InternalError(c), ppc[c] \in {"connect", "wait"}
    PROVE  /\ ppc' = [ppc EXCEPT ![c] = "again"]
           /\ \E h \in Packet : Fetched(h, c) /\ toClient' = [toClient EXCEPT ![c] = <<h>>]
  <1>1. request[c] # <<>> /\ request[c][1] \in Packet /\ now \in Nat /\ born[c] <= now
    <2>1. request[c] # <<>> /\ request[c] \in One(Packet) /\ born[c] <= now
      BY DEF Inv, Types, Filled, Meaning
    <2>2. now \in Nat
      BY ProxyAssumption DEF Inv, Types
    <2> QED BY <2>1, <2>2, OneFacts
  <1> DEFINE h == FromError(now, request[c][1], STATUS_SERVER_ERROR, FALSE, 0)
  <1>2. h \in Packet /\ h.stamp = now /\ IsAbout(h, request[c][1])
    <2>1. PICK no \in BOOLEAN, status \in Statuses, zero \in 0..MAX_CACHE_CONTROL :
            no = FALSE /\ status = STATUS_SERVER_ERROR /\ zero = 0
      <3>1. STATUS_SERVER_ERROR \in Statuses
        BY DEF Statuses
      <3>2. 0 \in 0..MAX_CACHE_CONTROL
        BY Numbers
      <3> QED BY <3>1, <3>2
    <2> DEFINE g == FromError(now, request[c][1], status, no, zero)
    <2>2. g \in Packet /\ g.stamp = now /\ IsAbout(g, request[c][1])
      BY <1>1, ErrorFacts
    <2>3. g = h
      BY <2>1 DEF FromError, Header
    <2> HIDE DEF g, h
    <2> QED BY <2>2, <2>3
  <1>3. toClient' = [toClient EXCEPT ![c] = <<h>>] /\ ppc' = [ppc EXCEPT ![c] = "again"]
    BY DEF InternalError, Goto
  <1> HIDE DEF h
  <1>4. Fetched(h, c)
    BY <1>1, <1>2 DEF Fetched, Inv, Types
  <1> QED BY <1>2, <1>3, <1>4

LEMMA FetchedIsGiven ==
    ASSUME NEW c, NEW h, Fetched(h, c)
    PROVE  Given(h, c)
  BY DEF Fetched, Given, RecentEnough

\* A step of the proxy that ends in its own error.
LEMMA FailsInv ==
    ASSUME Inv, NEW c \in Clients, ForwardFails(c) \/ FetchFails(c)
    PROVE  Inv'
  <1>1. /\ ppc[c] \in {"connect", "wait"} /\ InternalError(c)
        /\ fromServer' = fromServer \/ fromServer' = [fromServer EXCEPT ![c] = <<>>]
        /\ UNCHANGED <<now, policy, cuts, cpc, born, answer, cache, request, response, up, crashes, spc, served,
                       toProxy, toServer>>
    BY DEF ForwardFails, FetchFails, clientVars, serverVars
  <1>2. PICK h \in Packet : Fetched(h, c) /\ toClient' = [toClient EXCEPT ![c] = <<h>>]
    BY <1>1, InternalErrorFacts
  <1>3. ppc' = [ppc EXCEPT ![c] = "again"]
    BY <1>1, InternalErrorFacts
  <1>4. Types'
    BY <1>1, <1>2, <1>3, OneFacts DEF Inv, Types, ProxyStates
  <1>5. Given(h, c)
    BY <1>2, FetchedIsGiven
  <1>6. ASSUME NEW d \in Clients PROVE Filled(d)'
    BY <1>1, <1>2, <1>3 DEF Inv, Types, Filled
  <1>7. ASSUME NEW d \in Clients PROVE Meaning(d)'
    BY <1>1, <1>2, <1>3, <1>5 DEF Inv, Types, Meaning, Fetched, Given, RecentEnough
  <1>8. CacheMeans'
    BY <1>1 DEF Inv, CacheMeans
  <1> QED BY <1>4, <1>6, <1>7, <1>8 DEF Inv

LEMMA FetchInv ==
    ASSUME Inv, NEW c \in Clients, Fetch(c)
    PROVE  Inv'
  <1>1. fromServer[c] # <<>> /\ fromServer[c][1] \in Packet
    BY OneFacts DEF Fetch, Inv, Types
  <1>2. PICK h \in Packet :
          /\ response' = [response EXCEPT ![c] = <<h>>]
          /\ h.data.of = fromServer[c][1].data.of /\ h.data.steps = fromServer[c][1].data.steps
          /\ h.stamp = fromServer[c][1].stamp
    <2>1. PICK n \in Lengths(fromServer[c][1], BUFFER_SIZE) :
            response' = [response EXCEPT ![c] = <<Unpack(fromServer[c][1], n)>>]
      BY DEF Fetch
    <2>2. cuts \in CutSets
      BY DEF Inv, Types
    <2> DEFINE h == Unpack(fromServer[c][1], n)
    <2>3. /\ h \in Packet
          /\ h.data.of = fromServer[c][1].data.of /\ h.data.steps = fromServer[c][1].data.steps
          /\ h.stamp = fromServer[c][1].stamp
      BY <1>1, <2>2, UnpackFacts, Numbers
    <2> HIDE DEF h
    <2> QED BY <2>1, <2>3 DEF h
  <1>3. /\ ppc[c] = "wait" /\ ppc' = [ppc EXCEPT ![c] = "weigh"]
        /\ fromServer' = [fromServer EXCEPT ![c] = <<>>]
        /\ UNCHANGED <<now, policy, cuts, cpc, born, answer, cache, request, up, crashes, spc, served,
                       toProxy, toServer, toClient>>
    BY DEF Fetch, Goto, clientVars, serverVars
  <1>4. Fetched(h, c)
    BY <1>1, <1>2 DEF Inv, Meaning, Fetched, IsAbout
  <1>5. Types'
    BY <1>2, <1>3, OneFacts DEF Inv, Types, ProxyStates
  <1>6. ASSUME NEW d \in Clients PROVE Filled(d)'
    BY <1>2, <1>3 DEF Inv, Types, Filled
  <1>7. ASSUME NEW d \in Clients PROVE Meaning(d)'
    BY <1>2, <1>3, <1>4 DEF Inv, Types, Meaning, Fetched, Given, RecentEnough
  <1>8. CacheMeans'
    BY <1>3 DEF Inv, CacheMeans
  <1> QED BY <1>5, <1>6, <1>7, <1>8 DEF Inv

LEMMA WeighInv ==
    ASSUME Inv, NEW c \in Clients, Weigh(c)
    PROVE  Inv'
  <1>1. /\ ppc[c] = "weigh"
        /\ UNCHANGED <<now, policy, cuts, cpc, born, answer, cache, request, response, up, crashes, spc, served,
                       toProxy, toServer, fromServer, toClient>>
    BY DEF Weigh, clientVars, serverVars, wires
  <1>2. PICK place \in {"store", "reply"} : ppc' = [ppc EXCEPT ![c] = place]
    BY DEF Weigh, Goto
  <1>3. Given(response[c][1], c)
    BY <1>1, FetchedIsGiven DEF Inv, Meaning
  <1>4. Types'
    BY <1>1, <1>2 DEF Inv, Types, ProxyStates
  <1>5. ASSUME NEW d \in Clients PROVE Filled(d)' /\ Meaning(d)'
    BY <1>1, <1>2, <1>3 DEF Inv, Types, Filled, Meaning, Fetched, Given, RecentEnough
  <1>6. CacheMeans'
    BY <1>1 DEF Inv, CacheMeans
  <1> QED BY <1>4, <1>5, <1>6 DEF Inv

\* The response is kept under the key of its own request.
LEMMA StoreInv ==
    ASSUME Inv, NEW c \in Clients, Store(c)
    PROVE  Inv'
  <1> DEFINE k == Key(request[c][1])
  <1>1. /\ ppc[c] = "store" /\ ppc' = [ppc EXCEPT ![c] = "reply"]
        /\ cache' = [x \in DOMAIN cache \cup {k} |-> IF x = k THEN response[c][1] ELSE cache[x]]
        /\ UNCHANGED <<now, policy, cuts, cpc, born, answer, request, response, up, crashes, spc, served,
                       toProxy, toServer, fromServer, toClient>>
    BY DEF Store, Goto, clientVars, serverVars, wires
  <1>2. request[c] # <<>> /\ response[c] # <<>> /\ request[c][1] \in Packet /\ response[c][1] \in Packet
    BY <1>1, OneFacts DEF Inv, Types, Filled
  <1>3. Fetched(response[c][1], c) /\ Given(response[c][1], c)
    BY <1>1, FetchedIsGiven DEF Inv, Meaning
  <1>4. k \in Keys /\ response[c][1].data.of = k.data.of /\ response[c][1].data.steps = k.steps
    BY <1>2, <1>3 DEF Key, Keys, Packet, Headers, Fetched, IsAbout
  <1> HIDE DEF k
  <1>5. DOMAIN cache' = DOMAIN cache \cup {k}
    BY <1>1
  <1>6. Types'
    <2>1. \A x \in DOMAIN cache' : cache'[x] \in Packet
      BY <1>1, <1>2, <1>5 DEF Inv, Types
    <2>2. DOMAIN cache' \subseteq Keys
      BY <1>4, <1>5 DEF Inv, Types
    <2> QED BY <1>1, <2>1, <2>2 DEF Inv, Types, ProxyStates
  <1>7. ASSUME NEW d \in Clients PROVE Filled(d)' /\ Meaning(d)'
    BY <1>1, <1>2, <1>3 DEF Inv, Types, Filled, Meaning, Fetched, Given, RecentEnough
  <1>8. CacheMeans'
    BY <1>1, <1>4, <1>5 DEF Inv, CacheMeans
  <1> QED BY <1>6, <1>7, <1>8 DEF Inv

LEMMA ReplyInv ==
    ASSUME Inv, NEW c \in Clients, Reply(c)
    PROVE  Inv'
  <1>1. /\ ppc[c] = "reply" /\ ppc' = [ppc EXCEPT ![c] = "closed"]
        /\ toClient' = [toClient EXCEPT ![c] = <<response[c][1]>>]
        /\ UNCHANGED <<now, policy, cuts, cpc, born, answer, cache, request, response, up, crashes, spc, served,
                       toProxy, toServer, fromServer>>
    BY DEF Reply, Goto, clientVars, serverVars
  <1>2. response[c] # <<>> /\ response[c][1] \in Packet /\ Given(response[c][1], c)
    BY <1>1, OneFacts DEF Inv, Types, Filled, Meaning
  <1>3. Types'
    BY <1>1, <1>2, OneFacts DEF Inv, Types, ProxyStates
  <1>4. ASSUME NEW d \in Clients PROVE Filled(d)' /\ Meaning(d)'
    BY <1>1, <1>2 DEF Inv, Types, Filled, Meaning, Fetched, Given, RecentEnough
  <1>5. CacheMeans'
    BY <1>1 DEF Inv, CacheMeans
  <1> QED BY <1>3, <1>4, <1>5 DEF Inv

LEMMA ThreadEndsInv ==
    ASSUME Inv, NEW c \in Clients, ThreadEnds(c)
    PROVE  Inv'
  <1>1. /\ ppc[c] = "again" /\ ppc' = [ppc EXCEPT ![c] = "closed"]
        /\ UNCHANGED <<now, policy, cuts, cpc, born, answer, cache, request, response, up, crashes, spc, served,
                       toProxy, toServer, fromServer, toClient>>
    BY DEF ThreadEnds, Goto, clientVars, serverVars, wires
  <1>2. Types'
    BY <1>1 DEF Inv, Types, ProxyStates
  <1>3. ASSUME NEW d \in Clients PROVE Filled(d)' /\ Meaning(d)'
    BY <1>1 DEF Inv, Types, Filled, Meaning, Fetched, Given, RecentEnough
  <1>4. CacheMeans'
    BY <1>1 DEF Inv, CacheMeans
  <1> QED BY <1>2, <1>3, <1>4 DEF Inv

\* ---- server.py

LEMMA ServerReceivesInv ==
    ASSUME Inv, NEW c \in Clients, ServerReceives(c)
    PROVE  Inv'
  <1>1. toServer[c] # <<>> /\ toServer[c][1] \in Packet
    BY OneFacts DEF ServerReceives, Inv, Types, Filled
  <1>2. PICK h \in Packet :
          /\ served' = [served EXCEPT ![c] = <<h>>]
          /\ h.data.of = toServer[c][1].data.of /\ h.steps = toServer[c][1].steps
    <2>1. PICK n \in Lengths(toServer[c][1], HANDLER_READ) :
            served' = [served EXCEPT ![c] = <<Unpack(toServer[c][1], n)>>]
      BY DEF ServerReceives
    <2>2. cuts \in CutSets
      BY DEF Inv, Types
    <2> DEFINE h == Unpack(toServer[c][1], n)
    <2>3. h \in Packet /\ h.data.of = toServer[c][1].data.of /\ h.steps = toServer[c][1].steps
      BY <1>1, <2>2, UnpackFacts, Numbers
    <2> HIDE DEF h
    <2> QED BY <2>1, <2>3 DEF h
  <1>3. /\ spc[c] = "recv" /\ spc' = [spc EXCEPT ![c] = "compute"]
        /\ toServer' = [toServer EXCEPT ![c] = <<>>]
        /\ UNCHANGED <<now, policy, cuts, cpc, born, answer, cache, ppc, request, response, up, crashes,
                       toProxy, fromServer, toClient>>
    BY DEF ServerReceives, Goto, clientVars, proxyVars
  <1>4. Types'
    BY <1>2, <1>3, OneFacts DEF Inv, Types, ServerStates
  <1>5. ASSUME NEW d \in Clients PROVE Filled(d)'
    BY <1>2, <1>3 DEF Inv, Types, Filled
  <1>6. ASSUME NEW d \in Clients PROVE Meaning(d)'
    BY <1>1, <1>2, <1>3 DEF Inv, Types, Meaning, IsOf, Fetched, Given, RecentEnough
  <1>7. CacheMeans'
    BY <1>3 DEF Inv, CacheMeans
  <1> QED BY <1>4, <1>5, <1>6, <1>7 DEF Inv

\* Whatever becomes of a request at the server, the response is about it and made now.
LEMMA ResponseFacts ==
    ASSUME Inv, NEW r \in Packet
    PROVE  LET h == IF Constructible(Processed(r).data) /\ Packs(Processed(r)) THEN Processed(r)
                    ELSE FromError(now, r, STATUS_SERVER_ERROR, policy.cache, policy.cc)
           IN  h \in Packet /\ h.stamp = now /\ IsAbout(h, r)
  <1>1. now \in Nat /\ policy.cache \in BOOLEAN /\ policy.cc \in 0..MAX_CACHE_CONTROL
    BY ProxyAssumption DEF Inv, Types
  <1>2. STATUS_CLIENT_ERROR \in Statuses /\ STATUS_SERVER_ERROR \in Statuses
    BY DEF Statuses
  <1> DEFINE error(status) == FromError(now, r, status, policy.cache, policy.cc)
             result == FromResult(now, r, policy.cache, policy.cc)
  <1>3. ASSUME NEW status \in Statuses
        PROVE  error(status) \in Packet /\ error(status).stamp = now /\ IsAbout(error(status), r)
    BY <1>1, ErrorFacts
  <1>4. Packs(result) => result \in Packet /\ result.stamp = now /\ IsAbout(result, r)
    BY <1>1, ResultFacts
  <1>5. Processed(r) \in {result, error(STATUS_CLIENT_ERROR)}
    BY DEF Processed
  <1> HIDE DEF error, result
  <1>6. Packs(Processed(r)) =>
            Processed(r) \in Packet /\ Processed(r).stamp = now /\ IsAbout(Processed(r), r)
    BY <1>2, <1>3, <1>4, <1>5
  <1>7. FromError(now, r, STATUS_SERVER_ERROR, policy.cache, policy.cc) = error(STATUS_SERVER_ERROR)
    BY DEF error
  <1> QED BY <1>2, <1>3, <1>6, <1>7

LEMMA ServerAnswersInv ==
    ASSUME Inv, NEW c \in Clients, ServerAnswers(c)
    PROVE  Inv'
  <1>1. /\ spc[c] = "compute" /\ spc' = [spc EXCEPT ![c] = "off"]
        /\ UNCHANGED <<now, policy, cuts, cpc, born, answer, cache, ppc, request, response, up, crashes, served,
                       toProxy, toServer, toClient>>
    BY DEF ServerAnswers, Goto, clientVars, proxyVars
  <1>2. served[c] # <<>> /\ served[c][1] \in Packet /\ IsOf(served[c][1], request[c][1])
    BY <1>1, OneFacts DEF Inv, Types, Filled, Meaning
  <1>3. PICK h \in Packet :
          h.stamp = now /\ IsAbout(h, served[c][1]) /\ fromServer' = [fromServer EXCEPT ![c] = <<h>>]
    BY <1>2, ResponseFacts DEF ServerAnswers
  <1>4. Fetched(h, c)
    BY <1>2, <1>3, ProxyAssumption DEF Inv, Types, Meaning, Fetched, IsAbout, IsOf
  <1>5. Types'
    BY <1>1, <1>3, OneFacts DEF Inv, Types, ServerStates
  <1>6. ASSUME NEW d \in Clients PROVE Filled(d)'
    BY <1>1, <1>3 DEF Inv, Types, Filled
  <1>7. ASSUME NEW d \in Clients PROVE Meaning(d)'
    BY <1>1, <1>3, <1>4 DEF Inv, Types, Meaning, IsOf, Fetched, Given, RecentEnough
  <1>8. CacheMeans'
    BY <1>1 DEF Inv, CacheMeans
  <1> QED BY <1>5, <1>6, <1>7, <1>8 DEF Inv

\* ---- the environment

LEMMA EnvironmentInv ==
    ASSUME Inv, ServerCrashes \/ ServerStarts \/ Tick
    PROVE  Inv'
  <1>1. CASE ServerCrashes
    <2>1. /\ up' = FALSE /\ crashes' \in 0..MaxCrashes
          /\ spc' = [c \in Clients |-> "off"] /\ toServer' = [c \in Clients |-> <<>>]
          /\ UNCHANGED <<now, policy, cuts, cpc, born, answer, cache, ppc, request, response, served,
                         toProxy, fromServer, toClient>>
      BY <1>1, ProxyAssumption DEF ServerCrashes, clientVars, proxyVars, Inv, Types
    <2>2. Types'
      BY <2>1, OneFacts DEF Inv, Types, ServerStates
    <2>3. ASSUME NEW d \in Clients PROVE Filled(d)' /\ Meaning(d)'
      BY <2>1 DEF Inv, Types, Filled, Meaning, IsOf, Fetched, Given, RecentEnough
    <2>4. CacheMeans'
      BY <2>1 DEF Inv, CacheMeans
    <2> QED BY <2>2, <2>3, <2>4 DEF Inv
  <1>2. CASE ServerStarts
    <2>1. /\ up' = TRUE
          /\ UNCHANGED <<now, policy, cuts, cpc, born, answer, cache, ppc, request, response, crashes, spc, served,
                         toProxy, toServer, fromServer, toClient>>
      BY <1>2 DEF ServerStarts, clientVars, proxyVars, wires
    <2> QED BY <2>1 DEF Inv, Types, Filled, Meaning, IsOf, Fetched, Given, RecentEnough, CacheMeans
  <1>3. CASE Tick
    <2>1. /\ now < MaxTime /\ now' = now + 1
          /\ UNCHANGED <<policy, cuts, cpc, born, answer, cache, ppc, request, response, up, crashes, spc, served,
                         toProxy, toServer, fromServer, toClient>>
      BY <1>3 DEF Tick, clientVars, proxyVars, serverVars, wires
    <2>2. now' \in 0..MaxTime /\ \A c \in Clients : born[c] \in Nat /\ born[c] <= now' /\ now \in Nat
      BY <2>1, ProxyAssumption DEF Inv, Types, Meaning
    <2>3. Types'
      BY <2>1, <2>2 DEF Inv, Types
    <2>4. ASSUME NEW d \in Clients PROVE Filled(d)' /\ Meaning(d)'
      BY <2>1, <2>2 DEF Inv, Filled, Meaning, IsOf, Fetched, Given, RecentEnough
    <2>5. CacheMeans'
      BY <2>1 DEF Inv, CacheMeans
    <2> QED BY <2>3, <2>4, <2>5 DEF Inv
  <1> QED BY <1>1, <1>2, <1>3

LEMMA StutterInv ==
    ASSUME Inv, UNCHANGED vars
    PROVE  Inv'
  BY DEF vars, clientVars, proxyVars, serverVars, wires,
         Inv, Types, Filled, Meaning, IsOf, Fetched, Given, RecentEnough, CacheMeans

LEMMA StepInv == Inv /\ [Next]_vars => Inv'
  <1> SUFFICES ASSUME Inv, [Next]_vars PROVE Inv'
    OBVIOUS
  <1>1. ASSUME NEW c \in Clients, ClientAsks(c) \/ ClientStep(c) PROVE Inv'
    BY <1>1, ClientAsksInv, ClientReceivesInv, ClientIsResetInv DEF ClientStep
  <1>2. ASSUME NEW c \in Clients, ProxyStep(c) PROVE Inv'
    BY <1>2, ProxyReceivesInv, LookUpInv, JudgeInv, ForwardInv, FailsInv, FetchInv, WeighInv, StoreInv, ReplyInv,
       ThreadEndsInv DEF ProxyStep
  <1>3. ASSUME NEW c \in Clients, ServerStep(c) PROVE Inv'
    BY <1>3, ServerReceivesInv, ServerAnswersInv DEF ServerStep
  <1>4. CASE ServerCrashes \/ ServerStarts \/ Tick
    BY <1>4, EnvironmentInv
  <1>5. CASE Rest \/ UNCHANGED vars
    BY <1>5, StutterInv DEF Rest
  <1> QED BY <1>1, <1>2, <1>3, <1>4, <1>5 DEF Next

THEOREM Invariant == Spec => []Inv
  <1> QED BY InitInv, StepInv, PTL DEF Spec

\* The variables of clients and threads hold what the code can put there, however packets
\* are cut: in particular every packet that is sent has a total length that fits its 16 bits.
THEOREM ProxyTypeCorrect == Spec => []TypeOK
  <1> QED BY Invariant, InvImplies, PTL

\* No client obtains the answer to another one's question, whatever races on the unlocked
\* cache, is cut by the network or lost with the server (the keys in process_request of proxy.py).
THEOREM OwnQuestionAnswered == Spec => []AnswersOwnQuestion
  <1> QED BY Invariant, InvImplies, PTL

\* An answer that was made before its client asked was then younger than the client's limit and
\* than the server's, and a client with a limit of 0 gets none of these (the two looks at the clock
\* in process_request of proxy.py).  How old an answer is that was made for the client is not
\* limited: after a slow fetch process_request returns it whatever its age.
THEOREM RecentlyAnswered == Spec => []AnswersAreRecent
  <1> QED BY Invariant, InvImplies, PTL

---------------------------------------------------------------------------
\* ---- how entries of the cache are replaced

\* The cache changes only where a thread stores its response.
LEMMA OnlyStoreChangesCache ==
    ASSUME [Next]_vars
    PROVE  UNCHANGED cache \/ \E c \in Clients : Store(c)
  <1>1. CASE UNCHANGED vars \/ Rest
    BY <1>1 DEF Rest, vars, proxyVars
  <1>2. ASSUME NEW c \in Clients, ClientAsks(c) \/ ClientStep(c) \/ ServerStep(c) PROVE UNCHANGED cache
    BY <1>2 DEF ClientAsks, ClientStep, ClientReceives, ClientIsReset, ServerStep, ServerReceives, ServerAnswers,
                proxyVars
  <1>3. ASSUME NEW c \in Clients, ProxyStep(c), ~Store(c) PROVE UNCHANGED cache
    BY <1>3 DEF ProxyStep, ProxyReceives, LookUp, Judge, Forward, ForwardFails, Fetch, FetchFails, Weigh, Reply,
                ThreadEnds
  <1>4. CASE ServerCrashes \/ ServerStarts \/ Tick
    BY <1>4 DEF ServerCrashes, ServerStarts, Tick, proxyVars
  <1> QED BY <1>1, <1>2, <1>3, <1>4 DEF Next

\* A response that is stored was made after its client asked, so an entry that is younger
\* than it was made after that as well.
LEMMA StoreAges ==
    ASSUME Inv, NEW c \in Clients, Store(c), NEW k \in DOMAIN cache, cache'[k].stamp < cache[k].stamp
    PROVE  ppc[c] = "store" /\ ppc'[c] = "reply" /\ born[c] < cache[k].stamp
  <1> DEFINE key == Key(request[c][1])
  <1>1. /\ ppc[c] = "store" /\ ppc' = [ppc EXCEPT ![c] = "reply"]
        /\ cache' = [x \in DOMAIN cache \cup {key} |-> IF x = key THEN response[c][1] ELSE cache[x]]
    BY DEF Store, Goto
  <1> HIDE DEF key
  <1>2. response[c] # <<>> /\ response[c][1] \in Packet /\ Fetched(response[c][1], c)
    BY <1>1, OneFacts DEF Inv, Types, Filled, Meaning
  <1>3. cache[k] \in Packet /\ born[c] \in 0..MaxTime
    BY DEF Inv, Types
  <1>4. born[c] \in Int /\ cache[k].stamp \in Int /\ response[c][1].stamp \in Int
    BY <1>2, <1>3 DEF Packet, Headers
  <1>5. cache'[k] = IF k = key THEN response[c][1] ELSE cache[k]
    BY <1>1
  <1>6. k = key
    <2>1. cache'[k] = cache[k] => FALSE
      BY <1>4
    <2> QED BY <1>5, <2>1
  <1>7. ppc'[c] = "reply"
    BY <1>1 DEF Inv, Types
  <1> QED BY <1>1, <1>2, <1>4, <1>5, <1>6, <1>7 DEF Fetched

\* However many threads race: an entry is replaced by an older one only by a thread whose client
\* had asked before the replaced entry was made (the assignment to cache[...] in proxy.py).
THEOREM CacheAges == Spec => CacheAgesOnlyInRaces
  <1> DEFINE Ages == \A k \in DOMAIN cache :
                         cache'[k].stamp < cache[k].stamp =>
                             \E c \in Clients :
                                 ppc[c] = "store" /\ ppc'[c] = "reply" /\ born[c] < cache[k].stamp
  <1>1. Inv /\ [Next]_vars => [Ages]_vars
    <2> SUFFICES ASSUME Inv, [Next]_vars PROVE Ages
      OBVIOUS
    <2>1. CASE UNCHANGED cache
      <3>1. \A k \in DOMAIN cache : cache[k].stamp \in Int
        BY DEF Inv, Types, Packet, Headers
      <3> QED BY <2>1, <3>1
    <2>2. ASSUME NEW c \in Clients, Store(c) PROVE Ages
      BY <2>2, StoreAges
    <2> QED BY <2>1, <2>2, OnlyStoreChangesCache
  <1>2. CacheAgesOnlyInRaces <=> [][Ages]_vars
    BY DEF CacheAgesOnlyInRaces
  <1> HIDE DEF Ages
  <1> QED BY <1>1, <1>2, Invariant, PTL DEF Spec

---------------------------------------------------------------------------
\* ---- what the cache holds serves everybody

\* A request that arrives whole, and a response that is the server's own about its question.
Question(h) == Loads(h.data) /\ TotalOf(h.data) <= HANDLER_READ
Due(h) ==
    /\ Loads(h.data) /\ TotalOf(h.data) <= BUFFER_SIZE
    /\ ~h.isRequest
    /\ h.cache => policy.cache
    /\ h.status = Deserved(h.data.of, h.data.steps)

\* Nothing on the way to the cache is cut, and nothing is stored that its maker would not have cached.
Serving(c) ==
    /\ toProxy[c] # <<>> => Question(toProxy[c][1])
    /\ request[c] # <<>> => Question(request[c][1])
    /\ toServer[c] # <<>> => Question(toServer[c][1])
    /\ served[c] # <<>> => Question(served[c][1])
    /\ fromServer[c] # <<>> => Due(fromServer[c][1])
    /\ response[c] # <<>> => Due(response[c][1])
    /\ ppc[c] = "store" => response[c][1].cache

ServingInv ==
    /\ \A k \in DOMAIN cache : Due(cache[k]) /\ cache[k].cache
    /\ \A c \in Clients : Serving(c)

\* The network cuts no packet, and the handlers read every request that may be asked whole.
Whole ==
    /\ \A cs \in CutSets : cs = {}
    /\ \A r \in Requests : HEADER_MIN_LENGTH + ExprLen[r.of] <= HANDLER_READ

\* A packet that fits the read is received as it was sent.
LEMMA UnpackWhole ==
    ASSUME Whole, cuts \in CutSets, NEW h \in Packet, NEW limit \in Nat, TotalOf(h.data) <= limit,
           NEW n \in Lengths(h, limit)
    PROVE  LET g == Unpack(h, n)
           IN  /\ g.data = h.data /\ g.status = h.status /\ g.isRequest = h.isRequest
               /\ g.cache => h.cache
  <1>1. h.data \in Data /\ h.data.len \in Nat
    BY DEF Packet, Headers, Data
  <1>2. HEADER_MIN_LENGTH + h.data.len \in Nat /\ HEADER_MIN_LENGTH + h.data.len <= limit
    BY <1>1, Numbers DEF TotalOf
  <1>3. n = HEADER_MIN_LENGTH + h.data.len
    <2>1. cuts = {}
      BY DEF Whole
    <2>2. Smaller(HEADER_MIN_LENGTH + h.data.len, limit) = HEADER_MIN_LENGTH + h.data.len
      BY <1>2 DEF Smaller
    <2> QED BY <2>1, <2>2 DEF Lengths
  <1>4. n - HEADER_MIN_LENGTH = h.data.len
    BY <1>1, <1>3, Numbers
  <1>5. [h.data EXCEPT !.len = n - HEADER_MIN_LENGTH] = h.data
    BY <1>1, <1>4 DEF Data
  <1> QED BY <1>5 DEF Unpack, Header

LEMMA UnpackQuestion ==
    ASSUME Whole, Inv, NEW h \in Packet, Question(h), NEW n \in Lengths(h, HANDLER_READ)
    PROVE  Question(Unpack(h, n))
  <1>1. cuts \in CutSets
    BY DEF Inv, Types
  <1>2. Unpack(h, n).data = h.data
    BY <1>1, UnpackWhole, Numbers DEF Question
  <1> QED BY <1>2 DEF Question

LEMMA UnpackDue ==
    ASSUME Whole, Inv, NEW h \in Packet, Due(h), NEW n \in Lengths(h, BUFFER_SIZE)
    PROVE  Due(Unpack(h, n))
  <1>1. cuts \in CutSets
    BY DEF Inv, Types
  <1> DEFINE g == Unpack(h, n)
  <1>2. g.data = h.data /\ g.status = h.status /\ g.isRequest = h.isRequest /\ (g.cache => h.cache)
    BY <1>1, UnpackWhole, Numbers DEF Due
  <1> HIDE DEF g
  <1>3. Due(g)
    BY <1>2 DEF Due
  <1> QED BY <1>3 DEF g

\* A pickle that was just made loads.
LEMMA PickleLoads ==
    ASSUME NEW kind \in {"expr", "result", "error"}, NEW e \in Exprs, NEW steps \in BOOLEAN
    PROVE  Loads(Pickle(kind, e, steps))
  BY DEF Loads, Pickle, FullLen

LEMMA AskedQuestion ==
    ASSUME Whole, NEW t, NEW r \in Requests
    PROVE  Question(FromExpression(t, r.of, r.steps, r.cache, r.cc))
  <1> DEFINE data == Pickle("expr", r.of, FALSE)
  <1>1. r.of \in Exprs
    BY ProxyAssumption
  <1>2. Loads(data)
    BY <1>1, PickleLoads
  <1>3. data.len = ExprLen[r.of]
    BY DEF Pickle, FullLen
  <1>4. FromExpression(t, r.of, r.steps, r.cache, r.cc).data = data
    BY DEF FromExpression, Header
  <1> HIDE DEF data
  <1>5. TotalOf(data) <= HANDLER_READ
    BY <1>3 DEF Whole, TotalOf
  <1> QED BY <1>2, <1>4, <1>5 DEF Question

\* Errors load, and their length is that of an exception.
LEMMA ErrorIs ==
    ASSUME NEW r \in Packet, NEW status, NEW cached \in BOOLEAN, NEW cc
    PROVE  LET h == FromError(now, r, status, cached, cc)
           IN  /\ Loads(h.data) /\ TotalOf(h.data) <= HEADER_MAX_LENGTH /\ ~h.isRequest
               /\ h.cache => cached
               /\ h.status = status /\ h.data.of = r.data.of /\ h.data.steps = r.steps
               /\ h.data.len = ErrorLen /\ h.total = TotalOf(h.data)
  <1> DEFINE data == Pickle("error", r.data.of, r.steps)
  <1>1. r.data.of \in Exprs /\ r.steps \in BOOLEAN
    BY DEF Packet, Headers, Data
  <1>2. Loads(data) /\ data.len = ErrorLen /\ data.of = r.data.of /\ data.steps = r.steps
    BY <1>1, PickleFacts, PickleLoads
  <1> HIDE DEF data
  <1>3. TotalOf(data) <= HEADER_MAX_LENGTH
    BY <1>2, Numbers DEF TotalOf
  <1> QED BY <1>2, <1>3 DEF FromError, Header, data

LEMMA ResultIs ==
    ASSUME NEW r \in Packet, NEW cached \in BOOLEAN, NEW cc
    PROVE  LET h == FromResult(now, r, cached, cc)
           IN  /\ Loads(h.data) /\ ~h.isRequest
               /\ h.cache => cached
               /\ h.status = STATUS_OK /\ h.data.of = r.data.of /\ h.data.steps = r.steps
               /\ h.data = Pickle("result", r.data.of, r.steps) /\ h.total = TotalOf(h.data)
  <1> DEFINE data == Pickle("result", r.data.of, r.steps)
  <1>1. r.data.of \in Exprs /\ r.steps \in BOOLEAN
    BY DEF Packet, Headers, Data
  <1>2. Loads(data) /\ data.of = r.data.of /\ data.steps = r.steps
    BY <1>1, PickleFacts, PickleLoads
  <1> HIDE DEF data
  <1> QED BY <1>2 DEF FromResult, Header, data

\* A question that arrives whole gets the response it deserves.
LEMMA ResponseDue ==
    ASSUME Inv, NEW r \in Packet, Question(r)
    PROVE  Due(IF Constructible(Processed(r).data) /\ Packs(Processed(r)) THEN Processed(r)
               ELSE FromError(now, r, STATUS_SERVER_ERROR, policy.cache, policy.cc))
  <1> DEFINE client == FromError(now, r, STATUS_CLIENT_ERROR, policy.cache, policy.cc)
             server == FromError(now, r, STATUS_SERVER_ERROR, policy.cache, policy.cc)
             result == FromResult(now, r, policy.cache, policy.cc)
             answer1 == Pickle("result", r.data.of, r.steps)
  <1>1. policy.cache \in BOOLEAN /\ r.data.of \in Exprs /\ r.steps \in BOOLEAN /\ Loads(r.data)
    BY ProxyAssumption DEF Inv, Types, Packet, Headers, Data, Question
  <1>2. /\ Loads(client.data) /\ TotalOf(client.data) <= HEADER_MAX_LENGTH /\ ~client.isRequest
        /\ client.cache => policy.cache
        /\ client.status = STATUS_CLIENT_ERROR /\ client.data.of = r.data.of /\ client.data.steps = r.steps
        /\ client.data.len = ErrorLen /\ client.total = TotalOf(client.data)
    BY <1>1, ErrorIs
  <1>3. /\ Loads(server.data) /\ TotalOf(server.data) <= HEADER_MAX_LENGTH /\ ~server.isRequest
        /\ server.cache => policy.cache
        /\ server.status = STATUS_SERVER_ERROR /\ server.data.of = r.data.of /\ server.data.steps = r.steps
    BY <1>1, ErrorIs
  <1>4. /\ Loads(result.data) /\ ~result.isRequest
        /\ result.cache => policy.cache
        /\ result.status = STATUS_OK /\ result.data.of = r.data.of /\ result.data.steps = r.steps
        /\ result.data = answer1 /\ result.total = TotalOf(result.data)
    BY <1>1, ResultIs
  <1>5. answer1 \in Data /\ answer1.len \in Nat
    BY <1>1, PickleFacts DEF Data
  <1>6. Processed(r) = IF r.data.of \in Failing THEN client ELSE result
    BY <1>1 DEF Processed
  <1>7. HEADER_MAX_LENGTH <= BUFFER_SIZE
    BY SMT DEF HEADER_MAX_LENGTH, BUFFER_SIZE
  <1> HIDE DEF client, server, result, answer1
  <1>8. CASE r.data.of \in Failing
    <2>1. Constructible(client.data) /\ Packs(client)
      BY <1>2, ErrorAssumption, HeaderAssumption, SMT
         DEF Constructible, Packs, TotalOf, HEADER_MIN_LENGTH, HEADER_MAX_LENGTH, HEADER_MAX_DATA_LENGTH
    <2>2. Deserved(r.data.of, r.steps) = STATUS_CLIENT_ERROR
      BY <1>8 DEF Deserved
    <2>3. TotalOf(client.data) \in Nat
      BY <1>2, HeaderAssumption, Numbers DEF TotalOf
    <2>4. Due(client)
      BY <1>2, <1>7, <2>2, <2>3, Numbers DEF Due
    <2> QED BY <1>6, <1>8, <2>1, <2>4
  <1>9. CASE r.data.of \notin Failing
    <2>1. (Constructible(result.data) /\ Packs(result)) <=> TotalOf(answer1) <= 65535
      BY <1>4, <1>5, SMT
         DEF Constructible, Packs, TotalOf, HEADER_MIN_LENGTH, HEADER_MAX_LENGTH, HEADER_MAX_DATA_LENGTH
    <2>2. CASE TotalOf(answer1) <= 65535
      <3>1. ~(TotalOf(answer1) > 65535) /\ TotalOf(answer1) <= BUFFER_SIZE
        BY <1>5, <2>2, SMT DEF TotalOf, HEADER_MIN_LENGTH, BUFFER_SIZE
      <3>2. Deserved(r.data.of, r.steps) = STATUS_OK
        BY <1>9, <3>1 DEF Deserved, answer1
      <3>3. Due(result)
        BY <1>4, <3>1, <3>2 DEF Due
      <3> QED BY <1>6, <1>9, <2>1, <2>2, <3>3
    <2>3. CASE ~(TotalOf(answer1) <= 65535)
      <3>1. TotalOf(answer1) > 65535
        BY <1>5, <2>3, SMT DEF TotalOf, HEADER_MIN_LENGTH
      <3>2. Deserved(r.data.of, r.steps) = STATUS_SERVER_ERROR
        BY <1>9, <3>1 DEF Deserved, answer1
      <3>3. TotalOf(server.data) \in Int
        <4>1. server.data.len = ErrorLen
          BY <1>1, ErrorIs DEF server
        <4> QED BY <4>1, HeaderAssumption, Numbers DEF TotalOf
      <3>4. Due(server)
        BY <1>3, <1>7, <3>2, <3>3, Numbers DEF Due
      <3> QED BY <1>6, <1>9, <2>1, <2>3, <3>4 DEF server
    <2> QED BY <2>2, <2>3
  <1> QED BY <1>8, <1>9

\* Steps that touch nothing of this.
LEMMA ServingKept ==
    ASSUME ServingInv, UNCHANGED <<policy, cache, toProxy, request, served, response>>,
           \A c \in Clients : toServer'[c] = toServer[c] \/ toServer'[c] = <<>>,
           \A c \in Clients : fromServer'[c] = fromServer[c] \/ fromServer'[c] = <<>>,
           \A c \in Clients : ppc'[c] = "store" => ppc[c] = "store" \/ response[c][1].cache
    PROVE  ServingInv'
  <1>1. \A h : Due(h)' <=> Due(h)
    BY DEF Due
  <1>2. \A c \in Clients : Serving(c)'
    BY <1>1 DEF ServingInv, Serving
  <1> QED BY <1>1, <1>2 DEF ServingInv

LEMMA QuietSteps ==
    ASSUME Inv, ServingInv,
           \/ UNCHANGED vars \/ Rest \/ ServerCrashes \/ ServerStarts \/ Tick
           \/ \E c \in Clients : \/ ClientStep(c) \/ Judge(c) \/ ForwardFails(c) \/ FetchFails(c)
                                 \/ Weigh(c) \/ Reply(c) \/ ThreadEnds(c)
    PROVE  ServingInv'
  <1> USE DEF clientVars, proxyVars, serverVars, wires, Goto, Inv, Types
  <1>1. CASE UNCHANGED vars \/ Rest \/ ServerCrashes \/ ServerStarts \/ Tick
    <2>1. /\ UNCHANGED <<policy, cache, toProxy, request, served, response, fromServer, ppc>>
          /\ \A c \in Clients : toServer'[c] = toServer[c] \/ toServer'[c] = <<>>
      BY <1>1 DEF vars, Rest, ServerCrashes, ServerStarts, Tick
    <2> QED BY <2>1, ServingKept
  <1>2. ASSUME NEW c \in Clients,
               \/ ClientStep(c) \/ Judge(c) \/ ForwardFails(c) \/ FetchFails(c)
               \/ Weigh(c) \/ Reply(c) \/ ThreadEnds(c)
        PROVE  ServingInv'
    <2>1. /\ UNCHANGED <<policy, cache, toProxy, request, served, response, toServer>>
          /\ \A d \in Clients : fromServer'[d] = fromServer[d] \/ fromServer'[d] = <<>>
      BY <1>2 DEF ClientStep, ClientReceives, ClientIsReset, Judge, ForwardFails, FetchFails, Weigh, Reply, ThreadEnds
    <2>2. \A d \in Clients : ppc'[d] = "store" => ppc[d] = "store" \/ response[d][1].cache
      BY <1>2 DEF ClientStep, ClientReceives, ClientIsReset, Judge, ForwardFails, FetchFails, InternalError, Weigh,
                  Reply, ThreadEnds
    <2> QED BY <2>1, <2>2, ServingKept
  <1> QED BY <1>1, <1>2

\* Steps that hand a request on.
LEMMA QuestionSteps ==
    ASSUME Whole, Inv, ServingInv, NEW c \in Clients,
           ClientAsks(c) \/ ProxyReceives(c) \/ Forward(c) \/ ServerReceives(c)
    PROVE  ServingInv'
  <1>1. UNCHANGED <<policy, cache, fromServer, response>>
        /\ \A d \in Clients : ppc'[d] = "store" => ppc[d] = "store"
    BY DEF ClientAsks, ProxyReceives, Forward, ServerReceives, clientVars, proxyVars, serverVars, Goto, Inv, Types
  <1>2. \A h : Due(h)' <=> Due(h)
    BY <1>1 DEF Due
  <1>3. ASSUME NEW d \in Clients
        PROVE  /\ toProxy'[d] # <<>> => Question(toProxy'[d][1])
               /\ request'[d] # <<>> => Question(request'[d][1])
               /\ toServer'[d] # <<>> => Question(toServer'[d][1])
               /\ served'[d] # <<>> => Question(served'[d][1])
    <2>1. CASE ClientAsks(c)
      <3>1. UNCHANGED <<request, toServer, served>>
        BY <2>1 DEF ClientAsks, serverVars
      <3>2. \/ UNCHANGED toProxy
            \/ \E r \in Requests :
                   toProxy' = [toProxy EXCEPT ![c] = <<FromExpression(now, r.of, r.steps, r.cache, r.cc)>>]
        BY <2>1 DEF ClientAsks
      <3>3. \/ UNCHANGED toProxy
            \/ \E h : Question(h) /\ toProxy' = [toProxy EXCEPT ![c] = <<h>>]
        BY <3>2, AskedQuestion
      <3> QED BY <3>1, <3>3 DEF ServingInv, Serving, Inv, Types
    <2>2. CASE ProxyReceives(c)
      <3>1. UNCHANGED <<toServer, served>> /\ toProxy' = [toProxy EXCEPT ![c] = <<>>]
            /\ toProxy[c] # <<>> /\ toProxy[c][1] \in Packet
        BY <2>2, OneFacts DEF ProxyReceives, serverVars, Inv, Types
      <3>2. \E h : Question(h) /\ request' = [request EXCEPT ![c] = <<h>>]
        <4>1. Question(toProxy[c][1])
          BY <3>1 DEF ServingInv, Serving
        <4>2. \A n \in Lengths(toProxy[c][1], HANDLER_READ) : Question(Unpack(toProxy[c][1], n))
          BY <3>1, <4>1, UnpackQuestion
        <4> QED BY <2>2, <4>2 DEF ProxyReceives
      <3> QED BY <3>1, <3>2 DEF ServingInv, Serving, Inv, Types
    <2>3. CASE Forward(c)
      <3>1. /\ UNCHANGED <<toProxy, request, served>> /\ request[c] # <<>>
            /\ toServer' = [toServer EXCEPT ![c] = <<request[c][1]>>]
        BY <2>3 DEF Forward, Inv, Filled
      <3> QED BY <3>1 DEF ServingInv, Serving, Inv, Types
    <2>4. CASE ServerReceives(c)
      <3>1. UNCHANGED <<toProxy, request>> /\ toServer' = [toServer EXCEPT ![c] = <<>>]
            /\ toServer[c] # <<>> /\ toServer[c][1] \in Packet
        BY <2>4, OneFacts DEF ServerReceives, proxyVars, Inv, Types, Filled
      <3>2. \E h : Question(h) /\ served' = [served EXCEPT ![c] = <<h>>]
        <4>1. Question(toServer[c][1])
          BY <3>1 DEF ServingInv, Serving
        <4>2. \A n \in Lengths(toServer[c][1], HANDLER_READ) : Question(Unpack(toServer[c][1], n))
          BY <3>1, <4>1, UnpackQuestion
        <4> QED BY <2>4, <4>2 DEF ServerReceives
      <3> QED BY <3>1, <3>2 DEF ServingInv, Serving, Inv, Types
    <2> QED BY <2>1, <2>2, <2>3, <2>4
  <1>4. \A d \in Clients : Serving(d)'
    BY <1>1, <1>2, <1>3 DEF ServingInv, Serving, Question
  <1> QED BY <1>1, <1>2, <1>4 DEF ServingInv

\* Steps that hand a response on.
LEMMA ResponseSteps ==
    ASSUME Whole, Inv, ServingInv, NEW c \in Clients,
           LookUp(c) \/ Fetch(c) \/ ServerAnswers(c)
    PROVE  ServingInv'
  <1>1. /\ UNCHANGED <<policy, cache, toProxy, request, toServer, served>>
        /\ \A d \in Clients : ppc'[d] = "store" => ppc[d] = "store" /\ response'[d] = response[d]
    BY DEF LookUp, Fetch, ServerAnswers, clientVars, proxyVars, serverVars, wires, Goto, Inv, Types
  <1>2. \A h : Due(h)' <=> Due(h)
    BY <1>1 DEF Due
  <1>3. ASSUME NEW d \in Clients
        PROVE  /\ fromServer'[d] # <<>> => Due(fromServer'[d][1])
               /\ response'[d] # <<>> => Due(response'[d][1])
    <2>1. CASE LookUp(c)
      <3>1. UNCHANGED fromServer
        BY <2>1 DEF LookUp, wires
      <3>2. UNCHANGED response \/ \E h : Due(h) /\ response' = [response EXCEPT ![c] = <<h>>]
        BY <2>1 DEF LookUp, ServingInv
      <3> QED BY <3>1, <3>2 DEF ServingInv, Serving, Inv, Types
    <2>2. CASE Fetch(c)
      <3>1. fromServer' = [fromServer EXCEPT ![c] = <<>>] /\ fromServer[c] # <<>> /\ fromServer[c][1] \in Packet
        BY <2>2, OneFacts DEF Fetch, Inv, Types
      <3>2. \E h : Due(h) /\ response' = [response EXCEPT ![c] = <<h>>]
        <4>1. Due(fromServer[c][1])
          BY <3>1 DEF ServingInv, Serving
        <4>2. \A n \in Lengths(fromServer[c][1], BUFFER_SIZE) : Due(Unpack(fromServer[c][1], n))
          BY <3>1, <4>1, UnpackDue
        <4> QED BY <2>2, <4>2 DEF Fetch
      <3> QED BY <3>1, <3>2 DEF ServingInv, Serving, Inv, Types
    <2>3. CASE ServerAnswers(c)
      <3>1. UNCHANGED response /\ served[c] # <<>> /\ served[c][1] \in Packet
        BY <2>3, OneFacts DEF ServerAnswers, proxyVars, Inv, Types, Filled
      <3>2. Question(served[c][1])
        BY <3>1 DEF ServingInv, Serving
      <3>3. \E h : Due(h) /\ fromServer' = [fromServer EXCEPT ![c] = <<h>>]
        BY <2>3, <3>1, <3>2, ResponseDue DEF ServerAnswers
      <3> QED BY <3>1, <3>3 DEF ServingInv, Serving, Inv, Types
    <2> QED BY <2>1, <2>2, <2>3
  <1>4. \A d \in Clients : Serving(d)'
    BY <1>1, <1>2, <1>3 DEF ServingInv, Serving, Question
  <1> QED BY <1>1, <1>2, <1>4 DEF ServingInv

LEMMA StoreServes ==
    ASSUME Inv, ServingInv, NEW c \in Clients, Store(c)
    PROVE  ServingInv'
  <1> DEFINE key == Key(request[c][1])
  <1>1. /\ ppc[c] = "store" /\ response[c] # <<>>
        /\ cache' = [x \in DOMAIN cache \cup {key} |-> IF x = key THEN response[c][1] ELSE cache[x]]
        /\ UNCHANGED <<policy, toProxy, request, toServer, served, fromServer, response>>
        /\ \A d \in Clients : ppc'[d] = "store" => ppc[d] = "store"
    BY DEF Store, Goto, serverVars, wires, Inv, Types, Filled
  <1> HIDE DEF key
  <1>2. \A h : Due(h)' <=> Due(h)
    BY <1>1 DEF Due
  <1>3. Due(response[c][1]) /\ response[c][1].cache
    BY <1>1 DEF ServingInv, Serving
  <1>4. \A k \in DOMAIN cache' : cache'[k] = response[c][1] \/ (k \in DOMAIN cache /\ cache'[k] = cache[k])
    BY <1>1
  <1>5. \A d \in Clients : Serving(d)'
    BY <1>1, <1>2 DEF ServingInv, Serving, Question
  <1> QED BY <1>2, <1>3, <1>4, <1>5 DEF ServingInv

\* While no packet is cut or too long for one read, what the cache holds serves every client that
\* may ask for it, whoever filled it, in whatever order, across crashes of the server
\* (process_request in proxy.py and in server.py).
THEOREM CacheAlwaysServes == ASSUME Whole PROVE Spec => []CacheServes
  <1>1. Init => ServingInv
    BY DEF Init, ServingInv, Serving
  <1>2. Inv /\ ServingInv /\ [Next]_vars => ServingInv'
    <2> SUFFICES ASSUME Inv, ServingInv, [Next]_vars PROVE ServingInv'
      OBVIOUS
    <2>1. ASSUME NEW c \in Clients, ClientAsks(c) \/ ClientStep(c) \/ ProxyStep(c) \/ ServerStep(c)
          PROVE  ServingInv'
      BY <2>1, QuietSteps, QuestionSteps, ResponseSteps, StoreServes DEF ProxyStep, ServerStep
    <2> QED BY <2>1, QuietSteps DEF Next
  <1>3. Inv /\ ServingInv => CacheServes
    BY DEF Inv, CacheMeans, ServingInv, Due, CacheServes
  <1> QED BY <1>1, <1>2, <1>3, Invariant, PTL DEF Spec
================================================================================
