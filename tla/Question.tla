------------------------------- MODULE Question -------------------------------
(***************************************************************************)
(* Assignment-2: the way of one question, from the expression a client has *)
(* built (client.py) through the packets (api.py) and the server's handler *)
(* (server.py) to what the client prints.  Who else asks at the same time  *)
(* and what a cache in between does is the subject of CalculatorProxy;     *)
(* what expressions are and how they are evaluated, of Calculation.        *)
(***************************************************************************)
EXTENDS PacketFormat

CONSTANTS
    Evaluate(_),  \* calculate() of an expression: [value, steps]
    Exception,    \* the value of an expression whose evaluation raises an exception
    Text(_),      \* stringify() of a step
    Policies,     \* CACHE_POLICY and CACHE_CONTROL of server.py: [cache, cc]
    Limits,       \* the cache controls of clients
    Now,          \* int(time.time()): struct.pack has 32 bits for it
    PickleLen     \* length of the data

ASSUME QuestionAssumption ==
    /\ Policies \subseteq [cache : BOOLEAN, cc : UInt16]
    /\ Limits \subseteq UInt16
    /\ Now \in Nat /\ Now \div 65536 \in UInt16
    /\ PickleLen \in Nat /\ PickleLen <= 65523

VARIABLES
    place,      \* where the question is
    expr,       \* the expression
    sent,       \* the header of the client's request
    request,    \* the request on its way: [head, data]
    made,       \* the header of the server's response
    response,   \* the response on its way: [head, data]
    printed     \* what the client prints: [status, value, lines]

vars == <<place, expr, sent, request, made, response, printed>>

None == <<>>

\* The client has an expression of some kind.
QuestionInit ==
    /\ place = "build"
    /\ sent = None /\ request = None
    /\ made = None /\ response = None
    /\ printed = None

\* It makes another one of it; which one is not said here.
ClientBuildsOn ==
    /\ place = "build"
    /\ UNCHANGED <<place, sent, request, made, response, printed>>

\* Mutant: "for ever" is one more than the field can hold.
NewHeaderForEver(steps, isRequest, status, cache, cc) ==
    Constructed([stamp |-> Now, total |-> 12 + PickleLen, reserved |-> 0, cache |-> cache,
                 steps |-> steps, isRequest |-> isRequest, status |-> status,
                 cc |-> IF cc = 65535 THEN 65536 ELSE cc])

\* A new packet: the length of its data is added to that of the header.
NewHeader(steps, isRequest, status, cache, cc) ==
    Constructed([stamp |-> Now, total |-> 12 + PickleLen, reserved |-> 0, cache |-> cache,
                 steps |-> steps, isRequest |-> isRequest, status |-> status, cc |-> cc])

\* client(): from_expression, pack and sendall.
ClientAsks ==
    /\ place = "build"
    /\ \E steps, cache \in BOOLEAN, cc \in Limits :
           sent' = NewHeader(steps, TRUE, 0, cache, cc)
    /\ request' = [head |-> Pack(sent'), data |-> expr]
    /\ place' = "asked"
    /\ UNCHANGED <<expr, made, response, printed>>

\* process_request: a packet that is no request and an exception in the evaluation are client
\* errors; the steps are put into the answer if they are wanted.
Fails(asked, e) == ~asked.isRequest \/ Evaluate(e).value = Exception

Shown(asked, e) ==
    IF asked.steps THEN [i \in DOMAIN Evaluate(e).steps |-> Text(Evaluate(e).steps[i])] ELSE <<>>

\* unpack, process_request and pack: the flag of the answer tells if it has any steps.
ServerAnswers ==
    /\ place = "asked"
    /\ \E policy \in Policies :
        LET asked == Unpack(request.head)
            texts == Shown(asked, request.data)
            fails == Fails(asked, request.data)
        IN  /\ made' = IF fails THEN NewHeader(FALSE, FALSE, 400, policy.cache, policy.cc)
                       ELSE NewHeader(texts # <<>>, FALSE, 200, policy.cache, policy.cc)
            /\ response' = [head |-> Pack(made'),
                            data |-> IF fails THEN None
                                     ELSE [value |-> Evaluate(request.data).value, steps |-> texts]]
    /\ place' = "answered"
    /\ UNCHANGED <<expr, sent, request, printed>>

\* unpack and process_response: a result is printed with its steps, the first one in front of
\* an equals sign that the second follows; anything else is raised as an exception.
ClientPrints ==
    /\ place = "answered"
    /\ LET answer == Unpack(response.head)
           good   == ~answer.isRequest /\ answer.status = 200
       IN  printed' =
             [status |-> IF answer.isRequest THEN 0 ELSE answer.status,
              value  |-> IF good THEN response.data.value ELSE Exception,
              lines  |-> IF good THEN response.data.steps ELSE <<>>]
    /\ place' = "printed"
    /\ UNCHANGED <<expr, sent, request, made, response>>

\* The client's run is over.
Rest == place = "printed" /\ UNCHANGED vars

QuestionNext == ClientAsks \/ ServerAnswers \/ ClientPrints \/ Rest

\* A question about any expression, under any evaluation.
QuestionSpec == QuestionInit /\ [][ClientBuildsOn \/ QuestionNext]_vars

---------------------------------------------------------------------------
QuestionTypeOK ==
    /\ place \in {"build", "asked", "answered", "printed"}
    /\ place # "build" => sent \in Fields /\ request.head \in [1..12 -> 0..255]
    /\ place \in {"answered", "printed"} => made \in Fields /\ response.head \in [1..12 -> 0..255]
    /\ place = "printed" => printed.status \in {200, 400}

\* What the other side unpacks is what was packed, whatever the flags and the cache
\* control, and the constructor that unpack() calls changes nothing any more (api.py).
PacketsSurvive ==
    /\ place # "build" => Unpack(request.head) = sent
    /\ place \in {"answered", "printed"} => Unpack(response.head) = made

\* The client prints the value of its expression, with the texts of its steps if it wanted
\* them, and an error exactly if the evaluation raises an exception: no flag, status or
\* length is taken for another one between process_request() and process_response().
PrintsTheAnswer ==
    place = "printed" =>
        LET done == Evaluate(expr)
        IN  /\ printed.value = done.value
            /\ printed.status = IF done.value = Exception THEN 400 ELSE 200
            /\ printed.lines =
                   IF sent.steps /\ done.value # Exception
                   THEN [i \in DOMAIN done.steps |-> Text(done.steps[i])] ELSE <<>>
================================================================================
