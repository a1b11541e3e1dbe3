--------------------------- MODULE CalculatorHeader ---------------------------
(***************************************************************************)
(* Assignment-2/api.py: the packets of the calculator protocol.  A packet  *)
(* is a header and the pickle of an expression, a result or an exception;  *)
(* of the pickle only its subject and its length in bytes are kept.        *)
(***************************************************************************)
EXTENDS Integers

CONSTANTS
    Exprs,      \* the expressions clients ask for
    Failing,    \* those whose evaluation raises an exception
    Constants,  \* those that are a constant, whose calculation has no steps
    ExprLen,    \* length of an expression's pickle
    ResultLen,  \* length of the pickle of its result and steps
    ErrorLen    \* length of an exception's pickle

ASSUME HeaderAssumption ==
    /\ Failing \subseteq Exprs
    /\ Constants \subseteq Exprs
    /\ ExprLen \in [Exprs -> Nat]
    /\ ResultLen \in [Exprs \X BOOLEAN -> Nat]
    /\ ErrorLen \in Nat

BUFFER_SIZE == 65536
HEADER_MIN_LENGTH == 12
HEADER_MAX_LENGTH == 65536
HEADER_MAX_DATA_LENGTH == HEADER_MAX_LENGTH - HEADER_MIN_LENGTH
MAX_CACHE_CONTROL == 65535

STATUS_OK == 200
STATUS_CLIENT_ERROR == 400
STATUS_SERVER_ERROR == 500

\* The handlers pack an error outside their try: the pickles of the exceptions they catch are short.
ASSUME ErrorAssumption == HEADER_MIN_LENGTH + ErrorLen <= 65535

\* What a pickle is about: an expression, or the answer to a request for it with
\* or without steps.
Data == [kind : {"expr", "result", "error"}, of : Exprs, steps : BOOLEAN, len : Nat]

FullLen(d) ==
    CASE d.kind = "expr"   -> ExprLen[d.of]
      [] d.kind = "result" -> ResultLen[d.of, d.steps]
      [] d.kind = "error"  -> ErrorLen

Pickle(kind, e, steps) ==
    LET d == [kind |-> kind, of |-> e, steps |-> steps, len |-> 0]
    IN  [d EXCEPT !.len = FullLen(d)]

\* pickle.loads raises an exception unless all bytes are there.
Loads(d) == d.len = FullLen(d)

Headers ==
    [stamp : Nat, total : HEADER_MIN_LENGTH..HEADER_MAX_LENGTH, cache : BOOLEAN, steps : BOOLEAN,
     isRequest : BOOLEAN, status : {0, STATUS_OK, STATUS_CLIENT_ERROR, STATUS_SERVER_ERROR},
     cc : 0..MAX_CACHE_CONTROL, data : Data]

\* CalculatorHeader(...): the cache control is dropped without the flag, and the
\* flag of a response without a cache control.
Header(stamp, total, cache, steps, isRequest, status, cc, data) ==
    [stamp |-> stamp, total |-> total,
     cache |-> cache /\ (isRequest \/ cc # 0),
     steps |-> steps, isRequest |-> isRequest, status |-> status,
     cc    |-> IF cache THEN cc ELSE 0,
     data  |-> data]

\* The lengths for which the constructor raises no ValueError.
Constructible(data) == data.len <= HEADER_MAX_DATA_LENGTH

\* struct.pack writes total_length as 16 bits and raises an error beyond.
Packs(h) == h.total <= 65535

\* The total_length of a new packet.
TotalOf(data) == HEADER_MIN_LENGTH + data.len

\* from_expression / from_request.
FromExpression(now, e, steps, cache, cc) ==
    LET data == Pickle("expr", e, FALSE)
    IN  Header(now, TotalOf(data), cache, steps, TRUE, 0, cc, data)

\* from_result, the result of request and the steps to it.
FromResult(now, request, cache, cc) ==
    LET data == Pickle("result", request.data.of, request.steps)
        steps == request.steps /\ request.data.of \notin Constants
    IN  Header(now, TotalOf(data), cache, steps, FALSE, STATUS_OK, cc, data)

\* from_error, an exception that concerns request.
FromError(now, request, status, cache, cc) ==
    LET data == Pickle("error", request.data.of, request.steps)
    IN  Header(now, TotalOf(data), cache, FALSE, FALSE, status, cc, data)

\* unpack of the n bytes that recv() returned of packet h: the constructor runs
\* on the fields as they were packed, the data are what is there.
Unpack(h, n) ==
    Header(h.stamp, h.total, h.cache, h.steps, h.isRequest, h.status, h.cc,
           [h.data EXCEPT !.len = n - HEADER_MIN_LENGTH])
===============================================================================
