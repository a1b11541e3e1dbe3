--------------------------- MODULE MCCalculatorProxy ---------------------------
(* Instances of CalculatorProxy for TLC.                                      *)
EXTENDS CalculatorProxy, TLC

CONSTANTS sum, zeroDivision, long, wide, c1, c2, c3

\* A request for "long" does not fit one read of either handler; the answer to
\* "wide" is one byte too long for the 16 bits of total_length.
MCExprLen == [e \in Exprs |-> IF e = long THEN 9000 ELSE 300]
MCResultLen == [q \in Exprs \X BOOLEAN |-> IF q[1] = wide THEN 65524 ELSE IF q[2] THEN 500 ELSE 60]

Ask(e, steps, caching, cc) == [of |-> e, steps |-> steps, cache |-> caching, cc |-> cc]

\* Clients that accept a cached answer of any age, one of this second, or none.
MCRequests ==
    {Ask(sum, TRUE, TRUE, MAX_CACHE_CONTROL), Ask(sum, TRUE, TRUE, 1),
     Ask(sum, FALSE, TRUE, MAX_CACHE_CONTROL), Ask(sum, TRUE, FALSE, MAX_CACHE_CONTROL),
     Ask(zeroDivision, TRUE, TRUE, MAX_CACHE_CONTROL), Ask(wide, TRUE, TRUE, MAX_CACHE_CONTROL)}

MCLongRequests ==
    {Ask(sum, TRUE, FALSE, MAX_CACHE_CONTROL), Ask(zeroDivision, TRUE, TRUE, MAX_CACHE_CONTROL),
     Ask(long, TRUE, TRUE, 1), Ask(wide, TRUE, TRUE, 1)}

\* The policy server.py comes with, and one of short-lived responses.
MCDeployed == {[cache |-> TRUE, cc |-> MAX_CACHE_CONTROL]}
MCPolicies == MCDeployed \cup {[cache |-> TRUE, cc |-> 1]}

MCWhole == {{}}
MCCut == {{}, {40}}

Symmetric == Permutations(Clients)
================================================================================
