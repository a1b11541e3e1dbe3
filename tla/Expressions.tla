------------------------------ MODULE Expressions ------------------------------
(***************************************************************************)
(* Assignment-2/calculator.py and calculate() of server.py: expressions    *)
(* and the steps of their evaluation; their texts are in module Texts.     *)
(* A number is named by how it was computed, so that two numbers are equal *)
(* only if the same functions were applied to the same operands; besides,  *)
(* it has a sign.                                                          *)
(***************************************************************************)
EXTENDS Integers, FiniteSetsExt, SequencesExt

CONSTANTS
    Names,      \* the symbols of operators, the names of functions and constants, the digits
    MaxDepth    \* bound: depth of the expressions

\* What else the names of computed numbers are made of.
Marks == {"(", ")", "exception"}

ASSUME ExpressionsAssumption == Names \cap Marks = {} /\ MaxDepth \in Nat

\* ---- numbers

Number == [name : Seq(Names \cup Marks), sign : {-1, 0, 1}]

Typed(digit) == [name |-> <<digit>>, sign |-> IF digit = "0" THEN 0 ELSE 1]
Zero == Typed("0")
Raised == [name |-> <<"exception">>, sign |-> 0]   \* in the place of what a function did not return

Signum(n) == IF n = 0 THEN 0 ELSE IF n < 0 THEN -1 ELSE 1

\* The sign of what is computed from numbers of these signs; where it depends on their sizes
\* or on what a function computes, one of the signs it may have.
SignOf(op, s) ==
    CASE Len(s) = 2 /\ op \in {"*", "/"} -> s[1] * s[2]
      [] Len(s) = 2 /\ op = "%"  -> IF s[1] = 0 THEN 0 ELSE s[2]
      [] Len(s) = 2 /\ op = "+"  -> Signum(s[1] + s[2])
      [] Len(s) = 2 /\ op = "-"  -> Signum(s[1] - s[2])
      [] Len(s) = 2 /\ op = "**" -> IF s[2] = 0 THEN 1 ELSE s[1]
      [] Len(s) = 1 /\ op = "+"  -> s[1]
      [] Len(s) = 1 /\ op = "-"  -> -s[1]
      [] OTHER -> 1

\* The functions of BINARY_OPERATORS, UNARY_OPERATORS and FUNCTIONS: a division by zero and a
\* power of zero may raise ZeroDivisionError, and an exception ends the whole evaluation.
Divisions == {"/", "%"}
Powers == {"**", "pow"}
ZeroDivision(op, s) ==
    /\ Len(s) = 2
    /\ \/ op \in Divisions /\ s[2] = 0
       \/ op \in Powers /\ s[1] = 0 /\ s[2] = -1
Apply(op, numbers) ==
    LET signs == [i \in DOMAIN numbers |-> numbers[i].sign]
        names == [i \in DOMAIN numbers |-> numbers[i].name]
    IN  IF Contains(numbers, Raised) \/ ZeroDivision(op, signs) THEN Raised
        ELSE [name |-> <<op, "(">> \o FlattenSeq(names) \o <<")">>, sign |-> SignOf(op, signs)]

\* ---- expressions

Constant(number) == [kind |-> "constant", value |-> number]
NamedConstant(name, number) == [kind |-> "named", name |-> name, value |-> number]
BinaryExpr(left, op, right) == [kind |-> "binary", op |-> op, args |-> <<left, right>>]
UnaryExpr(op, operand) == [kind |-> "unary", op |-> op, args |-> <<operand>>]
FunctionCallExpr(function, args) == [kind |-> "call", op |-> function, args |-> args]

IsConstant(e) == e.kind \in {"constant", "named"}

Constants == [kind : {"constant"}, value : Number] \cup [kind : {"named"}, name : Names, value : Number]

\* The expressions whose operands are in S.
Over(S) == [kind : {"binary"}, op : Names, args : [1..2 -> S]]
           \cup [kind : {"unary"}, op : Names, args : [1..1 -> S]]
           \cup [kind : {"call"}, op : Names, args : Seq(S)]

\* All expressions up to a depth.
UpToDepth[n \in 0..MaxDepth] ==
    IF n = 0 THEN Constants ELSE Constants \cup Over(UpToDepth[n - 1])
Expr == UpToDepth[MaxDepth]

\* BINARY_OPERATORS and their associativity.
LeftAssociative == {"+", "-", "*", "/", "%"}
RightAssociative == {"**"}

\* BinaryOperator.__call__ of two operands or more.
Build(op, operands) ==
    IF op \in RightAssociative
    THEN FoldRight(LAMBDA left, right : BinaryExpr(left, op, right), Front(operands), Last(operands))
    ELSE FoldLeft(LAMBDA left, right : BinaryExpr(left, op, right), Head(operands), Tail(operands))

---------------------------------------------------------------------------
\* ---- calculate()

\* steps[:-1]
AllButLast(s) == SubSeq(s, 1, Len(s) - 1)

\* Mutants: the operands before the one in progress are shown as they were written; a
\* step of any operand is shown in the place of the first one.
BesideOriginals(e, values, i, step) ==
    [e EXCEPT !.args = SubSeq(e.args, 1, i - 1) \o <<step>> \o SubSeq(e.args, i + 1, Len(e.args))]
BesideInFront(e, values, i, step) ==
    [e EXCEPT !.args = <<step>> \o SubSeq(values, 1, i - 1) \o SubSeq(e.args, i + 1, Len(e.args))]

\* A step of the i-th operand beside the values of the operands before it and the
\* expressions after it.
Beside(e, values, i, step) ==
    [e EXCEPT !.args = SubSeq(values, 1, i - 1) \o <<step>> \o SubSeq(e.args, i + 1, Len(e.args))]

\* What becomes of an expression whose operands are calculated, from left to right: each
\* step of an operand, its last excepted, is a step of the whole; then come the application
\* to values and its result.
Combined(e, of) ==
    LET values == [i \in DOMAIN e.args |-> Constant(of[i].value)]
        within == [i \in DOMAIN e.args |->
                      LET shown == AllButLast(of[i].steps)
                      IN  [j \in DOMAIN shown |-> Beside(e, values, i, shown[j])]]
        result == Apply(e.op, [i \in DOMAIN e.args |-> of[i].value])
    IN  [value |-> result,
         steps |-> FlattenSeq(within) \o <<[e EXCEPT !.args = values], Constant(result)>>]

Calculated[e \in Expr] ==
    IF IsConstant(e) THEN [value |-> e.value, steps |-> <<>>]
    ELSE Combined(e, [i \in DOMAIN e.args |-> Calculated[e.args[i]]])
Calculate(e) == Calculated[e]

---------------------------------------------------------------------------
\* ---- what steps should be

\* The value of an expression.
Eval[e \in Expr] ==
    IF IsConstant(e) THEN e.value ELSE Apply(e.op, [i \in DOMAIN e.args |-> Eval[e.args[i]]])

\* The sums of the first numbers of a sequence.
Sums(s) ==
    LET sum[i \in 0..Len(s)] == IF i = 0 THEN 0 ELSE sum[i - 1] + s[i] IN sum

\* How many applications an expression has.
Size[e \in Expr] ==
    IF IsConstant(e) THEN 0
    ELSE LET sizes == [i \in DOMAIN e.args |-> Size[e.args[i]]] IN 1 + Sums(sizes)[Len(sizes)]
================================================================================
