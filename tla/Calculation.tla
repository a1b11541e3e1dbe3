------------------------------ MODULE Calculation ------------------------------
(***************************************************************************)
(* Assignment-2: a question with the expressions of calculator.py, built   *)
(* by a client step by step, and their evaluation by calculate().  TLC     *)
(* gives Evaluate, Exception and Text of Question the definitions          *)
(* Calculate and Raised of Expressions and Stringify of Texts.             *)
(***************************************************************************)
EXTENDS Expressions, Question

CONSTANTS
    Leaves,      \* the constants an expression may be built from
    Operators    \* the binary operators, signs and functions used

ASSUME CalculationAssumption ==
    /\ Leaves \subseteq Constants
    /\ Operators.binary \subseteq LeftAssociative \cup RightAssociative
    /\ Operators.binary \cup Operators.unary \cup Operators.functions \subseteq Names

Init == expr \in Leaves /\ QuestionInit

\* The client applies an operator or a function to what it has built, to constants
\* and to what it has built once more.
ClientBuilds ==
    /\ ClientBuildsOn
    /\ \/ \E op \in Operators.binary, leaf \in Leaves :
             expr' \in {Build(op, <<expr, leaf>>), Build(op, <<leaf, expr>>), Build(op, <<expr, expr>>),
                        Build(op, <<leaf, expr, leaf>>)}
       \/ \E op \in Operators.unary : expr' = UnaryExpr(op, expr)
       \/ \E f \in Operators.functions, leaf \in Leaves :
             expr' \in {FunctionCallExpr(f, <<expr>>), FunctionCallExpr(f, <<leaf, expr>>)}
    /\ expr' \in Expr

Next == ClientBuilds \/ QuestionNext

Spec == Init /\ [][Next]_vars

---------------------------------------------------------------------------
Steps == Calculate(expr).steps

TypeOK == QuestionTypeOK /\ expr \in Expr

\* calculate() finds the value of the expression, or that there is none, and each of its
\* steps has that value, which is the last one: operands keep their places, and none is
\* evaluated twice or forgotten.
StepsKeepValue ==
    /\ Calculate(expr).value = Eval[expr]
    /\ Eval[expr] # Raised =>
          /\ \A i \in DOMAIN Steps : Eval[Steps[i]] = Eval[expr]
          /\ Steps # <<>> => Last(Steps) = Constant(Eval[expr])

\* calculate() shows the application of one operator or function at a time, from the whole
\* expression to its value; an expression has no steps or at least the two lines that
\* process_response() of client.py takes apart.
OneApplicationPerStep ==
    /\ Len(Steps) = IF Size[expr] = 0 THEN 0 ELSE Size[expr] + 1
    /\ \A i \in DOMAIN Steps : Size[Steps[i]] = Size[expr] + 1 - i
================================================================================
