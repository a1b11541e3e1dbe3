----------------------------- MODULE MCCalculation -----------------------------
(* Instances of Calculation for TLC.                                          *)
EXTENDS CalculationTexts

MCLeaves == {Constant(Typed("1")), Constant(Zero), NamedConstant("e", Typed("2"))}
MCOperators == [binary |-> {"/", "**"}, unary |-> {"-"}, functions |-> {"f"}]

\* A smaller language in which expressions may be deeper.
MCTextLeaves == {Constant(Typed("1"))}
MCTextOperators == [binary |-> {"+"}, unary |-> {"-"}, functions |-> {}]

MCNames == {"0", "1", "2", "e", "f", "/", "**", "+", "-"}
MCPolicies == {[cache |-> TRUE, cc |-> 65535], [cache |-> TRUE, cc |-> 0]}
================================================================================
