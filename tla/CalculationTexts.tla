--------------------------- MODULE CalculationTexts ---------------------------
(***************************************************************************)
(* The texts of the steps of Calculation, as the client prints them.       *)
(***************************************************************************)
EXTENDS Calculation, Texts

\* A power of something that is printed with a sign in front, which __str_brackets__ of
\* BinaryExpr puts no brackets around: (-(1)) ** 1 becomes -(1) ** 1.
RECURSIVE HasSignedBase(_)
HasSignedBase(e) ==
    ~IsConstant(e) /\ (\/ e.kind = "binary" /\ e.op = "**" /\ StrBrackets(e.args[1])[1] \in Signs
                      \/ \E i \in DOMAIN e.args : HasSignedBase(e.args[i]))

\* Stringify() leaves a text that means the step if no more than one pair of brackets of
\* it stands directly inside another (the loop of stringify() in calculator.py), and if no sign
\* is in front of a power.
TextsWithOneDoubleAreRight ==
    place = "printed" =>
        \A i \in DOMAIN printed.lines :
            /\ Len(Doubled(Matchings(StrBrackets(Steps[i])))) <= 1
            /\ ~HasSignedBase(Steps[i])
            => Means(printed.lines[i], Steps[i])

\* Each line the client prints means its step: stringify() only removes brackets that are
\* not needed ("Remove unnecessary brackets", calculator.py:314).
TextsMeanTheirSteps ==
    place = "printed" => \A i \in DOMAIN printed.lines : Means(printed.lines[i], Steps[i])
================================================================================
