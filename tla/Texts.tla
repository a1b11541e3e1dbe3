--------------------------------- MODULE Texts ---------------------------------
(***************************************************************************)
(* Assignment-2/calculator.py: the texts of expressions, as the client     *)
(* prints them, and what a text says to its reader.  A text is a sequence  *)
(* of characters.                                                          *)
(***************************************************************************)
EXTENDS Expressions

\* str() of a number; one that was computed has other digits than those typed, and its sign
\* in front.
Digits(number) ==
    CASE Len(number.name) = 1 -> number.name
      [] number.sign = 0      -> <<"0">>
      [] number.sign = 1      -> <<"9">>
      [] number.sign = -1     -> <<"-", "9">>

Brackets(text) == <<"(">> \o text \o <<")">>
Infix(op) == <<" ", op, " ">>

RECURSIVE Joined(_)
Joined(texts) ==
    IF Len(texts) < 2 THEN FlattenSeq(texts)
    ELSE texts[1] \o <<",", " ">> \o Joined(Tail(texts))

\* __str_brackets__: every binary expression and every operand of a unary one is
\* put into brackets.
RECURSIVE StrBrackets(_)
StrBrackets(e) ==
    CASE e.kind = "constant" -> Digits(e.value)
      [] e.kind = "named"  -> <<e.name>>
      [] e.kind = "binary" -> Brackets(StrBrackets(e.args[1]) \o Infix(e.op) \o StrBrackets(e.args[2]))
      [] e.kind = "unary"  -> <<e.op>> \o Brackets(StrBrackets(e.args[1]))
      [] e.kind = "call"   -> <<e.op>> \o Brackets(Joined([i \in DOMAIN e.args |-> StrBrackets(e.args[i])]))

\* s[a:b] of Python, whose indices begin with 0 and may lie behind the end.
Slice(s, a, b) == SubSeq(s, a + 1, IF b < Len(s) THEN b ELSE Len(s))

\* matchings: the pairs of brackets, in the order in which they close.
Matchings(text) ==
    LET Bracket(found, i) ==
            CASE text[i] = "(" -> [found EXCEPT !.stack = Append(@, i - 1)]
              [] text[i] = ")" -> [stack |-> Front(found.stack),
                                   pairs |-> Append(found.pairs, <<Last(found.stack), i - 1>>)]
              [] OTHER -> found
    IN  FoldLeft(Bracket, [stack |-> <<>>, pairs |-> <<>>], [i \in DOMAIN text |-> i]).pairs

\* Mutant: a pair that opens directly inside another one.
DoubledAtTheLeft(pairs) ==
    SelectSeq(pairs, LAMBDA p : \E q \in ToSet(pairs) : q[1] = p[1] + 1)

\* The pairs with another one directly inside.
Doubled(pairs) ==
    SelectSeq(pairs, LAMBDA p : \E q \in ToSet(pairs) : q = <<p[1] + 1, p[2] - 1>>)

\* The outer pair of two is cut out of the text; the pairs keep the positions
\* they had before.
RemoveDoubled(text, pairs) ==
    FoldLeft(LAMBDA t, p : Slice(t, 0, p[1]) \o Slice(t, p[1] + 1, p[2] - 1) \o Slice(t, p[2], Len(t)),
             text, Doubled(pairs))

\* stringify(e, add_brackets=True).
Stringify(e) ==
    LET full  == StrBrackets(e)
        pairs == Matchings(full)
        text  == RemoveDoubled(full, pairs)
    IN  IF <<0, Len(text) - 1>> \in ToSet(pairs) THEN Slice(text, 1, Len(text) - 1) ELSE text

---------------------------------------------------------------------------
\* ---- what texts should say

\* What a text says to Python.  Every infix operator is applied to atoms, to calls, to what stands
\* in brackets or to what has a sign in front, so the one precedence needed is that of a sign: it
\* binds tighter than the infix operators behind it, except that -a ** b is -(a ** b).  A text
\* with two infix operators outside of brackets is unreadable.
Signs == {"+", "-"}
Says(op, args) == [op |-> op, args |-> args]
Unreadable == Says("?", <<>>)

\* In how many brackets a character stands, its own included.
Opened(t, i) == Cardinality({j \in 1..i : t[j] = "("})
Closed(t, i) == Cardinality({j \in 1..i : t[j] = ")"})
Nesting(t, i) == Opened(t, i) - Closed(t, i - 1)
Balanced(t)  == Opened(t, Len(t)) = Closed(t, Len(t)) /\ \A i \in DOMAIN t : Opened(t, i) >= Closed(t, i)
Outside(t)   == {i \in DOMAIN t : Nesting(t, i) = 0}
Inside(t)    == SubSeq(t, 2, Len(t) - 1)

RECURSIVE Read(_), ReadList(_)
ReadList(t) ==
    LET commas == {i \in Outside(t) : t[i] = ","}
    IN  IF commas = {} THEN <<Read(t)>>
        ELSE LET i == Min(commas)
             IN  <<Read(SubSeq(t, 1, i - 1))>> \o ReadList(SubSeq(t, i + 2, Len(t)))
Read(t) ==
    LET infixes == {i \in Outside(t) : i + 2 \in DOMAIN t /\ t[i] = " " /\ t[i + 2] = " "}
    IN  CASE t = <<>> \/ ~Balanced(t) \/ Cardinality(infixes) > 1 -> Unreadable
          [] t[1] \in Signs /\ \A i \in infixes : t[i + 1] = "**" -> Says(t[1], <<Read(Tail(t))>>)
          [] Cardinality(infixes) = 1 ->
                 LET i == Min(infixes)
                 IN  Says(t[i + 1], <<Read(SubSeq(t, 1, i - 1)), Read(SubSeq(t, i + 3, Len(t)))>>)
          [] Outside(t) = {}   -> Read(Inside(t))
          [] Len(t) = 1        -> Says(t[1], <<>>)
          [] Outside(t) = {1}  -> Says(t[1], ReadList(Inside(Tail(t))))
          [] OTHER             -> Unreadable

RECURSIVE Shape(_)
Shape(e) ==
    CASE e.kind = "constant" -> IF e.value.sign = -1 THEN Says("-", <<Says(Digits(e.value)[2], <<>>)>>)
                                ELSE Says(Digits(e.value)[1], <<>>)
      [] e.kind = "named"    -> Says(e.name, <<>>)
      [] OTHER               -> Says(e.op, [i \in DOMAIN e.args |-> Shape(e.args[i])])

Means(text, e) == Read(text) = Shape(e)
================================================================================
