------------------------------- MODULE MCBlank ------------------------------
(* BlankScore for TLC: all expressions of up to three operands over a few  *)
(* operators, with and without brackets, and some larger ones, each        *)
(* written with and without blanks.                                        *)
EXTENDS BlankScore, TLC

Ops == {"+", "-", "<", ">", "=="}
Pairs == {<<"a", "b">>, <<"b", "a">>, <<"a", "a">>}
Triples == {<<"a", "b", "c">>, <<"c", "b", "a">>, <<"a", "a", "b">>}

Two == {<<x[1], o, x[2]>> : x \in Pairs, o \in Ops}
Three ==
  UNION {{<<x[1], o, x[2], p, x[3]>>, <<"(", x[1], o, x[2], ")", p, x[3]>>,
          <<x[1], o, "(", x[2], p, x[3], ")">>} : x \in Triples, o \in Ops, p \in Ops}

(* Calls, signs and stars in front of names, steps, members, more levels   *)
(* of precedence, merged brackets.                                         *)
More ==
  {<<"f", "(", "a", ",", "b", ")">>, <<"f", "(", "b", ",", "a", ")">>, <<"(", "a", ")">>,
   <<"f", "(", "&a", ",", "*b", ")">>, <<"*a", "=", "b", "*", "-c">>, <<"a", "=", "&b", "==", "c++">>,
   <<"++a", "+", "b->c">>, <<"b->c", "+", "++a">>, <<"a", "-", "-b">>, <<"a.b", "<", "c">>,
   <<"(", "a", "=", "f", "(", "&b", ")", ")", "==", "-c">>,
   <<"a", "*", "(", "b", "+", "c", ")", "-", "d">>, <<"a", "*", "(", "b", "+", "(", "c", "-", "d", ")", ")">>,
   <<"a", "+", "(", "b", "+", "c", ")", "-", "d">>,
   <<"a", "&&", "(", "b", "&&", "c", ")", "||", "d">>, <<"a", "*", "b", "+", "c", "-", "d">>,
   <<"a", "+", "b", "*", "c", "+", "d">>, <<"d", "+", "c", "*", "b", "+", "a">>,
   <<"(", "a", "+", "b", ")", "+", "(", "c", "+", "d", ")">>,
   <<"a", "&&", "b", "||", "c", "&&", "d">>, <<"d", "&&", "c", "||", "b", "&&", "a">>,
   <<"a", "-", "b", "==", "c", "+", "d">>, <<"d", "+", "c", "==", "a", "-", "b">>,
   <<"a", "==", "b", "||", "c", "==", "d">>, <<"d", "==", "c", "||", "b", "==", "a">>,
   <<"a", "==", "b", "||", "c", "-", "d">>, <<"c", "-", "d", "||", "b", "==", "a">>,
   <<"a", "<", "b", "||", "c", "-", "d">>, <<"c", "-", "d", "||", "a", "<", "b">>}

Symbols(token) ==
  CASE token = "==" -> <<"=", "=">> [] token = "&&" -> <<"&", "&">> [] token = "||" -> <<"|", "|">>
    [] token = "&a" -> <<"&", "a">> [] token = "&b" -> <<"&", "b">>
    [] token = "*a" -> <<"*", "a">> [] token = "*b" -> <<"*", "b">>
    [] token = "-b" -> <<"-", "b">> [] token = "-c" -> <<"-", "c">>
    [] token = "++a" -> <<"+", "+", "a">> [] token = "c++" -> <<"c", "+", "+">>
    [] token = "b->c" -> <<"b", "-", ">", "c">> [] token = "a.b" -> <<"a", ".", "b">>
    [] OTHER -> <<token>>

Loose(tokens) == FlattenSeq([j \in DOMAIN tokens |-> Symbols(tokens[j]) \o <<" ">>])
(* Without blanks, but where they keep two signs apart.                    *)
Tight(tokens) ==
  IF tokens \in {<<"a", "-", "-b">>, <<"b->c", "+", "++a">>} THEN Loose(tokens) ELSE FlattenSeq([j \in DOMAIN tokens |-> Symbols(tokens[j])])
Ended(tokens) == Append(Loose(tokens), ";")

Expressions == {<<"a">>, <<"b">>} \cup Two \cup Three \cup More
Meanings ==
  LET shorter == Two \cup More IN
  [text \in {Tight(x) : x \in Expressions} \cup {Loose(x) : x \in shorter} \cup {Ended(x) : x \in Two} |->
     CHOOSE x \in Expressions : text \in {Tight(x), Loose(x), Ended(x)}]

(* Nothing, a bracket missing or astray, two words, one and three stars at *)
(* the end, an operator in front, nothing in brackets.                     *)
Odd == {<<>>, <<" ">>, <<"(", "a">>, <<")", "a", "(">>, <<"a", " ", "b">>, <<"a", "*">>,
        <<"a", "*", "*", "*">>, <<"&", "&", "a">>, <<"a", "-", "(", ")">>, <<"f", "(", ",", "a", ")">>}

Students == DOMAIN Meanings \cup Odd
Answers == {Tight(x) : x \in Expressions} \cup {<<"a", "*">>, <<"a", "*", "*", "*">>, <<"&", "&", "a">>}
OneOrTwo ==
  {<<x>> : x \in Answers}
    \cup {<<Tight(x), y>> : x \in Two, y \in {<<"a">>} \cup {Ended(z) : z \in Two}}
=============================================================================
