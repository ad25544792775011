------------------------------- MODULE MCShell ------------------------------
(* Shell for TLC: pipelines, how they are typed, and short inputs.         *)
EXTENDS Shell

e == <<"e">>
c == <<"c">>
x == <<"x">>
long == [j \in 1 .. 17 |-> "x"]
wild == <<"*">>
EchoName == e
CatName == c

(* One command, and one with a word that fills three slots; two and three; *)
(* one that writes more than a pipe holds; one that does not exist, alone  *)
(* and in front of a bar; a last command of two words.                     *)
Pipelines ==
  {<< <<e, x>> >>, << <<e, long>> >>, << <<c>> >>, << <<x>> >>, << <<e, c, x>>, <<c>> >>,
   << <<e, x>>, <<c>>, <<c>> >>, << <<e, x, c, x>>, <<c>> >>, << <<x>>, <<c>> >>,
   << <<c>>, <<e, c>> >>}

Joined(words, sep) == FoldLeft(LAMBDA t, w : t \o sep \o w, Head(words), Tail(words))
Typed(m) == Joined([j \in DOMAIN m |-> Joined(m[j], <<" ">>)], <<" ", "|", " ">>)
Meant == [t \in {Typed(m) : m \in Pipelines} |-> CHOOSE m \in Pipelines : Typed(m) = t]

(* Bars without blanks around them, in front and behind; an empty line.    *)
Odd == {<<"e", " ", "x", "|", "c">>, <<"|", " ", "c">>, <<"e", " ", "x", " ", "|">>, <<>>}

Whole(text) == [text |-> text, newline |-> TRUE]
Lines == {Whole(t) : t \in DOMAIN Meant \cup Odd}
Broken == {[l EXCEPT !.newline = FALSE] : l \in Lines \ {Whole(<<>>)}}

UpToThree ==
  {<<l>> : l \in Lines \cup Broken}
    \cup {<<l1, l2>> : l1 \in Lines, l2 \in Lines \cup Broken}
    \cup {<<l1, l2, l3>> : l1, l2, l3 \in Lines}
=============================================================================
