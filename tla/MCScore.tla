------------------------------ MODULE MCScore -------------------------------
(* Score for TLC: two programs whose names grep takes for one another, a   *)
(* blank between them, and the papers that may be handed in.               *)
EXTENDS Score

CONSTANT none   \* model value: no file

Source(error, warnings, prints, ends) ==
  [error |-> error, warnings |-> warnings, prints |-> prints, ends |-> ends]
Blank(tree, semicolon, legal) == [tree |-> tree, semicolon |-> semicolon, legal |-> legal]

Hello == <<"h", "i">>
Right == Source(FALSE, 0, <<"H", " ", "i">>, TRUE)
Warned == Source(FALSE, 2, Hello, TRUE)
Broken == Source(TRUE, 1, <<>>, TRUE)
Endless == Source(FALSE, 0, Hello, FALSE)
Wrong == Source(FALSE, 0, <<"h">>, TRUE)
Longer == Source(FALSE, 0, <<"h", "i", "i">>, TRUE)

Sum == Blank("a+b", TRUE, TRUE)
Bare == Blank("a+b", FALSE, TRUE)
Garbled == Blank("a+b", TRUE, FALSE)

(* Questions 1 and 11 are programs, 2 is a blank.                          *)
Paper(one, two, eleven) == (1 :> one) @@ (2 :> two) @@ (11 :> eleven)

AllPapers ==
  { <<Paper(Right, Sum, Endless), Paper(Endless, Bare, Right)>>,
    <<Paper(Warned, none, Wrong), Paper(Right, Garbled, Right)>>,
    <<Paper(Longer, Sum, Broken), Paper(none, Sum, Warned)>> }

Solved ==
  (1 :> Source(FALSE, 0, Hello, TRUE)) @@ (11 :> Source(FALSE, 0, Hello, TRUE))
    @@ (2 :> <<Blank("b", FALSE, TRUE), Sum, Blank("empty", FALSE, TRUE), Bare>>)

GrepAlike == (1 :> {1, 11}) @@ (11 :> {11})
Letters == ("H" :> "h")
=============================================================================
