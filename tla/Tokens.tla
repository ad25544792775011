------------------------------- MODULE Tokens -------------------------------
(***************************************************************************)
(* ssu_score/blank.c, make_tokens: the text of an answer is cut into       *)
(* tokens.  A text is a sequence of symbols: a name or a number is one     *)
(* symbol, every other character is one.  A token is a sequence of them.   *)
(*                                                                         *)
(* s is [at, tok, row, state]: the place in the text (start), the tokens,  *)
(* the row that is being filled, and "go", "done", "false", "fault",       *)
(* "overrun" or "hang".                                                    *)
(* Row -1 is in front of the array; what is written there is lost.  Texts  *)
(* have no names of types, gcc, #include and -lpthread, which have rules   *)
(* of their own.                                                           *)
(***************************************************************************)
EXTENDS Integers, SequencesExt

Op == {"(", ")", ",", ";", ">", "<", "=", "!", "|", "&", "^", "/", "+", "-", "*", "\""}

(* Symbols that end in a letter or a digit.  "]" stands for a name that    *)
(* does not, like argv[1].                                                 *)
is_character(c) == c \notin Op \cup {"", " ", ".", "%", "]"}

Sign == {"+", "-"}
TwoCharacters ==
  {<<"=", "=">>, <<"!", "=">>, <<"<", "=">>, <<">", "=">>, <<"|", "|">>, <<"&", "&">>, <<"&", "=">>,
   <<"^", "=">>, <<"|", "=">>, <<"+", "=">>, <<"-", "=">>, <<"*", "=">>, <<"/", "=">>}

Char(t, i) == IF i \in DOMAIN t THEN t[i] ELSE ""
Row(s, r) == IF r + 1 \in DOMAIN s.tok THEN s.tok[r + 1] ELSE <<>>
End(token) == IF token = <<>> THEN "" ELSE Last(token)
Word(token) == is_character(End(token))
all_star(token) == token # <<>> /\ ToSet(token) = {"*"}
Steps(token) == \E j \in 1 .. Len(token) - 1 : token[j] \in Sign /\ token[j + 1] = token[j]

(* Where the first of the characters C from place i on is, or the end.     *)
Find(t, i, C) ==
  CHOOSE j \in i .. Len(t) + 1 : /\ j = Len(t) + 1 \/ t[j] \in C
                                 /\ \A m \in i .. j - 1 : t[m] \notin C
NextOp(t, i) == IF i > Len(t) THEN Len(t) + 1 ELSE Find(t, i, Op)
Past(t, i) == CHOOSE j \in i .. Len(t) + 1 : Char(t, j) # " " /\ \A m \in i .. j - 1 : t[m] = " "

SetRow(s, r, token) ==
  IF r < 0 THEN s
  ELSE [s EXCEPT !.tok = [j \in 1 .. (IF r + 1 > Len(@) THEN r + 1 ELSE Len(@)) |->
                            IF j = r + 1 THEN token ELSE Row(s, j - 1)]]
Put(s, r, token) == SetRow(s, r, Row(s, r) \o token)
Take(s, t, n) == [Put(s, s.row, SubSeq(t, s.at, s.at + n - 1)) EXCEPT !.at = @ + n]
Refuse(s) == [s EXCEPT !.state = "false"]
Back(s) == [s EXCEPT !.row = @ - 1]

(* The text up to end without its blanks, into row r; a blank inside of    *)
(* what is copied, seen by the last character of the row, is refused, but  *)
(* not in a member.                                                        *)
Inside(what, c) ==
  \/ what = "name" /\ is_character(c)
  \/ what = "address" /\ c # "&"

Copy(s, t, r, end, what) ==
  LET step(c, j) == IF Char(t, j - 1) = " " /\ Inside(what, End(Row(c, r))) THEN Refuse(c)
                    ELSE IF t[j] # " " THEN Put(c, r, <<t[j]>>) ELSE c
  IN [FoldLeft(LAMBDA c, j : IF c.state = "false" THEN c ELSE step(c, j), s,
               [m \in 1 .. end - s.at |-> s.at + m - 1]) EXCEPT !.at = end]

-----------------------------------------------------------------------------
(* One character that is an operator, with what it takes along.            *)

(* ++ and -- belong to the name behind or to the one in front.             *)
Stepped(s, t) ==
  LET pair == SubSeq(t, s.at, s.at + 1)
      before == Row(s, s.row - 1) IN
  IF <<Char(t, s.at + 2), Char(t, s.at + 3)>> = pair THEN Refuse(s)
  ELSE IF is_character(Char(t, Past(t, s.at + 2)))
    THEN IF s.row > 0 /\ Word(before) THEN Refuse(s)
         ELSE Copy(s, t, s.row, NextOp(t, s.at + 2), "name")
  ELSE IF s.row > 0 /\ Word(before)
    THEN IF Steps(before) THEN Refuse(s)
         ELSE Back([Put(s, s.row - 1, pair) EXCEPT !.at = @ + 2])
  ELSE Take(s, t, 2)

(* strncpy writes over what the row has.                                   *)
Over(s, t, n) ==
  LET token == Row(s, s.row) IN
  [SetRow(s, s.row, SubSeq(t, s.at, s.at + n - 1) \o SubSeq(token, n + 1, Len(token))) EXCEPT !.at = @ + n]

Member(s, t) ==
  Back(Copy(s, t, s.row - 1, NextOp(t, s.at + 2), "member"))

Address(s, t) ==
  IF s.row = 0 \/ ToSet(Row(s, s.row - 1)) \cap Op # {}
    THEN Copy(Take(s, t, 1), t, s.row, NextOp(t, s.at + 1), "address")
    ELSE Over(s, t, 1)

(* A last * behind other tokens is never passed: the rows run out of the   *)
(* array, but behind two rows of stars, where the row is put back each     *)
(* time and the loop never ends.                                           *)
Star(s, t) ==
  LET end == NextOp(t, s.at + 1)
      name == Copy(s, t, 0, end, "name")
      another == s.row > 1 /\ Row(s, s.row - 2) = <<"*">> /\ all_star(Row(s, s.row - 1)) IN
  IF s.row > 0
    THEN IF s.at = Len(t) THEN [s EXCEPT !.state = IF another THEN "hang" ELSE "overrun"]
         ELSE IF another
           THEN Back([Put(s, s.row - 1, <<"*">>) EXCEPT !.at = @ + 1])
           ELSE Take(s, t, 1)
  ELSE IF end > Len(t) THEN Take(s, t, 1)
  ELSE IF name.state = "go" /\ all_star(Row(name, 0)) THEN Back(name) ELSE name

(* Behind a lone & or * the brackets are taken away.                       *)
Run(t, i, c) == CHOOSE n \in 0 .. Len(t) : Char(t, i + n) # c /\ \A m \in 0 .. n - 1 : Char(t, i + m) = c
Bracket(s, t) ==
  LET lcount == Run(t, s.at + 1, "(")
      start == s.at + lcount
      close == Find(t, start + 1, {")"})
      rcount == Run(t, close + 1, ")") IN
  IF s.row > 0 /\ Row(s, s.row - 1) \in {<<"&">>, <<"*">>}
    THEN IF start = Len(t) \/ close > Len(t) \/ lcount # rcount THEN Refuse(s)
         ELSE IF s.row = 1 \/ ~Word(Row(s, s.row - 2))
           THEN Back([Put(s, s.row - 1, SubSeq(t, start + 1, close - 1)) EXCEPT !.at = close + rcount + 1])
           ELSE Take([s EXCEPT !.at = start], t, 1)
    ELSE Take(s, t, 1)

Quoted(s, t) ==
  LET end == Find(t, s.at + 1, {"\""}) IN
  IF s.at = Len(t) \/ end > Len(t) THEN Refuse(s) ELSE Take(s, t, end - s.at + 1)

(* A sign that does not follow a word belongs to what comes next.          *)
Other(s, t) ==
  LET before == Row(s, s.row - 1)
      taken == Take(s, t, 1)
      isSign == Row(taken, s.row) \in {<<"-">>, <<"+">>, <<"-", "-">>, <<"+", "+">>} IN
  IF s.row > 0 /\ before \in {<<"+", "+">>, <<"-", "-">>} THEN Refuse(s)
  ELSE IF isSign /\ (s.row = 0 \/ (~Word(before) /\ ~Steps(before))) THEN Back(taken) ELSE taken

AtOperator(s, t) ==
  LET c == t[s.at]
      pair == <<c, Char(t, s.at + 1)>> IN
  CASE pair \in {<<"-", "-">>, <<"+", "+">>} -> Stepped(s, t)
    [] pair \in TwoCharacters -> Over(s, t, 2)
    [] pair = <<"-", ">">> -> Member(s, t)
    [] c = "&" /\ pair \notin TwoCharacters -> Address(s, t)
    [] c = "*" /\ pair \notin TwoCharacters -> Star(s, t)
    [] c = "(" -> Bracket(s, t)
    [] c = "\"" -> Quoted(s, t)
    [] OTHER -> Other(s, t)
-----------------------------------------------------------------------------
(* A row of stars, with no word in front of it, takes the name behind it.  *)
Starred(s) ==
  LET s1 == IF s.row > 1 /\ all_star(Row(s, s.row - 1)) /\ ~Word(Row(s, s.row - 2)) THEN Back(s) ELSE s
  IN IF s1.row = 1 /\ all_star(Row(s1, 0)) THEN Back(s1) ELSE s1

(* What is not an operator: up to the next blank or operator.  A blank     *)
(* behind a dot is skipped.                                                *)
RECURSIVE Name(_, _, _)
Name(s, t, first) ==
  LET c == Char(t, s.at) IN
  IF c = "" \/ c \in Op THEN s
  ELSE IF c = " " THEN [s EXCEPT !.at = Past(t, s.at)]
  ELSE IF c = "." /\ s.at > first
    THEN Name([Take(s, t, 1) EXCEPT !.at = Past(t, @)], t, first)
  ELSE Name(Take(s, t, 1), t, first)

Trimmed(s) ==
  LET token == Row(s, s.row) IN
  SetRow(s, s.row, SubSeq(token, 1, Max({0} \cup {j \in DOMAIN token : token[j] # " "})))

(* Two words in a row are refused at the beginning and behind a bracket.   *)
Checked(s) ==
  LET before == Row(s, s.row - 1) IN
  IF /\ s.row > 0 /\ Word(Row(s, s.row))
     /\ Word(before) \/ End(before) = "."
     /\ s.row = 1 \/ Row(s, s.row - 2) = <<"(">>
    THEN Refuse(s) ELSE s

(* The loop as long as there is an operator ahead ...                      *)
RECURSIVE Rows(_, _)
Rows(s, t) ==
  LET onOp == NextOp(t, s.at) = s.at
      skipped == Name(Starred(s), t, s.at)
      s1 == IF onOp THEN AtOperator(s, t) ELSE skipped
      s2 == Checked(Trimmed(s1)) IN
  IF NextOp(t, s.at) > Len(t) THEN s
  ELSE IF ~onOp /\ t[s.at] = " " THEN Rows(skipped, t)
  ELSE IF s1.state # "go" THEN s1
  ELSE IF s2.state # "go" THEN s2
  ELSE Rows([s2 EXCEPT !.row = @ + 1], t)

(* ... and what is left behind the last one.                               *)
RECURSIVE Rest(_, _, _)
Rest(s, t, first) ==
  LET c == Char(t, s.at)
      next == IF c = " "
                THEN [s EXCEPT !.at = Past(t, s.at), !.row = IF s.at = first THEN @ ELSE @ + 1]
                ELSE IF c = "." THEN [Take(s, t, 1) EXCEPT !.at = Past(t, @)] ELSE Take(s, t, 1)
      s1 == Checked(next) IN
  IF s.at > Len(t) THEN [s EXCEPT !.state = "done"]
  ELSE IF s1.state # "go" THEN s1
  ELSE Rest(s1, t, IF c = " " /\ s.at = first THEN next.at ELSE first)

(* All that can come of a text.  What an overrun does depends on what lies *)
(* behind the array: it ends the grader, has the answer refused, or is     *)
(* passed with the star lost.                                              *)
make_tokens(t) ==
  LET s == Rows([at |-> 1, tok |-> <<>>, row |-> 0, state |-> "go"], t)
      s1 == Starred(s) IN
  CASE s.state = "go" -> {Rest(s1, t, s1.at)}
    [] s.state \in {"false", "hang"} -> {s}
    [] s.state = "overrun" -> {[s EXCEPT !.state = o] : o \in {"fault", "false", "done"}}
=============================================================================
