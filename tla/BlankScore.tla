------------------------------ MODULE BlankScore -----------------------------
(***************************************************************************)
(* ssu_score/ssu_score.c, score_blank: the student's answer to a blank is  *)
(* cut into tokens and made a tree, which is compared with the tree of one *)
(* right answer after the other.  The heap keeps the trees of all          *)
(* comparisons.                                                            *)
(***************************************************************************)
EXTENDS Tokens, Blank

CONSTANTS
  Given,    (* answers of students: texts                                  *)
  Keys,     (* the right answers of a question: sequences of texts         *)
  Meaning   (* for some of the texts, the tokens they mean                 *)

VARIABLES
  given, answers,   (* the student's answer, and the right ones not tried  *)
  key,              (* all right answers                                   *)
  pc, result,
  heap, std_root

vars == <<given, answers, key, pc, result, heap, std_root>>

Init ==
  /\ given \in Given
  /\ key \in Keys
  /\ answers = key
  /\ pc = "read"
  /\ result = "none"
  /\ heap = <<>> /\ std_root = NULL

Occurrences(text, c) == Len(SelectSeq(text, LAMBDA d : d = c))

(* There are as many opening as closing brackets, in whatever order.       *)
check_brackets(text) == Occurrences(text, "(") = Occurrences(text, ")")

(* The text without the blanks around it, and without a semicolon.         *)
Inner(text) ==
  LET solid == {j \in DOMAIN text : text[j] # " "} IN
  IF solid = {} THEN <<>> ELSE SubSeq(text, Min(solid), Max(solid))
has_semicolon(text) == End(Inner(text)) = ";"
Body(text) == IF has_semicolon(text) THEN Front(Inner(text)) ELSE Inner(text)

(* make_tokens of each text, evaluated once: [state, tokens].              *)
Strings(tok) == [j \in DOMAIN tok |-> FoldLeft(LAMBDA a, c : a \o c, "", tok[j])]
Tokenised ==
  [text \in Given \cup UNION {ToSet(k) : k \in Keys} |->
     {[state |-> s.state, tokens |-> Strings(s.tok)] : s \in make_tokens(Body(text))}]

Return(r) == pc' = "returned" /\ result' = r

(* The student's answer; an empty one, one with a bracket missing and one  *)
(* that cannot be cut into tokens are wrong.  (A result of "hang" is none: *)
(* the grader never comes back.)                                           *)
ReadGiven ==
  /\ pc = "read"
  /\ \/ /\ given = <<>> \/ ~check_brackets(given)
        /\ Return("false")
        /\ UNCHANGED <<heap, std_root>>
     \/ /\ given # <<>> /\ check_brackets(given)
        /\ \E o \in Tokenised[given] :
             \/ /\ o.state # "done" /\ Return(o.state)
                /\ UNCHANGED <<heap, std_root>>
             \/ /\ o.state = "done"
                /\ \E tree \in {Tree(heap, o.tokens)} :
                     \/ /\ tree.fault /\ Return("fault")
                        /\ UNCHANGED <<heap, std_root>>
                     \/ /\ ~tree.fault
                        /\ heap' = tree.h /\ std_root' = tree.cur
                        /\ pc' = "compare"
                        /\ UNCHANGED result
  /\ UNCHANGED <<given, answers, key>>

(* (Trees and outcomes are bound in sets so that TLC evaluates them once.) *)
(* One right answer; it counts only if it can be cut into tokens, and ends *)
(* in a semicolon exactly when the student's does.                         *)
CompareNext ==
  /\ pc = "compare" /\ answers # <<>>
  /\ answers' = Tail(answers)
  /\ \E o \in Tokenised[Head(answers)] :
       LET alike == has_semicolon(Head(answers)) = has_semicolon(given) IN
       \/ /\ ~alike \/ o.state = "false"
          /\ UNCHANGED <<heap, pc, result>>
       \/ /\ alike /\ o.state \in {"fault", "hang"} /\ Return(o.state)
          /\ UNCHANGED heap
       \/ /\ alike /\ o.state = "done"
          /\ \E tree \in {Tree(heap, o.tokens)} :
               \/ /\ tree.fault /\ Return("fault")
                  /\ UNCHANGED heap
               \/ /\ ~tree.fault
                  /\ \E outcome \in {compare_tree(tree.h, std_root, tree.cur)} :
                       /\ heap' = outcome.h
                       /\ \/ outcome.result # "false" /\ Return(outcome.result)
                          \/ outcome.result = "false" /\ UNCHANGED <<pc, result>>
  /\ UNCHANGED <<given, key, std_root>>

NoneLeft ==
  /\ pc = "compare" /\ answers = <<>>
  /\ Return("false")
  /\ UNCHANGED <<given, answers, key, heap, std_root>>

Returned == pc = "returned" /\ UNCHANGED vars

Next == ReadGiven \/ CompareNext \/ NoneLeft \/ Returned
Spec == Init /\ [][Next]_vars

-----------------------------------------------------------------------------
(* The reference: trees as terms, and when two of them mean the same.      *)
RECURSIVE Term(_, _), Terms(_, _), Same(_, _), Operands(_), Names(_)
Term(h, x) ==
  [name |-> h[x].name,
   args |-> IF h[x].child_head = NULL THEN <<>> ELSE Terms(h, h[x].child_head)]
Terms(h, x) == <<Term(h, x)>> \o IF h[x].next = NULL THEN <<>> ELSE Terms(h, h[x].next)

Same(t, u) ==
  LET n == Len(t.args) IN
  /\ n = Len(u.args)
  /\ \/ t.name = u.name /\ \A j \in 1 .. n : Same(t.args[j], u.args[j])
     \/ /\ t.name = u.name /\ t.name \in Commutative \cup Equality
        /\ \E p \in Permutations(1 .. n) : \A j \in 1 .. n : Same(t.args[j], u.args[p[j]])
     \/ /\ t.name \in Relational /\ u.name = Flipped(t.name) /\ n = 2
        /\ Same(t.args[1], u.args[2]) /\ Same(t.args[2], u.args[1])

Operands(t) == IF t.args = <<>> THEN <<t.name>> ELSE FlattenSeq([j \in DOMAIN t.args |-> Operands(t.args[j])])
Names(t) == {t.name} \cup UNION {Names(t.args[j]) : j \in DOMAIN t.args}

TermOf(tokens) == LET tree == Tree(<<>>, tokens) IN Term(tree.h, tree.cur)

(* What make_tokens does not cut as it is meant: a sign, a star or an      *)
(* ampersand behind a bracket goes to what follows it, and a bracket in a  *)
(* bracket behind a star is refused.                                       *)
Spoilt(tokens) ==
  \E j \in DOMAIN tokens :
    LET next == Token(tokens, j + 1) IN
    \/ tokens[j] = ")" /\ next \in {"+", "-", "*", "&"}
    \/ tokens[j] = "*" /\ next = "(" /\ \E k \in j + 2 .. Len(tokens) : tokens[k] = "("
Plain == [text \in {t \in DOMAIN Meaning : ~Spoilt(Meaning[t])} |-> Meaning[text]]

(* What these texts mean, as terms.                                        *)
Meant == [text \in DOMAIN Plain |-> TermOf(Plain[text])]

(* Properties                                                              *)

(* However an expression is spaced and bracketed, make_tokens and          *)
(* make_tree put every operand of it into the tree, once and in its place: *)
(* none is cut off or joined to another, none hangs off a node that the    *)
(* root does not reach.  Only what Plain leaves out is not judged: a sign, *)
(* a star or an ampersand behind a closing bracket, which the code gives   *)
(* to what follows, and brackets it takes away.                            *)
OperandsKept ==
  pc = "compare" /\ answers = key /\ given \in DOMAIN Plain =>
    LET isOperand(t) == ~is_operator(t) /\ t \notin {",", "f"}
    IN Operands(Term(heap, std_root)) = SelectSeq(Plain[given], isOperand)

Right(answer) ==
  /\ {given, answer} \subseteq DOMAIN Plain
  /\ has_semicolon(given) = has_semicolon(answer)
  /\ Same(Meant[given], Meant[answer])

(* compare_tree turns round whatever node it meets a relational operator   *)
(* of the student's with, and follows a null pointer if that node has less *)
(* than two operands.  It meets none but relational ones if the student's  *)
(* answer has no such operator, or only at its top and the right answers   *)
(* have one there.                                                         *)
OnlyAlike ==
  LET top == Meant[given] IN
  /\ \A j \in DOMAIN top.args : Names(top.args[j]) \cap Relational = {}
  /\ top.name \in Relational =>
       \A j \in DOMAIN key : Meant[key[j]].name \in Relational

(* As long as relational operators meet only one another, an answer that   *)
(* is one of the right ones but for blanks, the order of operands and the  *)
(* direction of the comparison is accepted, wherever it stands among them: *)
(* it is neither refused nor does the grader fault or hang.                *)
NoRightAnswerRefused ==
  /\ pc = "returned" /\ result # "true"
  /\ {given} \cup ToSet(key) \subseteq DOMAIN Plain /\ OnlyAlike
  => \A j \in DOMAIN key : ~Right(key[j])

(* Without a relational operator in the student's answer the comparison    *)
(* does not fault; and if its operands are all different, what is accepted *)
(* is right (a+a passes for a+b: an operand may be matched twice).         *)
NoWrongAnswerPaid ==
  pc = "returned" /\ {given} \cup ToSet(key) \subseteq DOMAIN Plain =>
    LET meant == Meant[given] IN
    Names(meant) \cap Relational = {} =>
      /\ result # "fault"
      /\ result = "true" /\ IsInjective(Operands(meant)) => \E j \in DOMAIN key : Right(key[j])
=============================================================================
