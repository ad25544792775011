-------------------------------- MODULE Blank -------------------------------
(***************************************************************************)
(* ssu_score/blank.c: the tree of an expression and the comparison of two  *)
(* trees.  Nodes are records in a heap h and pointers are places in h, for *)
(* the comparison relinks the tree of the right answer while it looks at   *)
(* it.  An expression is given as its tokens, which are strings.           *)
(***************************************************************************)
EXTENDS Naturals, SequencesExt

NULL == 0

(* The lower the number, the tighter the operator; 0 is no operator.       *)
operators ==
  [op \in {"(", ")", "->", "*", "/", "%", "+", "-", "<", "<=", ">", ">=", "==", "!=",
           "&", "^", "|", "&&", "||", "=", "+=", "-=", "&=", "|="} |->
     CASE op \in {"(", ")"} -> 0
       [] op = "->" -> 1
       [] op = "%" -> 2
       [] op = "/" -> 3
       [] op = "*" -> 4
       [] op = "-" -> 5
       [] op = "+" -> 6
       [] op \in {"<", "<=", ">", ">="} -> 7
       [] op \in {"==", "!="} -> 8
       [] op = "&" -> 9
       [] op = "^" -> 10
       [] op = "|" -> 11
       [] op = "&&" -> 12
       [] op = "||" -> 13
       [] OTHER -> 14]

is_operator(op) == op \in DOMAIN operators
get_precedence(op) == IF is_operator(op) THEN operators[op] ELSE 0

Relational == {"<", ">", "<=", ">="}
Equality == {"==", "!="}
Boolean == {"|", "||", "&", "&&"}
Commutative == Boolean \cup {"+", "*"}

-----------------------------------------------------------------------------
(* Nodes and the walks along their links.                                  *)
create_node(name, parentheses) ==
  [name |-> name, parentheses |-> parentheses,
   parent |-> NULL, child_head |-> NULL, prev |-> NULL, next |-> NULL]

RECURSIVE Eldest(_, _), Youngest(_, _), CountFrom(_, _), get_root(_, _)
Eldest(h, x) == IF h[x].prev = NULL THEN x ELSE Eldest(h, h[x].prev)
Youngest(h, x) == IF h[x].next = NULL THEN x ELSE Youngest(h, h[x].next)
CountFrom(h, x) == IF h[x].next = NULL THEN 0 ELSE 1 + CountFrom(h, h[x].next)

get_sibling_cnt(h, x) == CountFrom(h, Eldest(h, x))
get_operator(h, x) == h[Eldest(h, x)].parent
get_last_child(h, x) ==
  Youngest(h, IF h[x].child_head # NULL THEN h[x].child_head ELSE x)
get_root(h, x) ==
  IF x = NULL THEN NULL
  ELSE LET up == h[Eldest(h, x)].parent IN
       IF up = NULL THEN Eldest(h, x) ELSE get_root(h, up)

(* Where the climb from cur stops.  The function ends without a return for *)
(* a first child under a tighter operator: what the build returns then is  *)
(* the last value it has looked at, cur->parent.                           *)
RECURSIVE get_high_precedence_node(_, _, _), MostHigh(_, _, _)
get_high_precedence_node(h, cur, name) ==
  IF is_operator(h[cur].name) /\ get_precedence(h[cur].name) < get_precedence(name)
    THEN cur
  ELSE IF h[cur].prev # NULL THEN get_high_precedence_node(h, h[cur].prev, name)
  ELSE IF h[cur].parent = NULL THEN cur
  ELSE h[cur].parent

MostHigh(h, x, name) ==
  IF h[x].parent = NULL THEN x
  ELSE MostHigh(h, get_high_precedence_node(h,
         IF h[x].prev # NULL THEN h[x].prev ELSE h[x].parent, name), name)

get_most_high_precedence_node(h, cur, name) ==
  MostHigh(h, get_high_precedence_node(h, cur, name), name)

(* Faulty variant: the elder sibling keeps its link to the old node.       *)
insert_node_unlinked(h, old, new) ==
  LET h1 == IF h[old].prev # NULL
              THEN [h EXCEPT ![new].prev = h[old].prev, ![old].prev = NULL]
              ELSE h
  IN [h1 EXCEPT ![new].child_head = old, ![old].parent = new]

(* new takes the place of old, which becomes its first child.              *)
insert_node(h, old, new) ==
  LET h1 == IF h[old].prev # NULL
              THEN [h EXCEPT ![new].prev = h[old].prev, ![h[old].prev].next = new,
                             ![old].prev = NULL]
              ELSE h
  IN [h1 EXCEPT ![new].child_head = old, ![old].parent = new]

(* x becomes the youngest child of cur's node.                             *)
Attach(h, cur, x) ==
  LET last == get_last_child(h, cur) IN [h EXCEPT ![last].next = x, ![x].prev = last]

(* The children of x are appended to those of cur, x is dropped.           *)
Merge(h, cur, x) ==
  LET first == h[x].child_head IN
  IF first = NULL THEN h
  ELSE Attach([h EXCEPT ![x].child_head = NULL, ![first].parent = NULL], cur, first)

-----------------------------------------------------------------------------
(* make_tree: s is [h, cur, idx, fault]; the tokens from idx on are worked *)
(* into the tree cur is in, until a null pointer is followed.              *)
Fault(s) == [s EXCEPT !.fault = TRUE]
Token(tokens, idx) == IF idx \in DOMAIN tokens THEN tokens[idx] ELSE ""

Leaf(s, name, parentheses) ==
  LET new == Len(s.h) + 1
      h == Append(s.h, create_node(name, parentheses)) IN
  IF s.cur = NULL THEN [s EXCEPT !.h = h, !.cur = new]
  ELSE IF s.h[s.cur].child_head = NULL
    THEN [s EXCEPT !.h = [h EXCEPT ![s.cur].child_head = new, ![new].parent = s.cur],
                   !.cur = new]
    ELSE [s EXCEPT !.h = Attach(h, s.cur, new), !.cur = new]

(* The nearest elder sibling of x that is the operator name, else the      *)
(* eldest.                                                                 *)
RECURSIVE Elder(_, _, _)
Elder(h, x, name) ==
  IF h[x].name = name \/ h[x].prev = NULL THEN x ELSE Elder(h, h[x].prev, name)

Operator(s, name, parentheses) ==
  LET new == Len(s.h) + 1
      h == Append(s.h, create_node(name, parentheses))
      top == get_most_high_precedence_node(h, s.cur, name)
      Under(old) == [s EXCEPT !.h = insert_node(h, old, new), !.cur = new]
      tighter == get_precedence(h[top].name) < get_precedence(name)
      looser == get_precedence(h[top].name) > get_precedence(name)
      found == LET x == Elder(h, s.cur, name) IN
               IF h[x].name = name THEN x ELSE h[x].parent
  IN
  IF s.cur = NULL
    THEN IF name \in Commutative THEN Fault(s) ELSE [s EXCEPT !.h = h, !.cur = new]
  ELSE IF name \in Commutative /\ s.h[s.cur].name = name THEN s
  ELSE IF h[top].parent # NULL \/ h[top].prev # NULL THEN Under(top)
  ELSE IF name \notin Commutative /\ h[top].parentheses > parentheses THEN Under(top)
  ELSE IF looser
    THEN IF h[top].child_head # NULL THEN Under(get_last_child(h, top))
                                     ELSE [s EXCEPT !.h = h]
  ELSE IF tighter \/ name \notin Commutative THEN Under(top)
  ELSE IF found # NULL /\ h[found].name = name
    THEN [s EXCEPT !.h = h, !.cur = found]
    ELSE [s EXCEPT !.h = h]

(* The first token from idx on that is an operator but no closing bracket. *)
RECURSIVE FollowingOperator(_, _)
FollowingOperator(tokens, idx) ==
  LET t == Token(tokens, idx) IN
  IF t = "" \/ (is_operator(t) /\ t # ")") THEN t ELSE FollowingOperator(tokens, idx + 1)

(* What was in brackets, the tree new, is joined to the tree of cur.       *)
Joined(s, cur, new, tokens) ==
  LET name == s.h[new].name
      merged == /\ name = s.h[cur].name
                /\ \/ name \in Boolean
                   \/ /\ name \in {"+", "*"}
                      /\ get_precedence(FollowingOperator(tokens, s.idx)) >= get_precedence(name)
  IN
  IF cur = NULL THEN [s EXCEPT !.cur = new]
  ELSE IF new = NULL THEN Fault(s)
  ELSE IF merged THEN [s EXCEPT !.h = Merge(s.h, cur, new),
                                !.cur = get_last_child(s.h, cur)]
  ELSE [s EXCEPT !.h = Attach(s.h, cur, new), !.cur = new]

RECURSIVE make_tree(_, _, _), Arguments(_, _, _, _)

(* The arguments of a call, idx being at the bracket or at a comma.        *)
Arguments(s, tokens, parentheses, first) ==
  IF Token(tokens, s.idx) = ")" \/ Token(tokens, s.idx + 1) \in {")", ""}
    THEN [s EXCEPT !.idx = IF Token(tokens, s.idx) = ")" THEN s.idx ELSE s.idx + 1]
  ELSE LET a == make_tree([s EXCEPT !.cur = NULL, !.idx = @ + 1], tokens, parentheses + 1)
           h == IF a.cur = NULL THEN a.h
                ELSE IF first
                  THEN [a.h EXCEPT ![s.cur].child_head = a.cur, ![a.cur].parent = s.cur]
                  ELSE [a.h EXCEPT ![s.cur].next = a.cur, ![a.cur].prev = s.cur]
       IN IF a.fault THEN a
          ELSE Arguments([a EXCEPT !.h = h, !.cur = IF @ = NULL THEN s.cur ELSE @],
                         tokens, parentheses, first /\ a.cur = NULL)

make_tree(s, tokens, parentheses) ==
  LET token == Token(tokens, s.idx)
      before == Token(tokens, s.idx - 1)
      isCall == s.idx > 1 /\ ~is_operator(before) /\ before # ","
      inner == make_tree([s EXCEPT !.cur = NULL, !.idx = @ + 1], tokens, parentheses + 1)
      after == CASE token = "(" /\ ~isCall /\ inner.fault -> inner
                 [] token = "(" /\ isCall -> Arguments(s, tokens, parentheses, TRUE)
                 [] token = "(" /\ ~isCall /\ ~inner.fault -> Joined(inner, s.cur, inner.cur, tokens)
                 [] token # "(" /\ is_operator(token) -> Operator(s, token, parentheses)
                 [] OTHER -> Leaf(s, token, parentheses)
  IN
  IF token \in {"", ")", ","} THEN [s EXCEPT !.cur = get_root(s.h, s.cur)]
  ELSE IF after.fault THEN after
  ELSE make_tree([after EXCEPT !.idx = @ + 1], tokens, parentheses)

(* The tree of a whole expression, behind what is already in the heap.     *)
Tree(h, tokens) == make_tree([h |-> h, cur |-> NULL, idx |-> 1, fault |-> FALSE], tokens, 0)

-----------------------------------------------------------------------------
(* compare_tree.  Its outcome is [h, result]: "fault" is the end of the    *)
(* grader by a null pointer, which change_sibling follows when the node it *)
(* is to turn round has less than two children.                            *)
Outcome(h, result) == [h |-> h, result |-> result]

Flipped(name) ==
  CASE name = "<" -> ">" [] name = ">" -> "<"
    [] name = "<=" -> ">=" [] name = ">=" -> "<=" [] OTHER -> name

HasTwo(h, x) == h[x].child_head # NULL /\ h[h[x].child_head].next # NULL

(* The second child becomes the first and the first the last.              *)
change_sibling(h, x) ==
  LET one == h[x].child_head
      two == h[one].next IN
  [h EXCEPT ![x].child_head = two,
            ![two].parent = x, ![two].prev = NULL, ![two].next = one,
            ![one].prev = two, ![one].next = NULL, ![one].parent = NULL]

RECURSIVE compare_tree(_, _, _), AnySibling(_, _, _)

(* Whether x is like tmp or like one of its younger siblings.              *)
AnySibling(h, x, tmp) ==
  LET o == compare_tree(h, x, tmp) IN
  IF o.result = "false" /\ o.h[tmp].next # NULL THEN AnySibling(o.h, x, o.h[tmp].next) ELSE o

(* Faulty variant: the operands of == are not turned round.                *)
CompareChildrenInOrder(h, root1, root2) ==
  LET child1 == h[root1].child_head
      child2 == h[root2].child_head IN
  IF child1 = NULL THEN Outcome(h, "true")
  ELSE IF get_sibling_cnt(h, child1) # get_sibling_cnt(h, child2) THEN Outcome(h, "false")
  ELSE IF h[root1].name \in Commutative THEN AnySibling(h, child1, Eldest(h, child2))
  ELSE compare_tree(h, child1, child2)

(* The operands, which with the first compare all of them.                 *)
CompareChildren(h, root1, root2) ==
  LET child1 == h[root1].child_head
      child2 == h[root2].child_head
      straight == compare_tree(h, child1, child2)
      turned == change_sibling(straight.h, root2) IN
  IF child1 = NULL THEN Outcome(h, "true")
  ELSE IF get_sibling_cnt(h, child1) # get_sibling_cnt(h, child2) THEN Outcome(h, "false")
  ELSE IF h[root1].name \in Equality
    THEN IF straight.result # "false" THEN straight
         ELSE IF ~HasTwo(straight.h, root2) THEN Outcome(straight.h, "fault")
         ELSE compare_tree(turned, child1, turned[root2].child_head)
  ELSE IF h[root1].name \in Commutative THEN AnySibling(h, child1, Eldest(h, child2))
  ELSE straight

(* Faulty variant: under a commutative operator one operand is enough.     *)
CompareSiblingsOne(o, root1, root2) ==
  IF o.result = "fault" \/ o.h[root1].next = NULL THEN o
  ELSE IF o.result = "false" \/ get_sibling_cnt(o.h, root1) # get_sibling_cnt(o.h, root2)
    THEN Outcome(o.h, "false")
  ELSE IF get_operator(o.h, root1) = NULL THEN Outcome(o.h, "fault")
  ELSE IF o.h[get_operator(o.h, root1)].name \in Commutative THEN o
  ELSE compare_tree(o.h, o.h[root1].next, o.h[root2].next)

(* The younger siblings of root1, if root1 itself is like root2.           *)
CompareSiblings(o, root1, root2) ==
  IF o.result = "fault" \/ o.h[root1].next = NULL THEN o
  ELSE IF o.result = "false" \/ get_sibling_cnt(o.h, root1) # get_sibling_cnt(o.h, root2)
    THEN Outcome(o.h, "false")
  ELSE IF get_operator(o.h, root1) = NULL THEN Outcome(o.h, "fault")
  ELSE IF o.h[get_operator(o.h, root1)].name \in Commutative
    THEN AnySibling(o.h, o.h[root1].next, Eldest(o.h, root2))
    ELSE compare_tree(o.h, o.h[root1].next, o.h[root2].next)

compare_tree(h, root1, root2) ==
  IF root1 = NULL \/ root2 = NULL THEN Outcome(h, "false")
  ELSE
    LET turn == h[root1].name \in Relational /\ h[root2].name # h[root1].name
        h1 == IF turn THEN change_sibling([h EXCEPT ![root2].name = Flipped(@)], root2)
                      ELSE h
    IN
    IF turn /\ ~HasTwo(h, root2) THEN Outcome(h, "fault")
    ELSE IF h1[root1].name # h1[root2].name THEN Outcome(h1, "false")
    ELSE IF (h1[root1].child_head = NULL) # (h1[root2].child_head = NULL)
      THEN Outcome(h1, "false")
    ELSE CompareSiblings(CompareChildren(h1, root1, root2), root1, root2)
=============================================================================
