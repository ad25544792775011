------------------------------ MODULE Schedule ------------------------------
(***************************************************************************)
(* The five fields of a crontab line.  ssu_crontab.c checks them when a    *)
(* line is added (opt_check), ssu_crond.c turns them into time tables      *)
(* (make_timetable); the two have to agree on what a field may look like.  *)
(*                                                                         *)
(* A field is a sequence of items that were separated by commas.  An item  *)
(* is "*" or from or from-to, followed by /every or not.  A number is the  *)
(* sequence of its digits, for the check looks at digits and not at values.*)
(***************************************************************************)
EXTENDS Integers, SequencesExt

None == <<>>   \* a number that is not there

Item(any, from, to, every) == [any |-> any, from |-> from, to |-> to, every |-> every]
Star == Item(TRUE, None, None, None)

Numbers(item) == {item.from, item.to, item.every} \ {None}

(* atoi                                                                    *)
Value(number) ==
  LET read[i \in 0 .. Len(number)] == IF i = 0 THEN 0 ELSE 10 * read[i - 1] + number[i]
  IN read[Len(number)]

Fields == {"min", "hour", "mday", "month", "wday"}

(* What the loops over "*" run through.                                    *)
Scope == [min |-> 0 .. 59, hour |-> 0 .. 23, mday |-> 1 .. 31, month |-> 1 .. 12, wday |-> 0 .. 6]

-----------------------------------------------------------------------------
(* ssu_crontab.c: min_scope_check and its sisters look at the first digit  *)
(* and, if there is one, at the second.                                    *)
Second(number, digits) == Len(number) > 1 /\ number[2] \in digits

min_scope_check(n) ==
  /\ ~(n[1] = 0 /\ Second(n, 0 .. 9))
  /\ ~(n[1] \in 6 .. 9 /\ Second(n, 0 .. 9))

(* Faulty variant: 24 is taken for an hour.                                *)
hour_scope_check_wide(n) ==
  /\ ~(n[1] = 0 /\ Second(n, 0 .. 9))
  /\ ~(n[1] = 2 /\ Second(n, 5 .. 9))
  /\ ~(n[1] \in 3 .. 9 /\ Second(n, 0 .. 9))

hour_scope_check(n) ==
  /\ ~(n[1] = 0 /\ Second(n, 0 .. 9))
  /\ ~(n[1] = 2 /\ Second(n, 4 .. 9))
  /\ ~(n[1] \in 3 .. 9 /\ Second(n, 0 .. 9))

day_scope_check(n) ==
  /\ n[1] # 0
  /\ ~(n[1] = 3 /\ Second(n, 2 .. 9))
  /\ ~(n[1] \in 4 .. 9 /\ Second(n, 0 .. 9))

month_scope_check(n) ==
  /\ n[1] # 0
  /\ ~(n[1] = 1 /\ Second(n, 3 .. 9))
  /\ ~(n[1] \in 2 .. 9 /\ Second(n, 0 .. 9))

week_scope_check(n) ==
  /\ n[1] \notin 7 .. 9
  /\ ~(n[1] \in 0 .. 6 /\ Second(n, 0 .. 9))

scope_check(f, n) ==
  CASE f = "min" -> min_scope_check(n)
    [] f = "hour" -> hour_scope_check(n)
    [] f = "mday" -> day_scope_check(n)
    [] f = "month" -> month_scope_check(n)
    [] f = "wday" -> week_scope_check(n)

(* opt_check: every number in scope, and a number behind every symbol, so  *)
(* that "*" can only be the first item.                                    *)
opt_check(f, items) ==
  \A j \in DOMAIN items :
    /\ \A n \in Numbers(items[j]) : scope_check(f, n)
    /\ j > 1 => ~items[j].any

-----------------------------------------------------------------------------
(* ssu_crond.c, make_timetable: the cells an item marks...                 *)
Every(item, k) == item.every = None \/ k % Value(item.every) = 0

(* Faulty variant: the period of a range is counted from 0.                *)
MarkedFromZero(f, item) ==
  CASE item.any -> {k \in Scope[f] : Every(item, k)}
    [] ~item.any /\ item.to = None -> {Value(item.from)}
    [] OTHER -> {k \in Value(item.from) .. Value(item.to) : Every(item, k)}

Marked(f, item) ==
  CASE item.any -> {k \in Scope[f] : Every(item, k)}
    [] ~item.any /\ item.to = None -> {Value(item.from)}
    [] OTHER -> {k \in Value(item.from) .. Value(item.to) : Every(item, k - Value(item.from))}

(* ... unless the daemon dies of it: atoi(NULL) for a number with a period *)
(* and no range, and a division by zero for the period 0.                  *)
Cells(f, item) ==
  IF item.any THEN Scope[f] ELSE Value(item.from) .. Value(item.to)

Kills(f, item) ==
  /\ item.every # None
  /\ \/ ~item.any /\ item.to = None
     \/ Value(item.every) = 0 /\ Cells(f, item) # {}

make_timetable(f, items) == UNION {Marked(f, items[j]) : j \in DOMAIN items}
=============================================================================
