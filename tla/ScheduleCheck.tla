--------------------------- MODULE ScheduleCheck ----------------------------
(***************************************************************************)
(* The way of one field: it is typed into the editor, checked there, and   *)
(* if it is accepted the daemon marks its time table item by item.         *)
(***************************************************************************)
EXTENDS Schedule

CONSTANTS Singles,   (* the items a user may type as the whole field       *)
          Listed     (* the items he may type in a list of two             *)

(* What the parser makes of an item: a number is a sequence of digits.     *)
IsItem(item) ==
  /\ item = Item(item.any, item.from, item.to, item.every)
  /\ item.any \in BOOLEAN
  /\ {item.from, item.to, item.every} \subseteq Seq(0 .. 9)
  /\ IF item.any THEN item.from = None /\ item.to = None ELSE item.from # None

ASSUME ScheduleAssumption == \A item \in Singles \cup Listed : IsItem(item)

VARIABLES f, items,  (* the field's place in the line, and what was typed  *)
          pc,        (* "typed", "rejected", "marking", "marked", "dead"   *)
          j,         (* the item that make_timetable is at                 *)
          table      (* the cells marked so far                            *)

vars == <<f, items, pc, j, table>>

Init ==
  /\ f \in Fields
  /\ items \in {<<s>> : s \in Singles} \cup (Listed \X Listed)
  /\ pc = "typed"
  /\ j = 1
  /\ table = {}

Check ==
  /\ pc = "typed"
  /\ pc' = IF opt_check(f, items) THEN "marking" ELSE "rejected"
  /\ UNCHANGED <<f, items, j, table>>

(* One round of the loop over the items.                                   *)
Mark ==
  /\ pc = "marking"
  /\ j <= Len(items)
  /\ \/ /\ Kills(f, items[j])
        /\ pc' = "dead"
        /\ UNCHANGED <<j, table>>
     \/ /\ ~Kills(f, items[j])
        /\ table' = table \cup Marked(f, items[j])
        /\ j' = j + 1
        /\ pc' = IF j = Len(items) THEN "marked" ELSE "marking"
  /\ UNCHANGED <<f, items>>

Next == Check \/ Mark

Spec == Init /\ [][Next]_vars

-----------------------------------------------------------------------------
AllNumbers == UNION {Numbers(items[k]) : k \in DOMAIN items}

Plain(number) == Len(number) <= 2 /\ (Len(number) = 2 => number[1] # 0)

(* The digit checks decide, for numbers of at most two digits without a    *)
(* leading zero, exactly whether the value is in the field's range; the    *)
(* position of "*" apart they accept what is in range and nothing else.    *)
ChecksTheRange ==
  (\A n \in AllNumbers : Plain(n)) /\ pc # "typed" =>
    ((pc = "rejected") <=> \/ \E n \in AllNumbers : Value(n) \notin Scope[f]
                           \/ \E k \in DOMAIN items : k > 1 /\ items[k].any)

(* The meaning of a field, value by value: in one of the ranges, at a      *)
(* multiple of its period.                                                 *)
Means(item, k) ==
  \/ /\ item.any
     /\ item.every = None \/ \E m \in 0 .. 60 : k = m * Value(item.every)
  \/ /\ ~item.any /\ item.every = None
     /\ IF item.to = None THEN k = Value(item.from)
                           ELSE Value(item.from) <= k /\ k <= Value(item.to)
  \/ /\ ~item.any /\ item.every # None
     /\ \E m \in 0 .. 60 : k = Value(item.from) + m * Value(item.every)
     /\ k <= Value(item.to)

(* What the editor accepts and the daemon survives is marked as it was     *)
(* meant, cell by cell, and nothing outside the array is written, as long  *)
(* as the numbers have two digits at most.                                 *)
MarkedAsMeant ==
  pc = "marked" /\ (\A n \in AllNumbers : Plain(n)) =>
    /\ table \subseteq Scope[f]
    /\ \A k \in Scope[f] : k \in table <=> \E l \in DOMAIN items : Means(items[l], k)

(* "Range: min(0-59), hour(0-23), ..." and "symbols: '*', 'number-number', *)
(* 'number,number', 'range/period'" (ssu_crontab.c:99 and :107): what the  *)
(* editor accepts neither kills the daemon nor makes it write behind its   *)
(* arrays.                                                                 *)
AcceptedIsSafe == pc # "dead" /\ table \subseteq Scope[f]
=============================================================================
