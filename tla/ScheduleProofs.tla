--------------------------- MODULE ScheduleProofs ---------------------------
(***************************************************************************)
(* Theorems about ScheduleCheck, for every field and all items: the checks *)
(* of the editor decide the range, and the daemon marks what was meant.    *)
(***************************************************************************)
EXTENDS ScheduleCheck, TLAPS

LEMMA SeqIsFunction ==
  ASSUME NEW S, NEW s \in Seq(S)
  PROVE  s \in [1 .. Len(s) -> S]
OBVIOUS

(* The recursion of Value, and what it comes to for one and two digits.    *)
Read(number, g) ==
  [i \in 0 .. Len(number) |-> IF i = 0 THEN 0 ELSE 10 * g[i - 1] + number[i]]

LEMMA ValueOfOne ==
  ASSUME NEW n \in Seq(0 .. 9), Len(n) = 1
  PROVE  n[1] \in 0 .. 9 /\ Value(n) = n[1]
<1> DEFINE g == [i \in {0, 1} |-> IF i = 0 THEN 0 ELSE n[1]]
           read == CHOOSE h : h = Read(n, h)
<1>1. n[1] \in 0 .. 9
  <2>1. n \in [1 .. Len(n) -> 0 .. 9]
    BY SeqIsFunction
  <2>2. 1 \in 1 .. 1
    OBVIOUS
  <2> QED
    BY <2>1, <2>2
<1>2. 0 .. Len(n) = {0, 1}
  OBVIOUS
<1>3. \A h : Read(n, h) = [i \in {0, 1} |-> IF i = 0 THEN 0 ELSE 10 * h[i - 1] + n[i]]
  BY <1>2 DEF Read
<1>4. g = Read(n, g)
  <2>1. g[0] = 0 /\ 10 * 0 + n[1] = n[1]
    BY <1>1
  <2>2. \A i \in {0, 1} : (IF i = 0 THEN 0 ELSE 10 * g[i - 1] + n[i]) = (IF i = 0 THEN 0 ELSE n[1])
    BY <2>1
  <2> QED
    BY <1>3, <2>2
<1>5. read = Read(n, read)
  BY <1>4
<1> HIDE DEF read
<1>6. read = [i \in {0, 1} |-> IF i = 0 THEN 0 ELSE 10 * read[i - 1] + n[i]]
  BY <1>3, <1>5
<1>7. read[0] = 0
  BY <1>6
<1>8. read[1] = 10 * read[0] + n[1]
  BY <1>6
<1>9. Value(n) = read[Len(n)]
  BY DEF Value, Read, read
<1> QED
  BY <1>1, <1>7, <1>8, <1>9

LEMMA ValueOfTwo ==
  ASSUME NEW n \in Seq(0 .. 9), Len(n) = 2
  PROVE  n[1] \in 0 .. 9 /\ n[2] \in 0 .. 9 /\ Value(n) = 10 * n[1] + n[2]
<1> DEFINE g == [i \in {0, 1, 2} |-> IF i = 0 THEN 0 ELSE IF i = 1 THEN n[1] ELSE 10 * n[1] + n[2]]
           read == CHOOSE h : h = Read(n, h)
<1>1. n[1] \in 0 .. 9 /\ n[2] \in 0 .. 9
  <2>1. n \in [1 .. Len(n) -> 0 .. 9]
    BY SeqIsFunction
  <2>2. 1 \in 1 .. 2 /\ 2 \in 1 .. 2
    OBVIOUS
  <2> QED
    BY <2>1, <2>2
<1>2. 0 .. Len(n) = {0, 1, 2}
  OBVIOUS
<1>3. \A h : Read(n, h) = [i \in {0, 1, 2} |-> IF i = 0 THEN 0 ELSE 10 * h[i - 1] + n[i]]
  BY <1>2 DEF Read
<1>4. g = Read(n, g)
  <2>1. g[0] = 0 /\ g[1] = n[1] /\ 10 * 0 + n[1] = n[1]
    BY <1>1
  <2>2. \A i \in {0, 1, 2} : (IF i = 0 THEN 0 ELSE 10 * g[i - 1] + n[i])
                               = (IF i = 0 THEN 0 ELSE IF i = 1 THEN n[1] ELSE 10 * n[1] + n[2])
    BY <2>1
  <2> QED
    BY <1>3, <2>2
<1>5. read = Read(n, read)
  BY <1>4
<1> HIDE DEF read
<1>6. read = [i \in {0, 1, 2} |-> IF i = 0 THEN 0 ELSE 10 * read[i - 1] + n[i]]
  BY <1>3, <1>5
<1>7. read[0] = 0
  BY <1>6
<1>8. read[1] = 10 * read[0] + n[1]
  BY <1>6
<1>9. read[2] = 10 * read[1] + n[2]
  BY <1>6
<1>10. Value(n) = read[Len(n)]
  BY DEF Value, Read, read
<1> QED
  BY <1>1, <1>7, <1>8, <1>9, <1>10

-----------------------------------------------------------------------------
(* A number of two digits at most and without a leading zero: its digits   *)
(* and its value.                                                          *)
LEMMA PlainValue ==
  ASSUME NEW n \in Seq(0 .. 9), n # None, Plain(n)
  PROVE  /\ n[1] \in 0 .. 9
         /\ \/ Len(n) = 1 /\ Value(n) = n[1]
            \/ Len(n) = 2 /\ n[2] \in 0 .. 9 /\ n[1] # 0 /\ Value(n) = 10 * n[1] + n[2]
<1>1. Len(n) \in Nat
  OBVIOUS
<1>0. Len(n) # 0
  BY DEF None
<1>2. Len(n) = 1 \/ Len(n) = 2
  <2>1. Len(n) <= 2
    BY DEF Plain
  <2>2. \A l \in Nat : l # 0 /\ l <= 2 => l = 1 \/ l = 2
    OBVIOUS
  <2> QED
    BY <1>0, <1>1, <2>1, <2>2
<1>3. CASE Len(n) = 1
  BY <1>3, ValueOfOne
<1>4. CASE Len(n) = 2
  BY <1>4, ValueOfTwo DEF Plain
<1> QED
  BY <1>2, <1>3, <1>4

(* The checks of the editor look at digits; for such numbers they decide   *)
(* the range of the value.                                                 *)
LEMMA ScopeChecked ==
  ASSUME NEW n \in Seq(0 .. 9), n # None, Plain(n), NEW field \in Fields
  PROVE  scope_check(field, n) <=> Value(n) \in Scope[field]
<1> DEFINE a == n[1]
           b == n[2]
           v == Value(n)
<1>1. /\ scope_check("min", n) <=> min_scope_check(n)
      /\ scope_check("hour", n) <=> hour_scope_check(n)
      /\ scope_check("mday", n) <=> day_scope_check(n)
      /\ scope_check("month", n) <=> month_scope_check(n)
      /\ scope_check("wday", n) <=> week_scope_check(n)
  BY DEF scope_check
<1>2. /\ Scope["min"] = 0 .. 59 /\ Scope["hour"] = 0 .. 23 /\ Scope["mday"] = 1 .. 31
      /\ Scope["month"] = 1 .. 12 /\ Scope["wday"] = 0 .. 6
  BY DEF Scope
<1>3. SUFFICES /\ min_scope_check(n) <=> v \in 0 .. 59
               /\ hour_scope_check(n) <=> v \in 0 .. 23
               /\ day_scope_check(n) <=> v \in 1 .. 31
               /\ month_scope_check(n) <=> v \in 1 .. 12
               /\ week_scope_check(n) <=> v \in 0 .. 6
  BY <1>1, <1>2 DEF Fields
<1>4. CASE Len(n) = 1
  <2>1. a \in 0 .. 9 /\ v = a
    BY <1>4, ValueOfOne
  <2>2. \A D : ~Second(n, D)
    BY <1>4 DEF Second
  <2>3. /\ min_scope_check(n) /\ hour_scope_check(n)
        /\ day_scope_check(n) <=> a # 0
        /\ month_scope_check(n) <=> a # 0
        /\ week_scope_check(n) <=> a \notin 7 .. 9
    BY <2>2 DEF min_scope_check, hour_scope_check, day_scope_check, month_scope_check, week_scope_check
  <2> HIDE DEF a, v
  <2> QED
    BY <2>1, <2>3
<1>5. CASE Len(n) = 2
  <2>1. a \in 1 .. 9 /\ b \in 0 .. 9 /\ v = 10 * a + b
    BY <1>5, ValueOfTwo DEF Plain
  <2>2. \A D : Second(n, D) <=> b \in D
    BY <1>5 DEF Second
  <2>3. /\ min_scope_check(n) <=> ~(a \in 6 .. 9)
        /\ hour_scope_check(n) <=> ~(a = 2 /\ b \in 4 .. 9) /\ ~(a \in 3 .. 9)
        /\ day_scope_check(n) <=> ~(a = 3 /\ b \in 2 .. 9) /\ ~(a \in 4 .. 9)
        /\ month_scope_check(n) <=> ~(a = 1 /\ b \in 3 .. 9) /\ ~(a \in 2 .. 9)
        /\ ~week_scope_check(n)
    <3>1. /\ a # 0 /\ Second(n, 0 .. 9)
          /\ Second(n, 4 .. 9) <=> b \in 4 .. 9
          /\ Second(n, 2 .. 9) <=> b \in 2 .. 9
          /\ Second(n, 3 .. 9) <=> b \in 3 .. 9
          /\ a \in 0 .. 6 \/ a \in 7 .. 9
      <4> HIDE DEF a, b
      <4> QED
        BY <2>1, <2>2
    <3> QED
      BY <3>1 DEF min_scope_check, hour_scope_check, day_scope_check, month_scope_check, week_scope_check
  <2> HIDE DEF a, b, v
  <2> QED
    BY <2>1, <2>3
<1> QED
  BY <1>4, <1>5, PlainValue

-----------------------------------------------------------------------------
(* A period: the cells at a multiple of it, by division and by counting.   *)
LEMMA Multiple ==
  ASSUME NEW k \in 0 .. 60, NEW e \in Nat, e # 0
  PROVE  k % e = 0 <=> \E m \in 0 .. 60 : k = m * e
<1>1. ASSUME k % e = 0 PROVE \E m \in 0 .. 60 : k = m * e
  <2> DEFINE q == k \div e
  <2>1. k = e * (k \div e) + (k % e) /\ k \div e \in Int
    OBVIOUS
  <2> HIDE DEF q
  <2>2. q \in Int /\ k = q * e
    BY <1>1, <2>1 DEF q
  <2>3. q >= 0
    BY <2>2
  <2>4. q <= 60
    BY <2>2, <2>3
  <2> QED
    BY <2>2, <2>3, <2>4
<1>2. ASSUME NEW m \in 0 .. 60, k = m * e PROVE k % e = 0
  <2>1. (m * e) % e = 0
    OBVIOUS
  <2> QED
    BY <1>2, <2>1
<1> QED
  BY <1>1, <1>2

LEMMA ScopeShape ==
  ASSUME NEW field \in Fields
  PROVE  /\ Scope[field] \subseteq 0 .. 59 /\ Scope[field] # {}
         /\ \A a, b \in Scope[field] : a .. b \subseteq Scope[field]
<1>1. /\ Scope["min"] = 0 .. 59 /\ Scope["hour"] = 0 .. 23 /\ Scope["mday"] = 1 .. 31
      /\ Scope["month"] = 1 .. 12 /\ Scope["wday"] = 0 .. 6
  BY DEF Scope
<1>2. \A low, high \in 0 .. 59 :
        low <= high => /\ low .. high \subseteq 0 .. 59 /\ low \in low .. high
                       /\ \A a, b \in low .. high : a .. b \subseteq low .. high
  OBVIOUS
<1>3. /\ 0 \in 0 .. 59 /\ 59 \in 0 .. 59 /\ 23 \in 0 .. 59 /\ 1 \in 0 .. 59 /\ 31 \in 0 .. 59
      /\ 12 \in 0 .. 59 /\ 6 \in 0 .. 59 /\ 0 <= 59 /\ 0 <= 23 /\ 1 <= 31 /\ 1 <= 12 /\ 0 <= 6
  OBVIOUS
<1>4. \E low, high \in 0 .. 59 : low <= high /\ Scope[field] = low .. high
  <2>1. CASE field = "min"
    BY <1>1, <1>3, <2>1
  <2>2. CASE field = "hour"
    BY <1>1, <1>3, <2>2
  <2>3. CASE field = "mday"
    BY <1>1, <1>3, <2>3
  <2>4. CASE field = "month"
    BY <1>1, <1>3, <2>4
  <2>5. CASE field = "wday"
    BY <1>1, <1>3, <2>5
  <2> QED
    BY <2>1, <2>2, <2>3, <2>4, <2>5 DEF Fields
<1>5. PICK low, high \in 0 .. 59 : low <= high /\ Scope[field] = low .. high
  BY <1>4
<1> QED
  BY <1>2, <1>5

LEMMA ValueBound ==
  ASSUME NEW n \in Seq(0 .. 9), n # None, Plain(n)
  PROVE  Value(n) \in 0 .. 99
<1>1. \A a, b \in 0 .. 9 : a \in 0 .. 99 /\ 10 * a + b \in 0 .. 99
  OBVIOUS
<1> QED
  BY <1>1, PlainValue

(* One item that is in range and does not kill the daemon: the cells that  *)
(* make_timetable marks are the ones that were meant.                      *)
LEMMA ItemMarked ==
  ASSUME NEW field \in Fields, NEW item, IsItem(item), ~Kills(field, item),
         \A n \in Numbers(item) : Plain(n) /\ Value(n) \in Scope[field]
  PROVE  /\ Marked(field, item) \subseteq Scope[field]
         /\ \A k \in Scope[field] : k \in Marked(field, item) <=> Means(item, k)
<1> DEFINE from == Value(item.from)
           to == Value(item.to)
           e == Value(item.every)
<1>1. /\ item.any \in BOOLEAN
      /\ item.from \in Seq(0 .. 9) /\ item.to \in Seq(0 .. 9) /\ item.every \in Seq(0 .. 9)
  BY DEF IsItem
<1>2. IF item.any THEN item.from = None /\ item.to = None ELSE item.from # None
  BY DEF IsItem
<1>3. /\ item.from # None => from \in Scope[field] /\ from \in 0 .. 99
      /\ item.to # None => to \in Scope[field] /\ to \in 0 .. 99
      /\ item.every # None => e \in 0 .. 99
  BY <1>1, ValueBound DEF Numbers
<1>4. /\ \A k \in Scope[field] : k \in 0 .. 59 /\ k \in 0 .. 60
      /\ Scope[field] # {}
      /\ \A a, b \in Scope[field] : a .. b \subseteq Scope[field]
  <2>1. \A k \in 0 .. 59 : k \in 0 .. 60
    OBVIOUS
  <2> QED
    BY <2>1, ScopeShape
<1>5. CASE item.any /\ item.every = None
  BY <1>4, <1>5 DEF Marked, Means, Every
<1>6. CASE item.any /\ item.every # None
  <2>1. e # 0
    BY <1>4, <1>6 DEF Kills, Cells
  <2>2. Marked(field, item) = {k \in Scope[field] : k % e = 0}
    BY <1>6 DEF Marked, Every
  <2>3. \A k : Means(item, k) <=> \E m \in 0 .. 60 : k = m * e
    BY <1>6 DEF Means
  <2>4. e \in 0 .. 99
    BY <1>3, <1>6
  <2> HIDE DEF e
  <2>5. e \in Nat
    BY <2>4
  <2>6. \A k \in Scope[field] : k % e = 0 <=> \E m \in 0 .. 60 : k = m * e
    BY <1>4, <2>1, <2>5, Multiple
  <2> QED
    BY <2>2, <2>3, <2>6
<1>7. CASE ~item.any /\ item.to = None
  <2>1. item.every = None
    BY <1>7 DEF Kills
  <2>2. Marked(field, item) = {from}
    BY <1>7 DEF Marked
  <2>3. \A k : Means(item, k) <=> k = from
    BY <1>7, <2>1 DEF Means
  <2> QED
    BY <1>2, <1>3, <1>7, <2>2, <2>3
<1>8. CASE ~item.any /\ item.to # None /\ item.every = None
  <2>1. Marked(field, item) = from .. to
    BY <1>8 DEF Marked, Every
  <2>2. \A k : Means(item, k) <=> from <= k /\ k <= to
    BY <1>8 DEF Means
  <2>3. from \in Scope[field] /\ to \in Scope[field]
    BY <1>2, <1>3, <1>8
  <2> HIDE DEF from, to
  <2>4. Marked(field, item) \subseteq Scope[field]
    BY <1>4, <2>1, <2>3
  <2>5. ASSUME NEW k \in Scope[field]
        PROVE  k \in from .. to <=> from <= k /\ k <= to
    <3>1. k \in 0 .. 59 /\ from \in 0 .. 59 /\ to \in 0 .. 59
      BY <1>4, <2>3
    <3> QED
      BY <3>1
  <2> QED
    BY <2>1, <2>2, <2>4, <2>5
<1>9. CASE ~item.any /\ item.to # None /\ item.every # None
  <2>1. Marked(field, item) = {k \in from .. to : (k - from) % e = 0}
    BY <1>9 DEF Marked, Every
  <2>2. \A k : Means(item, k) <=> (\E m \in 0 .. 60 : k = from + m * e) /\ k <= to
    BY <1>9 DEF Means
  <2>3. from \in Scope[field] /\ to \in Scope[field] /\ e \in 0 .. 99
    BY <1>2, <1>3, <1>9
  <2>4. e = 0 => from .. to = {}
    BY <1>9 DEF Kills, Cells
  <2> HIDE DEF from, to, e
  <2>5. Marked(field, item) \subseteq Scope[field]
    BY <1>4, <2>1, <2>3
  <2>6. ASSUME NEW k \in Scope[field]
        PROVE  k \in Marked(field, item) <=> Means(item, k)
    <3>1. k \in Int /\ from \in 0 .. 59 /\ to \in 0 .. 59 /\ k \in 0 .. 59
      BY <1>4, <2>3
    <3>2. CASE k < from
      <4>1. \A m \in 0 .. 60 : m * e >= 0
        BY <2>3
      <4>2. \A m \in 0 .. 60 : k # from + m * e
        BY <2>3, <3>1, <3>2, <4>1
      <4> QED
        BY <2>1, <2>2, <3>1, <3>2, <4>2
    <3>3. CASE k > to
      BY <2>1, <2>2, <3>1, <3>3
    <3>4. CASE from <= k /\ k <= to
      <4> DEFINE d == k - from
      <4>1. e # 0 /\ e \in Nat /\ d \in 0 .. 60
        BY <2>3, <2>4, <3>1, <3>4
      <4> HIDE DEF d
      <4>2. d % e = 0 <=> \E m \in 0 .. 60 : d = m * e
        BY <4>1, Multiple
      <4>3. \A m \in 0 .. 60 : d = m * e <=> k = from + m * e
        <5>1. \A p \in Int : d = p <=> k = from + p
          BY <3>1 DEF d
        <5>2. \A m \in 0 .. 60 : m * e \in Int
          BY <4>1
        <5> QED
          BY <5>1, <5>2
      <4>4. k \in Marked(field, item) <=> d % e = 0
        BY <2>1, <3>1, <3>4 DEF d
      <4> QED
        BY <2>2, <3>4, <4>2, <4>3, <4>4
    <3> QED
      BY <3>1, <3>2, <3>3, <3>4
  <2> QED
    BY <2>5, <2>6
<1> QED
  BY <1>5, <1>6, <1>7, <1>8, <1>9

-----------------------------------------------------------------------------
(* What holds on the way of a field: what was decided, and how far the     *)
(* marking has come.                                                       *)
Decided ==
  /\ pc = "rejected" => ~opt_check(f, items)
  /\ pc \in {"marking", "marked", "dead"} => opt_check(f, items)

MarkedSoFar ==
  /\ pc = "typed" => j = 1 /\ table = {}
  /\ pc = "marking" => j <= Len(items)
  /\ pc = "marked" => j = Len(items) + 1
  /\ pc \in {"marking", "marked"} =>
       /\ j \in 1 .. Len(items) + 1
       /\ \A l \in 1 .. j - 1 : ~Kills(f, items[l])
       /\ table = UNION {Marked(f, items[l]) : l \in 1 .. j - 1}

CheckInv ==
  /\ f \in Fields
  /\ items \in Seq(Singles \cup Listed) /\ items # <<>>
  /\ pc \in {"typed", "rejected", "marking", "marked", "dead"}
  /\ Decided
  /\ MarkedSoFar

(* CheckInv holds when the field has been typed...                         *)
THEOREM CheckInvInit == Init => CheckInv
<1> SUFFICES ASSUME Init PROVE CheckInv
  OBVIOUS
<1>1. items \in Seq(Singles \cup Listed) /\ items # <<>>
  <2>1. \A s \in Singles \cup Listed : <<s>> \in Seq(Singles \cup Listed) /\ <<s>> # <<>>
    OBVIOUS
  <2>2. \A s, t \in Singles \cup Listed : <<s, t>> \in Seq(Singles \cup Listed) /\ <<s, t>> # <<>>
    OBVIOUS
  <2>3. CASE items \in {<<s>> : s \in Singles}
    <3>1. PICK s \in Singles : items = <<s>>
      BY <2>3
    <3> QED
      BY <2>1, <3>1
  <2>4. CASE items \in Listed \X Listed
    <3>1. PICK s, t \in Listed : items = <<s, t>>
      BY <2>4
    <3> QED
      BY <2>2, <3>1
  <2> QED
    BY <2>3, <2>4 DEF Init
<1> QED
  BY <1>1 DEF Init, CheckInv, Decided, MarkedSoFar

(* ... the check of the editor keeps it, and decides ...                   *)
LEMMA CheckStep ==
  ASSUME CheckInv, Check
  PROVE  CheckInv'
<1>1. Len(items) \in Nat /\ Len(items) # 0
  BY DEF CheckInv
<1>2. UNION {Marked(f, items[l]) : l \in 1 .. 0} = {} /\ 1 .. 1 - 1 = {} /\ 1 .. 0 = {}
  OBVIOUS
<1>3. pc = "typed" /\ j = 1 /\ table = {} /\ UNCHANGED <<f, items, j, table>>
  BY DEF CheckInv, MarkedSoFar, Check
<1>4. pc' \in {"marking", "rejected"} /\ (pc' = "marking" <=> opt_check(f, items))
  BY DEF Check
<1>5. Decided'
  <2>1. opt_check(f', items') <=> opt_check(f, items)
    BY <1>3
  <2> QED
    BY <1>3, <1>4, <2>1 DEF Decided
<1>6. MarkedSoFar'
  <2>1. \A l \in 1 .. j - 1 : FALSE
    BY <1>3
  <2>2. UNION {Marked(f, items[l]) : l \in 1 .. j - 1} = {}
    BY <2>1
  <2>3. 1 <= Len(items) /\ 1 \in 1 .. Len(items) + 1
    BY <1>1
  <2> QED
    BY <1>3, <1>4, <2>1, <2>2, <2>3 DEF MarkedSoFar
<1> QED
  BY <1>3, <1>4, <1>5, <1>6 DEF CheckInv

(* ... and a round of the loop over the items marks one item more.         *)
LEMMA MarkStep ==
  ASSUME CheckInv, Mark
  PROVE  CheckInv'
<1>1. Len(items) \in Nat /\ j \in 1 .. Len(items) /\ pc = "marking" /\ opt_check(f, items)
  BY DEF CheckInv, Decided, MarkedSoFar, Mark
<1>2. f' = f /\ items' = items
  BY DEF Mark
<1>3. opt_check(f', items')
  BY <1>1, <1>2
<1>4. CASE Kills(f, items[j]) /\ pc' = "dead"
  BY <1>2, <1>3, <1>4 DEF CheckInv, Decided, MarkedSoFar
<1>5. CASE /\ ~Kills(f, items[j])
           /\ table' = table \cup Marked(f, items[j])
           /\ j' = j + 1
           /\ pc' = IF j = Len(items) THEN "marked" ELSE "marking"
  <2>1. 1 .. j' - 1 = (1 .. j - 1) \cup {j}
    BY <1>1, <1>5
  <2>2. table = UNION {Marked(f, items[l]) : l \in 1 .. j - 1}
    BY <1>1 DEF CheckInv, MarkedSoFar
  <2>3. table' = UNION {Marked(f, items[l]) : l \in 1 .. j' - 1}
    BY <1>5, <2>1, <2>2
  <2>4. \A l \in 1 .. j' - 1 : ~Kills(f, items[l])
    BY <1>1, <1>5, <2>1 DEF CheckInv, MarkedSoFar
  <2>5. /\ j' \in 1 .. Len(items) + 1
        /\ pc' = "marking" => j' <= Len(items)
        /\ pc' = "marked" => j' = Len(items) + 1
    BY <1>1, <1>5
  <2>6. pc' \in {"marking", "marked"}
    BY <1>5
  <2>7. MarkedSoFar'
    BY <1>2, <2>3, <2>4, <2>5, <2>6 DEF MarkedSoFar
  <2>8. Decided'
    BY <1>3, <2>6 DEF Decided
  <2> QED
    BY <1>2, <2>6, <2>7, <2>8 DEF CheckInv
<1> QED
  BY <1>4, <1>5 DEF Mark

(* Every step keeps CheckInv.                                              *)
THEOREM CheckInvStep == CheckInv /\ [Next]_vars => CheckInv'
<1> SUFFICES ASSUME CheckInv, [Next]_vars PROVE CheckInv'
  OBVIOUS
<1>1. CASE Check
  BY <1>1, CheckStep
<1>2. CASE Mark
  BY <1>2, MarkStep
<1>3. CASE UNCHANGED vars
  BY <1>3 DEF vars, CheckInv, Decided, MarkedSoFar
<1> QED
  BY <1>1, <1>2, <1>3 DEF Next

(* CheckInv holds on the whole way of a field.                             *)
THEOREM CheckInvHolds == Spec => []CheckInv
<1> QED
  BY CheckInvInit, CheckInvStep, PTL DEF Spec

-----------------------------------------------------------------------------
(* What was typed are items, and the numbers in them sequences of digits.  *)
LEMMA ItemsShape ==
  ASSUME CheckInv
  PROVE  /\ \A k \in DOMAIN items : IsItem(items[k])
         /\ \A n \in AllNumbers : n \in Seq(0 .. 9) /\ n # None
<1>1. \A k \in DOMAIN items : items[k] \in Singles \cup Listed
  BY DEF CheckInv
<1>2. \A k \in DOMAIN items : IsItem(items[k])
  BY <1>1, ScheduleAssumption
<1>3. \A item : IsItem(item) => \A n \in Numbers(item) : n \in Seq(0 .. 9) /\ n # None
  BY DEF IsItem, Numbers
<1> QED
  BY <1>2, <1>3 DEF AllNumbers

(* The editor accepts a field of short numbers without leading zeros if,   *)
(* and only if, their values are in range and "*" stands first or nowhere: *)
(* what opt_check and the scope checks (ssu_crontab.c:191-321) are for.    *)
THEOREM ChecksTheRangeHolds == Spec => []ChecksTheRange
<1>1. ASSUME CheckInv PROVE ChecksTheRange
  <2> SUFFICES ASSUME \A n \in AllNumbers : Plain(n), pc # "typed"
               PROVE  (pc = "rejected") <=> \/ \E n \in AllNumbers : Value(n) \notin Scope[f]
                                            \/ \E k \in DOMAIN items : k > 1 /\ items[k].any
    BY DEF ChecksTheRange
  <2>1. (pc = "rejected") <=> ~opt_check(f, items)
    BY <1>1 DEF CheckInv, Decided
  <2>2. \A n \in AllNumbers : scope_check(f, n) <=> Value(n) \in Scope[f]
    BY <1>1, ItemsShape, ScopeChecked DEF CheckInv
  <2>3. opt_check(f, items) <=> /\ \A n \in AllNumbers : scope_check(f, n)
                                /\ \A k \in DOMAIN items : k > 1 => ~items[k].any
    BY DEF opt_check, AllNumbers
  <2> QED
    BY <2>1, <2>2, <2>3
<1> QED
  BY <1>1, CheckInvHolds, PTL

(* What the editor accepts and the daemon survives, it marks as it was     *)
(* meant: the loops of make_timetable (ssu_crond.c:129-412) cell by cell.  *)
THEOREM MarkedAsMeantHolds == Spec => []MarkedAsMeant
<1>1. ASSUME CheckInv PROVE MarkedAsMeant
  <2> SUFFICES ASSUME pc = "marked", \A n \in AllNumbers : Plain(n)
               PROVE  /\ table \subseteq Scope[f]
                      /\ \A k \in Scope[f] :
                           k \in table <=> \E l \in DOMAIN items : Means(items[l], k)
    BY DEF MarkedAsMeant
  <2>1. f \in Fields /\ opt_check(f, items)
    BY <1>1 DEF CheckInv, Decided
  <2>2. 1 .. j - 1 = DOMAIN items
    <3>1. Len(items) \in Nat /\ DOMAIN items = 1 .. Len(items) /\ j = Len(items) + 1
      BY <1>1 DEF CheckInv, MarkedSoFar
    <3> QED
      BY <3>1
  <2>3. /\ \A l \in DOMAIN items : ~Kills(f, items[l])
        /\ table = UNION {Marked(f, items[l]) : l \in DOMAIN items}
    BY <1>1, <2>2 DEF CheckInv, MarkedSoFar
  <2>4. ASSUME NEW l \in DOMAIN items
        PROVE  /\ Marked(f, items[l]) \subseteq Scope[f]
               /\ \A k \in Scope[f] : k \in Marked(f, items[l]) <=> Means(items[l], k)
    <3>1. \A n \in Numbers(items[l]) : n \in AllNumbers
      BY DEF AllNumbers
    <3>2. \A n \in Numbers(items[l]) : Plain(n) /\ Value(n) \in Scope[f]
      BY <1>1, <2>1, <3>1, ItemsShape, ScopeChecked DEF opt_check
    <3>3. IsItem(items[l])
      BY <1>1, ItemsShape
    <3> QED
      BY <2>1, <2>3, <3>2, <3>3, ItemMarked
  <2> QED
    BY <2>3, <2>4
<1> QED
  BY <1>1, CheckInvHolds, PTL
=============================================================================
