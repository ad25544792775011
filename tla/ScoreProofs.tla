---------------------------- MODULE ScoreProofs -----------------------------
(***************************************************************************)
(* Theorems about Score, for all numbers of students and questions, all    *)
(* papers and points, and however often the grader is killed.              *)
(***************************************************************************)
EXTENDS Score, SequenceTheorems, FiniteSetTheorems, WellFoundedInduction, TLAPS

Busy == {"forked", "running"}

-----------------------------------------------------------------------------
(* The program that ps lists is the one the grader waits for, and while it *)
(* is held against the limit it has been exec'ed.                          *)
Watched ==
  /\ DOMAIN proc = Jobs
  /\ pc = "limit" => pid = Job /\ (Job \in Jobs => proc[Job] # "forked")

LeftoverInv == Watched /\ NoLeftovers

(* The steps that launch, watch or kill nothing.                           *)
LEMMA LeftoversKept ==
  ASSUME LeftoverInv, UNCHANGED proc, pc \notin {"poll", "limit"}, pc' # "limit"
  PROVE  LeftoverInv'
<1>1. \A j \in Jobs : proc[j] \notin Busy
  BY DEF LeftoverInv, NoLeftovers, Busy
<1> QED
  BY <1>1 DEF LeftoverInv, NoLeftovers, Watched, Busy

LEMMA LeftoverGrader ==
  ASSUME LeftoverInv, Prompt, Grader
  PROVE  LeftoverInv'
<1> USE DEF files, tables, row, programs, ghosts
<1>1. CASE check_option \/ read_scoreTable \/ make_scoreTable \/ write_scoreTable
             \/ do_mOption \/ set_idTable \/ NoAnswer \/ score_blank \/ compile_program
             \/ Compare \/ EndRow \/ EndStudents
  <2>1. UNCHANGED proc /\ pc \notin {"poll", "limit"}
    BY <1>1 DEF check_option, read_scoreTable, make_scoreTable, write_scoreTable, do_mOption,
                set_idTable, NoAnswer, score_blank, compile_program, Compare, EndRow, EndStudents,
                Asked, Graded
  <2>2. pc' # "limit"
    BY <1>1 DEF check_option, read_scoreTable, make_scoreTable, write_scoreTable, do_mOption,
                set_idTable, NoAnswer, score_blank, compile_program, Compare, EndRow, EndStudents,
                Asked, Graded, Give, AfterTable
  <2> QED
    BY <2>1, <2>2, LeftoversKept
<1>2. CASE Launch
  <2>1. /\ pc = "launch" /\ pc' = "poll" /\ Job' = Job
        /\ proc' = [proc EXCEPT ![Job] = "forked"]
    BY <1>2 DEF Launch, Job, id, qname
  <2>2. \A j \in Jobs : proc[j] \notin Busy
    BY <2>1 DEF LeftoverInv, NoLeftovers, Busy
  <2>3. \A j \in Jobs : j # Job => proc'[j] = proc[j]
    BY <2>1 DEF LeftoverInv, Watched
  <2>4. NoLeftovers'
    BY <2>1, <2>2, <2>3 DEF NoLeftovers, Busy
  <2>5. Watched'
    BY <2>1 DEF LeftoverInv, Watched
  <2> QED
    BY <2>4, <2>5 DEF LeftoverInv
<1>3. CASE inBackground
  <2> DEFINE listed == {j \in Jobs : proc[j] = "running" /\ j[2] \in Alike[qname]}
  <2>1. pc = "poll" /\ proc' = proc /\ Job' = Job /\ proc[Job] # "forked"
    BY <1>3, Prompt DEF inBackground, Job, id, qname
  <2>2. \A j \in Jobs : proc[j] \in Busy => j = Job /\ proc[j] = "running"
    BY <2>1 DEF LeftoverInv, NoLeftovers, Busy
  <2>3. CASE \E j \in listed : pid' = j /\ pc' = "limit"
    <3>1. pid' = Job /\ pc' = "limit"
      BY <2>2, <2>3 DEF Busy
    <3> QED
      BY <2>1, <2>2, <3>1 DEF LeftoverInv, Watched, NoLeftovers, Busy
  <2>4. CASE listed = {} /\ pc' = "compare"
    <3>1. ASSUME NEW j \in Jobs, proc[j] \in Busy
          PROVE  FALSE
      <4>1. j = Job /\ proc[j] = "running"
        BY <2>2, <3>1
      <4>2. qname \in CFiles /\ j[2] = qname
        BY <4>1 DEF Jobs, Job
      <4>3. j \in listed
        BY <4>1, <4>2, ScoreAssumption
      <4> QED
        BY <4>3, <2>4
    <3> QED
      BY <2>1, <2>4, <3>1 DEF LeftoverInv, Watched, NoLeftovers, Busy
  <2> QED
    BY <1>3, <2>3, <2>4 DEF inBackground
<1>4. CASE CheckTime
  <2>1. pc = "limit" /\ pid = Job /\ (Job \in Jobs => proc[Job] # "forked")
    BY <1>4 DEF CheckTime, LeftoverInv, Watched
  <2>2. \A j \in Jobs : proc[j] \in Busy => j = Job /\ proc[j] = "running"
    BY <2>1 DEF LeftoverInv, NoLeftovers, Busy
  <2>3. CASE /\ proc' = [proc EXCEPT ![pid] = IF @ = "running" THEN "killed" ELSE @]
             /\ pc' = "grade"
    <3>1. \A j \in Jobs : proc'[j] = IF j = Job /\ proc[j] = "running" THEN "killed" ELSE proc[j]
      BY <2>1, <2>3 DEF LeftoverInv, Watched
    <3>2. \A j \in Jobs : proc'[j] \notin Busy
      BY <2>2, <3>1 DEF Busy
    <3> QED
      BY <2>3, <3>2 DEF LeftoverInv, Watched, NoLeftovers, Busy
  <2>4. CASE pc' = "poll" /\ UNCHANGED <<row, proc>>
    <3>1. Job' = Job
      BY <1>4, <2>4 DEF CheckTime, Job, id, qname
    <3> QED
      BY <2>1, <2>2, <2>4, <3>1 DEF LeftoverInv, Watched, NoLeftovers, Busy
  <2> QED
    BY <1>4, <2>3, <2>4 DEF CheckTime, Late
<1> QED
  BY <1>1, <1>2, <1>3, <1>4 DEF Grader

LEMMA LeftoverOther ==
  ASSUME LeftoverInv, \/ \E j \in Jobs : Exec(j) \/ Prints(j) \/ Ends(j)
                      \/ Tick \/ Crash \/ RunAgain \/ UNCHANGED vars
  PROVE  LeftoverInv'
<1> USE DEF files, tables, row, programs, ghosts
<1>1. ASSUME NEW j \in Jobs, Exec(j) \/ Prints(j) \/ Ends(j)
      PROVE  LeftoverInv'
  <2>1. pc' = pc /\ pid' = pid /\ Job' = Job
    BY <1>1 DEF Exec, Prints, Ends, Job, id, qname
  <2>2. /\ proc[j] \in Busy
        /\ proc' = proc \/ \E how \in {"running", "ended"} : proc' = [proc EXCEPT ![j] = how]
    BY <1>1 DEF Exec, Prints, Ends, Busy
  <2>3. \A m \in Jobs : proc'[m] = proc[m] \/ (proc[m] \in Busy /\ proc'[m] \in {"running", "ended"})
    BY <2>2 DEF LeftoverInv, Watched
  <2>4. DOMAIN proc' = Jobs
    BY <2>2 DEF LeftoverInv, Watched
  <2> QED
    BY <2>1, <2>3, <2>4 DEF LeftoverInv, Watched, NoLeftovers, Busy
<1>2. CASE Tick \/ UNCHANGED vars
  <2>1. pc' = pc /\ pid' = pid /\ proc' = proc /\ Job' = Job
    BY <1>2 DEF Tick, vars, Job, id, qname
  <2> QED
    BY <2>1 DEF LeftoverInv, Watched, NoLeftovers
<1>3. CASE Crash \/ RunAgain
  <2>1. pc' = "off" /\ proc' = [j \in Jobs |-> "none"]
    BY <1>3 DEF Crash, RunAgain, NewProcess
  <2> QED
    BY <2>1 DEF LeftoverInv, Watched, NoLeftovers
<1> QED
  BY <1>1, <1>2, <1>3

LEMMA LeftoverInvariance ==
  ASSUME Prompt
  PROVE  Spec => []LeftoverInv
<1>1. Init => LeftoverInv
  BY DEF Init, LeftoverInv, Watched, NoLeftovers
<1>2. LeftoverInv /\ [Next]_vars => LeftoverInv'
  BY Prompt, LeftoverGrader, LeftoverOther DEF Next, Ended
<1> QED
  BY <1>1, <1>2, PTL DEF Spec

(* When the grader goes on, the program it has judged is not running any   *)
(* more: at most one program runs, and it is the one that is watched.      *)
THEOREM NoLeftoversHolds ==
  ASSUME Prompt
  PROVE  Spec => []NoLeftovers
BY LeftoverInvariance, PTL DEF LeftoverInv

-----------------------------------------------------------------------------
Judging == {"launch", "poll", "limit", "compare"}
Grading == {"grade"} \cup Judging
Tabled == {"modify", "score"} \cup Grading

(* score_table.csv holds the first lines of what was typed, in hundredths, *)
(* and the grader goes by what was typed or by what the file holds.        *)
Recorded ==
  /\ ~csv.exists => csv.lines = <<>>
  /\ csv.exists =>
       /\ Len(csv.lines) <= Len(Columns(typed))
       /\ \A c \in 1 .. Len(csv.lines) : csv.lines[c].qname = typed[c].qname
  /\ pc = "write" => csv.exists /\ score_table = typed /\ i = Len(csv.lines) + 1
  /\ pc \in Tabled => csv.exists /\ score_table \in {typed, csv.lines}

(* Where the grader is: the rows and cells before that are written.        *)
Placed ==
  pc \in Grading =>
    /\ id_table = InOrder(Students)
    /\ num \in 1 .. Len(id_table) + 1 /\ Len(result.rows) = num - 1
    /\ i \in 1 .. Len(Columns(score_table)) + 1 /\ Len(cells) = i - 1
    /\ result.header = Columns(score_table)
    /\ \A c \in DOMAIN result.rows : Len(result.rows[c].cells) = Len(Columns(score_table))

(* What is launched is a program that was handed in and compiles.          *)
Compiled ==
  /\ pc \in Judging =>
       /\ num <= Len(id_table) /\ i <= Len(Columns(score_table))
       /\ qname \in CFiles /\ Answer # Missing
       /\ Silent(Solutions[qname]) /\ ~Answer.error
       /\ compile = IF Silent(Answer) THEN true ELSE WARNING * Answer.warnings
  /\ \A j \in Jobs : proc[j] # "none" => Program(j) # Missing

PlaceInv == TypeOK /\ Recorded /\ Placed /\ Compiled

-----------------------------------------------------------------------------
(* The numbers of S in their order.                                        *)
Below(S, n) == {m \in S : m < n}

LEMMA Ranks ==
  ASSUME NEW S \in SUBSET Nat, IsFiniteSet(S)
  PROVE  /\ Cardinality(S) \in Nat
         /\ \A n \in S : Cardinality(Below(S, n)) \in 0 .. Cardinality(S) - 1
         /\ \A n, m \in S : n < m => Cardinality(Below(S, n)) < Cardinality(Below(S, m))
<1>1. Cardinality(S) \in Nat
  BY FS_CardinalityType
<1>2. ASSUME NEW T \in SUBSET S, NEW U \in SUBSET T, T # U
      PROVE  Cardinality(U) \in Nat /\ Cardinality(T) \in Nat /\ Cardinality(U) < Cardinality(T)
  <2>1. IsFiniteSet(T) /\ IsFiniteSet(U)
    BY FS_Subset
  <2>2. Cardinality(T) \in Nat /\ Cardinality(U) \in Nat
    BY <2>1, FS_CardinalityType
  <2>3. Cardinality(U) <= Cardinality(T) /\ Cardinality(U) # Cardinality(T)
    BY <2>1, <1>2, FS_Subset
  <2> QED
    BY <2>2, <2>3
<1>3. ASSUME NEW n \in S
      PROVE  Cardinality(Below(S, n)) \in 0 .. Cardinality(S) - 1
  <2>1. Below(S, n) \in SUBSET S /\ n \in S /\ n \notin Below(S, n)
    BY DEF Below
  <2>2. Cardinality(Below(S, n)) \in Nat /\ Cardinality(Below(S, n)) < Cardinality(S)
    BY <2>1, <1>2
  <2> QED
    BY <1>1, <2>2
<1>4. ASSUME NEW n \in S, NEW m \in S, n < m
      PROVE  Cardinality(Below(S, n)) < Cardinality(Below(S, m))
  <2>1. /\ Below(S, m) \in SUBSET S /\ Below(S, n) \in SUBSET Below(S, m)
        /\ n \in Below(S, m) /\ n \notin Below(S, n)
    <3>1. n \in Nat /\ m \in Nat /\ \A l \in S : l \in Nat
      OBVIOUS
    <3>2. \A l \in S : l < n => l < m
      BY <3>1, <1>4
    <3>3. n \in Below(S, m) /\ n \notin Below(S, n)
      BY <3>1, <1>4 DEF Below
    <3>4. Below(S, n) \in SUBSET Below(S, m)
      BY <3>2 DEF Below
    <3> QED
      BY <3>3, <3>4 DEF Below
  <2> QED
    BY <2>1, <1>2
<1> QED
  BY <1>1, <1>3, <1>4

LEMMA OrderEnumerates ==
  ASSUME NEW S \in SUBSET Nat, IsFiniteSet(S)
  PROVE  /\ InOrder(S) \in Seq(S) /\ Len(InOrder(S)) = Cardinality(S)
         /\ \A a, b \in 1 .. Cardinality(S) : a < b => InOrder(S)[a] < InOrder(S)[b]
         /\ \A n \in S : \E a \in 1 .. Cardinality(S) : InOrder(S)[a] = n
<1> DEFINE size == Cardinality(S)
           rank == [n \in S |-> Cardinality(Below(S, n))]
<1>1. size \in Nat /\ rank \in [S -> 0 .. size - 1]
  BY Ranks
<1>2. \A n, m \in S : n < m => rank[n] < rank[m]
  BY Ranks
<1>3. \A n, m \in S : rank[n] = rank[m] => n = m
  <2> SUFFICES ASSUME NEW n \in S, NEW m \in S, rank[n] = rank[m], n # m
               PROVE  FALSE
    OBVIOUS
  <2>1. n < m \/ m < n
    OBVIOUS
  <2> HIDE DEF rank
  <2>2. rank[n] \in Int /\ rank[m] \in Int
    BY <1>1
  <2> QED
    BY <1>2, <2>1, <2>2
<1> HIDE DEF rank
<1>4. rank \in Injection(S, 0 .. size - 1)
  BY <1>1, <1>3 DEF Injection, IsInjective
<1>5. IsFiniteSet(0 .. size - 1) /\ Cardinality(0 .. size - 1) = size
  <2>1. \A n \in Nat : IsFiniteSet(0 .. n - 1) /\ Cardinality(0 .. n - 1) = n
    BY FS_Interval
  <2> QED
    BY <2>1, <1>1
<1>6. rank \in Surjection(S, 0 .. size - 1)
  BY <1>4, <1>5, FS_Injection
<1>7. \A a \in 1 .. size : \E n \in S : rank[n] = a - 1
  BY <1>1, <1>6 DEF Surjection
<1>8. \A a \in 1 .. size :
        InOrder(S)[a] = CHOOSE n \in S : Cardinality({m \in S : m < n}) = a - 1
  BY DEF InOrder, Kth
<1>9. ASSUME NEW a \in 1 .. size
      PROVE  InOrder(S)[a] \in S /\ rank[InOrder(S)[a]] = a - 1
  <2>1. \E n \in S : Cardinality({m \in S : m < n}) = a - 1
    BY <1>7 DEF rank, Below
  <2>2. /\ InOrder(S)[a] \in S
        /\ Cardinality({m \in S : m < InOrder(S)[a]}) = a - 1
    BY <1>8, <2>1, Zenon
  <2> QED
    BY <2>2 DEF rank, Below
<1>10. InOrder(S) \in Seq(S) /\ Len(InOrder(S)) = size
  <2>1. InOrder(S) = [a \in 1 .. size |-> InOrder(S)[a]]
    BY DEF InOrder
  <2> QED
    BY <1>1, <2>1, <1>9
<1>11. ASSUME NEW a \in 1 .. size, NEW b \in 1 .. size, a < b
       PROVE  InOrder(S)[a] < InOrder(S)[b]
  <2> DEFINE n == InOrder(S)[a]
             m == InOrder(S)[b]
  <2>1. n \in S /\ m \in S /\ rank[n] = a - 1 /\ rank[m] = b - 1
    BY <1>9
  <2> HIDE DEF n, m
  <2>2. rank[n] \in Int /\ rank[m] \in Int /\ rank[n] < rank[m]
    BY <2>1, <1>11
  <2>3. n < m \/ m < n \/ n = m
    BY <2>1
  <2>4. ~(m < n) /\ n # m
    BY <2>1, <2>2, <1>2
  <2> QED
    BY <2>3, <2>4 DEF n, m
<1>12. ASSUME NEW n \in S
       PROVE  \E a \in 1 .. size : InOrder(S)[a] = n
  <2>1. rank[n] + 1 \in 1 .. size /\ (rank[n] + 1) - 1 = rank[n]
    BY <1>1
  <2>2. rank[InOrder(S)[rank[n] + 1]] = rank[n] /\ InOrder(S)[rank[n] + 1] \in S
    BY <2>1, <1>9
  <2> QED
    BY <2>1, <2>2, <1>3
<1> QED
  BY <1>10, <1>11, <1>12

(* Every non-empty set of numbers has a least one.                         *)
LEMMA LeastNumber ==
  ASSUME NEW S \in SUBSET Nat, S # {}
  PROVE  Min(S) \in S /\ \A n \in S : Min(S) <= n
<1>1. PICK n \in S : \A m \in S : ~(<<m, n>> \in OpToRel(<, Nat))
  BY WFMin, NatLessThanWellFounded
<1>2. \A m \in S : ~(m < n)
  BY <1>1 DEF OpToRel
<1>3. n \in S /\ \A m \in S : n =< m
  BY <1>2
<1> QED
  BY <1>3 DEF Min

(* The questions that are graded are the first ones of the table.          *)
LEMMA ColumnsPrefix ==
  ASSUME NEW table \in Seq(Entries)
  PROVE  /\ Columns(table) \in Seq(Entries) /\ Len(Columns(table)) <= Len(table)
         /\ \A c \in 1 .. Len(Columns(table)) : Columns(table)[c] = table[c]
<1> DEFINE worthless == {c \in DOMAIN table : table[c].score = 0}
<1>1. CASE worthless = {}
  BY <1>1 DEF Columns
<1>2. CASE worthless # {}
  <2>1. Min(worthless) \in 1 .. Len(table)
    <3>1. worthless \in SUBSET Nat /\ worthless \subseteq 1 .. Len(table)
      OBVIOUS
    <3> QED
      BY <3>1, <1>2, LeastNumber
  <2>2. Columns(table) = SubSeq(table, 1, Min(worthless) - 1)
    BY <1>2 DEF Columns
  <2> HIDE DEF worthless
  <2> QED
    BY <2>1, <2>2
<1> QED
  BY <1>1, <1>2

-----------------------------------------------------------------------------
(* What the grader is at has its type.                                     *)
LEMMA Typed ==
  ASSUME TypeOK, num <= Len(id_table), i <= Len(Columns(score_table))
  PROVE  /\ id \in Students /\ score_table[i] \in Entries /\ i <= Len(score_table)
         /\ qname \in Questions /\ score_table[i].score \in Nat
         /\ qname \in CFiles => /\ Job \in Jobs /\ Answer = Program(Job)
                               /\ Answer \in Sources \cup {Missing}
                               /\ Solutions[qname] \in Sources
<1>1. id_table \in Seq(Students) /\ num \in 1 .. Len(id_table)
  BY DEF TypeOK
<1>2. id \in Students
  BY <1>1 DEF id
<1>3. score_table \in Seq(Entries) /\ i \in 1 .. Len(score_table)
  BY ColumnsPrefix DEF TypeOK
<1>4. score_table[i] \in Entries
  BY <1>3
<1>5. qname \in Questions /\ score_table[i].score \in Nat
  BY <1>4 DEF Entries, qname
<1>6. ASSUME qname \in CFiles
      PROVE  /\ Job \in Jobs /\ Answer = Program(Job)
             /\ Answer \in Sources \cup {Missing} /\ Solutions[qname] \in Sources
  <2>1. Job \in Jobs /\ Answer = Program(Job)
    BY <1>2, <1>6 DEF Job, Jobs, Answer, Program
  <2>2. handed_in \in Papers
    BY DEF TypeOK
  <2> QED
    BY <2>1, <2>2, <1>2, <1>6, PaperAssumption DEF Answer
<1> QED
  BY <1>2, <1>3, <1>4, <1>5, <1>6

LEMMA ProgramTyped ==
  ASSUME TypeOK, NEW j \in Jobs
  PROVE  Program(j) \in Sources \cup {Missing}
BY PaperAssumption DEF TypeOK, Jobs, Program

-----------------------------------------------------------------------------
(* One lemma for each step, or for the steps that do alike.                *)
LEMMA PlaceTable ==
  ASSUME PlaceInv, check_option \/ read_scoreTable \/ do_mOption
  PROVE  PlaceInv'
<1> USE DEF files, tables, row, programs, ghosts
<1>1. /\ UNCHANGED <<handed_in, csv, result, id_table, row, compile, pid, programs, typed, overdue>>
      /\ pc' \in {"table", "modify", "score"}
  BY DEF check_option, read_scoreTable, do_mOption, AfterTable
<1>2. errors' \subseteq Jobs /\ runs' \in 0 .. MaxRuns /\ streams' \in 0 .. MaxStreams
  <2>1. /\ errors \subseteq Jobs /\ runs \in 0 .. MaxRuns /\ streams \in 0 .. MaxStreams
        /\ MaxRuns \in Nat /\ MaxStreams \in Nat
    BY ScoreAssumption DEF PlaceInv, TypeOK
  <2>2. errors' \in {{}, errors} /\ (runs' = runs \/ (runs < MaxRuns /\ runs' = runs + 1))
    BY DEF check_option, read_scoreTable, do_mOption
  <2>3. streams' = streams \/ (streams < MaxStreams /\ streams' = streams + 1)
    BY DEF check_option, read_scoreTable, do_mOption
  <2> QED
    BY <2>1, <2>2, <2>3
<1>3. score_table' \in Seq(Entries)
  BY DEF check_option, read_scoreTable, do_mOption, PlaceInv, TypeOK
<1>4. TypeOK'
  BY <1>1, <1>2, <1>3 DEF PlaceInv, TypeOK
<1>5. pc' \in {"modify", "score"} => csv.exists /\ score_table' \in {typed, csv.lines}
  BY <1>1 DEF check_option, read_scoreTable, do_mOption, PlaceInv, Recorded, Tabled
<1>6. Recorded'
  BY <1>1, <1>5 DEF PlaceInv, Recorded, Tabled, Grading, Judging
<1>7. Placed' /\ Compiled'
  BY <1>1 DEF PlaceInv, Placed, Compiled, Grading, Judging, Program
<1> QED
  BY <1>4, <1>6, <1>7 DEF PlaceInv

LEMMA PlaceMake ==
  ASSUME PlaceInv, make_scoreTable
  PROVE  PlaceInv'
<1> USE DEF tables, programs
<1> DEFINE order == InOrder(Questions)
<1>1. order \in Seq(Questions)
  BY OrderEnumerates, ScoreAssumption
<1> HIDE DEF order
<1>2. PICK points \in [Questions -> Scores] :
        score_table' = [c \in 1 .. Len(order) |-> Question(order[c], points[order[c]])]
  BY DEF make_scoreTable, order
<1>3. \A c \in 1 .. Len(order) : Question(order[c], points[order[c]]) \in Entries
  <2> TAKE c \in 1 .. Len(order)
  <2>1. order[c] \in Questions
    BY <1>1
  <2>2. points[order[c]] \in Nat
    BY <2>1, ScoreAssumption
  <2> QED
    BY <2>1, <2>2 DEF Question, Entries
<1>4. score_table' \in Seq(Entries)
  BY <1>1, <1>2, <1>3
<1>5. /\ typed' = score_table' /\ i' = 1 /\ pc' = "write" /\ pc = "table" /\ ~csv.exists
      /\ csv' = [csv EXCEPT !.exists = TRUE]
      /\ UNCHANGED <<handed_in, result, errors, id_table, streams, num, cells, score,
                     compile, pid, programs, overdue, runs>>
  BY DEF make_scoreTable
<1>6. csv' = [exists |-> TRUE, lines |-> <<>>]
  BY <1>5 DEF PlaceInv, TypeOK, Recorded
<1>7. TypeOK'
  <2>1. csv' \in [exists : BOOLEAN, lines : Seq(Entries)]
    BY <1>6
  <2>2. score_table' \in Seq(Entries) /\ typed' \in Seq(Entries) /\ i' \in Nat \ {0}
    BY <1>4, <1>5
  <2> QED
    BY <1>5, <2>1, <2>2 DEF PlaceInv, TypeOK
<1>8. Recorded'
  <2>1. Columns(typed') \in Seq(Entries)
    BY <1>4, <1>5, ColumnsPrefix
  <2> QED
    BY <1>5, <1>6, <2>1 DEF Recorded, Tabled, Grading, Judging
<1>9. Placed' /\ Compiled'
  BY <1>5 DEF PlaceInv, Placed, Compiled, Grading, Judging, Program
<1> QED
  BY <1>7, <1>8, <1>9 DEF PlaceInv

LEMMA PlaceWrite ==
  ASSUME PlaceInv, write_scoreTable
  PROVE  PlaceInv'
<1> USE DEF tables, programs, ghosts
<1>1. /\ pc = "write"
      /\ UNCHANGED <<handed_in, result, errors, tables, streams, num, cells, score,
                     compile, pid, programs, ghosts>>
  BY DEF write_scoreTable
<1>2. /\ csv.exists /\ score_table = typed /\ i = Len(csv.lines) + 1
      /\ Len(csv.lines) <= Len(Columns(typed))
      /\ \A c \in 1 .. Len(csv.lines) : csv.lines[c].qname = typed[c].qname
      /\ csv \in [exists : BOOLEAN, lines : Seq(Entries)]
  BY <1>1 DEF PlaceInv, Recorded, TypeOK
<1>3. CASE /\ i <= Len(Columns(score_table)) /\ i' = i + 1 /\ pc' = pc
           /\ csv' = [csv EXCEPT !.lines = Append(@, Question(qname, Written(score_table[i].score)))]
  <2> DEFINE line == Question(qname, Written(score_table[i].score))
  <2>1. score_table \in Seq(Entries) /\ i \in Nat \ {0}
    BY DEF PlaceInv, TypeOK
  <2>2. i \in 1 .. Len(score_table) /\ Columns(score_table) \in Seq(Entries)
    BY <2>1, <1>3, ColumnsPrefix
  <2>3. score_table[i] \in Entries
    BY <2>1, <2>2
  <2>4. qname \in Questions /\ score_table[i].score \in Nat
    BY <2>3 DEF Entries, qname
  <2>5. line \in Entries /\ line.qname = typed[i].qname
    BY <1>2, <2>4 DEF Entries, Question, Written, qname
  <2> HIDE DEF line
  <2>6. /\ csv' = [exists |-> TRUE, lines |-> Append(csv.lines, line)]
    BY <1>2, <1>3 DEF line
  <2>7. /\ Append(csv.lines, line) \in Seq(Entries)
        /\ Len(Append(csv.lines, line)) = i
        /\ \A c \in 1 .. i : Append(csv.lines, line)[c] = IF c = i THEN line ELSE csv.lines[c]
    BY <1>2, <2>5
  <2>8. TypeOK'
    <3>1. csv' \in [exists : BOOLEAN, lines : Seq(Entries)]
      BY <2>6, <2>7
    <3>2. i' \in Nat \ {0}
      BY <1>3, <2>1
    <3> QED
      BY <1>1, <1>3, <3>1, <3>2 DEF PlaceInv, TypeOK
  <2>9. \A c \in 1 .. i : Append(csv.lines, line)[c].qname = typed[c].qname
    <3> TAKE c \in 1 .. i
    <3>1. CASE c = i
      BY <2>5, <2>7, <3>1
    <3>2. CASE c # i
      <4>1. c \in 1 .. Len(csv.lines)
        BY <3>2, <1>2, <2>1
      <4> QED
        BY <4>1, <3>2, <2>7, <1>2
    <3> QED
      BY <3>1, <3>2
  <2>10. Recorded'
    BY <1>1, <1>2, <1>3, <2>6, <2>7, <2>9 DEF Recorded, Tabled, Grading, Judging
  <2>11. Placed' /\ Compiled'
    BY <1>1, <1>3 DEF PlaceInv, Placed, Compiled, Grading, Judging, Program
  <2> QED
    BY <2>8, <2>10, <2>11 DEF PlaceInv
<1>4. CASE pc' = AfterTable /\ UNCHANGED <<csv, i>>
  <2>1. pc' \in {"modify", "score"}
    BY <1>4 DEF AfterTable
  <2>2. TypeOK'
    BY <1>1, <1>4, <2>1 DEF PlaceInv, TypeOK
  <2>3. Recorded'
    BY <1>1, <1>2, <1>4, <2>1 DEF PlaceInv, Recorded
  <2>4. Placed' /\ Compiled'
    BY <1>1, <2>1 DEF PlaceInv, Placed, Compiled, Grading, Judging, Program
  <2> QED
    BY <2>2, <2>3, <2>4 DEF PlaceInv
<1> QED
  BY <1>3, <1>4 DEF write_scoreTable

LEMMA PlaceStudents ==
  ASSUME PlaceInv, set_idTable
  PROVE  PlaceInv'
<1> USE DEF row, programs, ghosts
<1>1. /\ pc = "score"
      /\ UNCHANGED <<handed_in, csv, errors, score_table, streams, compile, pid, programs, ghosts>>
  BY DEF set_idTable
<1>2. CASE /\ id_table' = InOrder(Students)
           /\ result' = [header |-> Columns(score_table), rows |-> <<>>]
           /\ num' = 1 /\ i' = 1 /\ cells' = <<>> /\ score' = 0
           /\ pc' = "grade"
  <2>1. InOrder(Students) \in Seq(Students)
    BY OrderEnumerates, ScoreAssumption
  <2>2. Columns(score_table) \in Seq(Entries)
    BY ColumnsPrefix DEF PlaceInv, TypeOK
  <2>3. result' \in [header : Seq(Entries), rows : Seq(Rows)]
    BY <1>2, <2>2
  <2>4. TypeOK'
    BY <1>1, <1>2, <2>1, <2>3 DEF PlaceInv, TypeOK
  <2>5. Recorded'
    BY <1>1, <1>2 DEF PlaceInv, Recorded, Tabled
  <2>6. Placed'
    BY <1>1, <1>2, <2>1, <2>2 DEF Placed
  <2>7. Compiled'
    BY <1>1, <1>2 DEF PlaceInv, Compiled, Judging, Program
  <2> QED
    BY <2>4, <2>5, <2>6, <2>7 DEF PlaceInv
<1>3. CASE pc' = "done" /\ UNCHANGED <<id_table, result, row>>
  <2>1. TypeOK'
    BY <1>1, <1>3 DEF PlaceInv, TypeOK
  <2>2. Recorded'
    BY <1>1, <1>3 DEF PlaceInv, Recorded, Tabled, Grading, Judging
  <2>3. Placed' /\ Compiled'
    BY <1>1, <1>3 DEF PlaceInv, Placed, Compiled, Grading, Judging, Program
  <2> QED
    BY <2>1, <2>2, <2>3 DEF PlaceInv
<1> QED
  BY <1>2, <1>3 DEF set_idTable

(* A verdict is 0, 1 or a deduction; with it the cell is written.          *)
LEMMA PlaceGive ==
  ASSUME PlaceInv, NEW verdict \in Int, verdict \in {false, true} \/ verdict < 0,
         pc \in Grading, num <= Len(id_table), i <= Len(Columns(score_table)),
         Give(verdict), errors' \subseteq Jobs, compile' \in Int, UNCHANGED <<programs>>
  PROVE  PlaceInv'
<1> USE DEF tables, programs, ghosts
<1>1. score_table[i].score \in Nat
  BY Typed DEF PlaceInv
<1>2. Points(verdict) \in Int
  BY <1>1 DEF Points, true, false
<1>3. /\ cells' = Append(cells, Points(verdict)) /\ score' = score + Points(verdict)
      /\ i' = i + 1 /\ pc' = "grade"
      /\ UNCHANGED <<handed_in, csv, result, tables, streams, num, pid, ghosts, programs>>
  BY DEF Give
<1>4. TypeOK'
  <2>1. cells \in Seq(Int) /\ score \in Int /\ i \in Nat \ {0}
    BY DEF PlaceInv, TypeOK
  <2>2. cells' \in Seq(Int) /\ score' \in Int /\ i' \in Nat \ {0}
    BY <1>2, <1>3, <2>1
  <2> QED
    BY <1>3, <2>2 DEF PlaceInv, TypeOK
<1>5. Recorded'
  BY <1>3 DEF PlaceInv, Recorded, Tabled
<1>6. Placed'
  <2>1. Columns(score_table) \in Seq(Entries) /\ cells \in Seq(Int) /\ i \in Nat
    BY ColumnsPrefix DEF PlaceInv, TypeOK
  <2>2. Len(cells') = i' - 1 /\ i' \in 1 .. Len(Columns(score_table)) + 1
    BY <1>3, <2>1 DEF PlaceInv, Placed
  <2> QED
    BY <1>3, <2>2 DEF PlaceInv, Placed
<1>7. Compiled'
  BY <1>3 DEF PlaceInv, Compiled, Judging, Program
<1> QED
  BY <1>4, <1>5, <1>6, <1>7 DEF PlaceInv

LEMMA PlaceAnswer ==
  ASSUME PlaceInv, NoAnswer \/ score_blank \/ Compare
  PROVE  PlaceInv'
<1>1. compile \in Int /\ errors \subseteq Jobs
  BY DEF PlaceInv, TypeOK
<1>2. CASE NoAnswer \/ score_blank
  <2>1. PICK verdict \in {false, true} : Give(verdict)
    BY <1>2 DEF NoAnswer, score_blank
  <2>2. /\ pc \in Grading /\ num <= Len(id_table) /\ i <= Len(Columns(score_table))
        /\ UNCHANGED <<programs, errors, compile>>
    BY <1>2 DEF NoAnswer, score_blank, Asked, Graded, Grading
  <2> QED
    BY <1>1, <2>1, <2>2, PlaceGive DEF false, true
<1>3. CASE Compare
  <2>1. /\ pc = "compare" /\ num <= Len(id_table) /\ i <= Len(Columns(score_table))
        /\ qname \in CFiles /\ Answer # Missing /\ ~Answer.error
        /\ compile = IF Silent(Answer) THEN true ELSE WARNING * Answer.warnings
    BY <1>3 DEF Compare, PlaceInv, Compiled, Judging
  <2>2. Answer \in Sources
    BY <2>1, Typed DEF PlaceInv
  <2>3. compile = true \/ compile < 0
    <3>1. Answer.warnings \in Nat
      BY <2>2 DEF Sources
    <3>2. Silent(Answer) \/ Answer.warnings # 0
      BY <2>1 DEF Silent
    <3>3. \A n \in Nat : n # 0 => WARNING * n < 0
      BY DEF WARNING
    <3> QED
      BY <2>1, <3>1, <3>2, <3>3
  <2>4. PICK verdict \in {false, compile} : Give(verdict)
    BY <1>3 DEF Compare
  <2>5. UNCHANGED <<programs, errors, compile>>
    BY <1>3 DEF Compare
  <2>6. verdict \in Int /\ (verdict \in {false, true} \/ verdict < 0)
    BY <1>1, <2>3, <2>4 DEF false, true
  <2> QED
    BY <1>1, <2>1, <2>4, <2>5, <2>6, PlaceGive DEF Grading, Judging
<1> QED
  BY <1>2, <1>3

LEMMA PlaceCompile ==
  ASSUME PlaceInv, compile_program
  PROVE  PlaceInv'
<1> USE DEF tables, row, programs, ghosts
<1> DEFINE compiled ==
      CASE ~Silent(Solutions[qname]) -> false
        [] Silent(Solutions[qname]) /\ Silent(Answer) -> true
        [] OTHER -> check_error_warning(Answer)
<1>1. /\ pc = "grade" /\ num <= Len(id_table) /\ i <= Len(Columns(score_table))
      /\ qname \in CFiles /\ Answer # Missing
      /\ errors' = IF eOption /\ Silent(Solutions[qname]) /\ ~Silent(Answer)
                     THEN errors \cup {Job} ELSE errors
      /\ compile' = compiled
      /\ \/ compiled = false /\ Give(false)
         \/ /\ compiled # false /\ pc' = "launch"
            /\ UNCHANGED <<handed_in, csv, result, tables, streams, row, pid, ghosts>>
      /\ UNCHANGED programs
  BY DEF compile_program, Asked, Graded
<1>2. /\ Job \in Jobs /\ Answer \in Sources /\ Answer = Program(Job)
  BY <1>1, Typed DEF PlaceInv
<1>3. Answer.warnings \in Nat /\ Answer.error \in BOOLEAN
  BY <1>2 DEF Sources
<1>4. compiled \in Int
  BY <1>3 DEF false, true, check_error_warning, WARNING
<1>5. /\ compiled # false =>
          /\ Silent(Solutions[qname]) /\ ~Answer.error
          /\ compiled = IF Silent(Answer) THEN true ELSE WARNING * Answer.warnings
  <2>1. CASE Silent(Solutions[qname]) /\ Silent(Answer)
    BY <2>1 DEF Silent
  <2>2. CASE Silent(Solutions[qname]) /\ ~Silent(Answer)
    <3>1. compiled = check_error_warning(Answer)
      BY <2>2
    <3> HIDE DEF compiled
    <3> QED
      BY <2>2, <3>1 DEF check_error_warning
  <2> QED
    BY <2>1, <2>2
<1>6. errors' \subseteq Jobs
  BY <1>1, <1>2 DEF PlaceInv, TypeOK
<1> HIDE DEF compiled
<1>7. CASE Give(false)
  BY <1>1, <1>4, <1>6, <1>7, PlaceGive DEF false, Grading
<1>8. CASE /\ compiled # false /\ pc' = "launch"
           /\ UNCHANGED <<handed_in, csv, result, tables, streams, row, pid, ghosts>>
  <2>1. TypeOK'
    BY <1>1, <1>4, <1>6, <1>8 DEF PlaceInv, TypeOK
  <2>2. Recorded'
    BY <1>1, <1>8 DEF PlaceInv, Recorded, Tabled, Grading, Judging
  <2>3. Placed'
    BY <1>1, <1>8 DEF PlaceInv, Placed, Grading, Judging
  <2>4. Compiled'
    BY <1>1, <1>5, <1>8 DEF PlaceInv, Compiled, Judging, Program, qname, Answer, id
  <2> QED
    BY <2>1, <2>2, <2>3, <2>4 DEF PlaceInv
<1> QED
  BY <1>1, <1>7, <1>8

(* The steps between the launch of a program and the verdict, but for it.  *)
LEMMA PlaceJudge ==
  ASSUME PlaceInv, Launch \/ inBackground \/ CheckTime
  PROVE  PlaceInv'
<1> USE DEF files, tables, row, programs, ghosts
<1>1. /\ pc \in Judging
      /\ UNCHANGED <<handed_in, files, tables, streams, num, score, compile, typed, runs>>
  BY DEF Launch, inBackground, CheckTime, Late, Judging
<1>2. /\ num <= Len(id_table) /\ i <= Len(Columns(score_table))
      /\ qname \in CFiles /\ Answer # Missing
  BY <1>1 DEF PlaceInv, Compiled
<1>3. Job \in Jobs /\ Answer = Program(Job)
  BY <1>2, Typed DEF PlaceInv
<1>4. /\ stdout' \in [Jobs -> Seq(STRING)]
      /\ proc' \in [Jobs -> {"none", "forked", "running", "ended", "killed"}]
      /\ elapsed' \in 0 .. OVER + 1 /\ pid' \in Jobs \cup {<<>>}
      /\ \A j \in Jobs : proc'[j] # "none" => proc[j] # "none" \/ j = Job
  <2>0. /\ stdout \in [Jobs -> Seq(STRING)] /\ OVER \in Nat
        /\ proc \in [Jobs -> {"none", "forked", "running", "ended", "killed"}]
        /\ elapsed \in 0 .. OVER + 1 /\ pid \in Jobs \cup {<<>>}
    BY ScoreAssumption DEF PlaceInv, TypeOK
  <2>1. CASE Launch
    BY <2>0, <2>1, <1>3 DEF Launch
  <2>2. CASE inBackground
    BY <2>0, <2>2 DEF inBackground
  <2>3. CASE CheckTime
    <3>1. UNCHANGED <<stdout, elapsed, pid>>
      BY <2>3 DEF CheckTime
    <3>2. \/ proc' = proc
          \/ proc' = [proc EXCEPT ![pid] = IF @ = "running" THEN "killed" ELSE @]
      BY <2>3 DEF CheckTime
    <3>3. /\ proc' \in [Jobs -> {"none", "forked", "running", "ended", "killed"}]
          /\ \A j \in Jobs : proc'[j] # "none" => proc[j] # "none"
      BY <2>0, <3>2
    <3> QED
      BY <2>0, <3>1, <3>3
  <2> QED
    BY <2>1, <2>2, <2>3
<1>5. \A j \in Jobs : proc'[j] # "none" => Program(j)' # Missing
  BY <1>1, <1>2, <1>3, <1>4 DEF PlaceInv, Compiled, Program
<1>6. CASE pc' \in Judging /\ UNCHANGED <<row, overdue>>
  <2>1. TypeOK'
    BY <1>1, <1>4, <1>6 DEF PlaceInv, TypeOK, Judging
  <2>2. Recorded'
    BY <1>1, <1>6 DEF PlaceInv, Recorded, Tabled, Grading, Judging
  <2>3. Placed'
    BY <1>1, <1>6 DEF PlaceInv, Placed, Grading
  <2>4. Compiled'
    BY <1>1, <1>5, <1>6 DEF PlaceInv, Compiled, qname, Answer, id
  <2> QED
    BY <2>1, <2>2, <2>3, <2>4 DEF PlaceInv
<1>7. CASE Late
  <2>1. /\ overdue' = overdue \cup {Job} /\ cells' = Append(cells, 0) /\ i' = i + 1
        /\ pc' = "grade"
    BY <1>7 DEF Late
  <2>2. cells \in Seq(Int) /\ i \in Nat \ {0} /\ overdue \subseteq Jobs
    BY DEF PlaceInv, TypeOK
  <2>3. cells' \in Seq(Int) /\ i' \in Nat \ {0} /\ overdue' \subseteq Jobs
    BY <1>3, <2>1, <2>2
  <2>4. TypeOK'
    BY <1>1, <1>4, <2>1, <2>3 DEF PlaceInv, TypeOK
  <2>5. Recorded'
    BY <1>1, <2>1 DEF PlaceInv, Recorded, Tabled, Grading, Judging
  <2>6. Columns(score_table) \in Seq(Entries)
    BY ColumnsPrefix DEF PlaceInv, TypeOK
  <2>7. Len(cells') = i' - 1 /\ i' \in 1 .. Len(Columns(score_table)) + 1
    BY <1>1, <1>2, <2>1, <2>2, <2>6 DEF PlaceInv, Placed, Grading
  <2>8. Placed'
    BY <1>1, <2>1, <2>7 DEF PlaceInv, Placed, Grading
  <2>9. Compiled'
    BY <1>5, <2>1 DEF Compiled, Judging
  <2> QED
    BY <2>4, <2>5, <2>8, <2>9 DEF PlaceInv
<1> QED
  <2>1. (pc' \in Judging /\ UNCHANGED <<row, overdue>>) \/ Late
    BY DEF Launch, inBackground, CheckTime, Judging
  <2> QED
    BY <2>1, <1>6, <1>7

LEMMA PlaceRow ==
  ASSUME PlaceInv, EndRow \/ EndStudents
  PROVE  PlaceInv'
<1> USE DEF files, tables, row, programs, ghosts
<1>1. CASE EndRow
  <2>1. /\ pc = "grade" /\ pc' = pc /\ num <= Len(id_table) /\ ~(i <= Len(Columns(score_table)))
        /\ result' = [result EXCEPT !.rows = Append(@, [id |-> id, cells |-> cells, sum |-> score])]
        /\ num' = num + 1 /\ i' = 1 /\ cells' = <<>> /\ score' = 0
        /\ UNCHANGED <<handed_in, csv, errors, tables, streams, compile, pid, programs, ghosts>>
    BY <1>1 DEF EndRow, Asked, Graded
  <2>2. /\ num \in Nat \ {0} /\ id_table \in Seq(Students) /\ cells \in Seq(Int)
        /\ score \in Int /\ i \in Nat \ {0}
        /\ result \in [header : Seq(Entries), rows : Seq(Rows)]
    BY DEF PlaceInv, TypeOK
  <2> DEFINE done == [id |-> id, cells |-> cells, sum |-> score]
  <2>3. done \in Rows
    BY <2>1, <2>2 DEF Rows, id
  <2>4. done.cells = cells
    OBVIOUS
  <2>5. result' = [header |-> result.header, rows |-> Append(result.rows, done)]
    BY <2>1, <2>2
  <2>6. result' \in [header : Seq(Entries), rows : Seq(Rows)]
    <3> HIDE DEF done
    <3>1. Append(result.rows, done) \in Seq(Rows) /\ result.header \in Seq(Entries)
      BY <2>2, <2>3
    <3> QED
      BY <2>5, <3>1
  <2>7. TypeOK'
    <3>1. num' \in Nat \ {0} /\ i' \in Nat \ {0} /\ cells' \in Seq(Int) /\ score' \in Int
      BY <2>1, <2>2
    <3> QED
      BY <2>1, <2>6, <3>1 DEF PlaceInv, TypeOK
  <2>8. Recorded'
    BY <2>1 DEF PlaceInv, Recorded, Tabled, Grading
  <2>9. /\ num \in 1 .. Len(id_table) + 1 /\ Len(result.rows) = num - 1
        /\ i \in 1 .. Len(Columns(score_table)) + 1 /\ Len(cells) = i - 1
        /\ Columns(score_table) \in Seq(Entries)
    BY <2>1, ColumnsPrefix DEF PlaceInv, Placed, Grading, TypeOK
  <2> HIDE DEF done
  <2>10. /\ Len(result'.rows) = num
         /\ \A c \in 1 .. num : result'.rows[c] = IF c = num THEN done ELSE result.rows[c]
    BY <2>2, <2>3, <2>5, <2>9
  <2>11. Len(cells) = Len(Columns(score_table))
    BY <2>1, <2>9
  <2>12. \A c \in 1 .. num - 1 : Len(result.rows[c].cells) = Len(Columns(score_table))
    <3>1. DOMAIN result.rows = 1 .. num - 1
      BY <2>2, <2>9
    <3> QED
      BY <2>1, <3>1 DEF PlaceInv, Placed, Grading
  <2>13. DOMAIN result'.rows = 1 .. num
    BY <2>6, <2>10
  <2>14. \A c \in DOMAIN result'.rows : Len(result'.rows[c].cells) = Len(Columns(score_table))
    <3> TAKE c \in DOMAIN result'.rows
    <3>1. c = num \/ c \in 1 .. num - 1
      BY <2>2, <2>13
    <3> QED
      BY <3>1, <2>4, <2>10, <2>11, <2>12, <2>13
  <2>15. /\ num' \in 1 .. Len(id_table') + 1 /\ Len(result'.rows) = num' - 1
         /\ i' \in 1 .. Len(Columns(score_table')) + 1 /\ Len(cells') = i' - 1
    BY <2>1, <2>2, <2>9, <2>10
  <2>16. Placed'
    BY <2>1, <2>5, <2>14, <2>15 DEF PlaceInv, Placed, Grading
  <2>17. Compiled'
    BY <2>1 DEF PlaceInv, Compiled, Judging, Program
  <2> QED
    BY <2>7, <2>8, <2>16, <2>17 DEF PlaceInv
<1>2. CASE EndStudents
  <2>1. pc' = "done" /\ UNCHANGED <<handed_in, files, tables, streams, row, compile, pid, programs, ghosts>>
    BY <1>2 DEF EndStudents
  <2>2. TypeOK'
    BY <2>1 DEF PlaceInv, TypeOK
  <2>3. Recorded'
    BY <2>1 DEF PlaceInv, Recorded, Tabled, Grading, Judging
  <2>4. Placed' /\ Compiled'
    BY <2>1 DEF PlaceInv, Placed, Compiled, Grading, Judging, Program
  <2> QED
    BY <2>2, <2>3, <2>4 DEF PlaceInv
<1> QED
  BY <1>1, <1>2

LEMMA PlaceProgram ==
  ASSUME PlaceInv, NEW j \in Jobs, Exec(j) \/ Prints(j) \/ Ends(j)
  PROVE  PlaceInv'
<1> USE DEF files, tables, row, programs, ghosts
<1>1. UNCHANGED <<handed_in, files, pc, tables, streams, row, compile, pid, elapsed, ghosts>>
  BY DEF Exec, Prints, Ends
<1>2. /\ stdout \in [Jobs -> Seq(STRING)]
      /\ proc \in [Jobs -> {"none", "forked", "running", "ended", "killed"}]
  BY DEF PlaceInv, TypeOK
<1>3. /\ proc' \in [Jobs -> {"none", "forked", "running", "ended", "killed"}]
      /\ proc[j] # "none" /\ \A m \in Jobs : m # j => proc'[m] = proc[m]
  BY <1>2 DEF Exec, Prints, Ends
<1>4. stdout' \in [Jobs -> Seq(STRING)]
  <2>1. CASE Exec(j) \/ Ends(j)
    BY <1>2, <2>1 DEF Exec, Ends
  <2>2. CASE Prints(j)
    <3>1. Program(j) \in Sources
      BY <1>3, ProgramTyped DEF PlaceInv, Compiled
    <3>2. Program(j).prints \in Seq(STRING) /\ stdout[j] \in Seq(STRING)
      BY <1>2, <3>1 DEF Sources
    <3>3. Len(stdout[j]) + 1 \in 1 .. Len(Program(j).prints)
      BY <2>2, <3>2 DEF Prints
    <3>4. Append(stdout[j], Program(j).prints[Len(stdout[j]) + 1]) \in Seq(STRING)
      BY <3>2, <3>3
    <3>5. stdout' = [stdout EXCEPT ![j] = Append(stdout[j], Program(j).prints[Len(stdout[j]) + 1])]
      BY <1>2, <2>2 DEF Prints
    <3> QED
      BY <1>2, <3>4, <3>5
  <2> QED
    BY <2>1, <2>2
<1>5. TypeOK'
  BY <1>1, <1>3, <1>4 DEF PlaceInv, TypeOK
<1>6. Recorded' /\ Placed'
  BY <1>1 DEF PlaceInv, Recorded, Placed
<1>7. Compiled'
  BY <1>1, <1>3 DEF PlaceInv, Compiled, Program, qname, Answer, id
<1> QED
  BY <1>5, <1>6, <1>7 DEF PlaceInv

LEMMA PlaceOther ==
  ASSUME PlaceInv, Tick \/ Crash \/ RunAgain \/ UNCHANGED vars
  PROVE  PlaceInv'
<1> USE DEF files, tables, row, programs, ghosts
<1>1. CASE Tick \/ UNCHANGED vars
  <2>1. UNCHANGED <<handed_in, files, pc, tables, streams, row, compile, pid, stdout, proc, ghosts>>
    BY <1>1 DEF Tick, vars
  <2>2. elapsed' \in 0 .. OVER + 1
    BY <1>1, ScoreAssumption DEF Tick, vars, PlaceInv, TypeOK
  <2>3. TypeOK'
    BY <2>1, <2>2 DEF PlaceInv, TypeOK
  <2>4. Recorded' /\ Placed' /\ Compiled'
    BY <2>1 DEF PlaceInv, Recorded, Placed, Compiled, Program, qname, Answer, id
  <2> QED
    BY <2>3, <2>4 DEF PlaceInv
<1>2. CASE Crash \/ RunAgain
  <2>1. NewProcess
    BY <1>2 DEF Crash, RunAgain
  <2>2. 0 \in 0 .. MaxStreams /\ 0 \in 0 .. OVER + 1
    BY ScoreAssumption
  <2>3. TypeOK'
    BY <2>1, <2>2 DEF NewProcess, PlaceInv, TypeOK, false
  <2>4. Recorded' /\ Placed' /\ Compiled'
    BY <2>1 DEF NewProcess, PlaceInv, Recorded, Placed, Compiled, Tabled, Grading, Judging
  <2> QED
    BY <2>3, <2>4 DEF PlaceInv
<1> QED
  BY <1>1, <1>2

LEMMA PlaceInvariance == Spec => []PlaceInv
<1>1. Init => PlaceInv
  <2> SUFFICES ASSUME Init PROVE PlaceInv
    OBVIOUS
  <2>1. 0 \in 0 .. MaxStreams /\ 0 \in 0 .. OVER + 1 /\ 0 \in 0 .. MaxRuns
    BY ScoreAssumption
  <2>2. TypeOK
    BY <2>1 DEF Init, TypeOK, false
  <2>3. Recorded /\ Placed /\ Compiled
    BY DEF Init, Recorded, Placed, Compiled, Tabled, Grading, Judging
  <2> QED
    BY <2>2, <2>3 DEF PlaceInv
<1>2. PlaceInv /\ [Next]_vars => PlaceInv'
  <2> SUFFICES ASSUME PlaceInv, [Next]_vars PROVE PlaceInv'
    OBVIOUS
  <2>1. CASE Grader
    BY <2>1, PlaceTable, PlaceMake, PlaceWrite, PlaceStudents, PlaceAnswer, PlaceCompile,
       PlaceJudge, PlaceRow DEF Grader
  <2>2. CASE \E j \in Jobs : Exec(j) \/ Prints(j) \/ Ends(j)
    BY <2>2, PlaceProgram
  <2>3. CASE Tick \/ Crash \/ RunAgain \/ UNCHANGED vars
    BY <2>3, PlaceOther
  <2> QED
    BY <2>1, <2>2, <2>3 DEF Next, Ended
<1> QED
  BY <1>1, <1>2, PTL DEF Spec

(* The variables keep their types.                                         *)
THEOREM TypeCorrect == Spec => []TypeOK
BY PlaceInvariance, PTL DEF PlaceInv

(* Whatever a crash has left of score_table.csv, the questions graded are  *)
(* the first ones of those that were given points, in their order, none    *)
(* behind a question of no points, and every row has a cell for each.      *)
THEOREM TableRecoveredHolds == Spec => []TableRecovered
<1>1. ASSUME PlaceInv
      PROVE  TableRecovered
  <2> SUFFICES ASSUME pc = "grade" PROVE TableRecovered
    BY DEF TableRecovered
  <2>1. /\ score_table \in Seq(Entries) /\ typed \in Seq(Entries) /\ csv.lines \in Seq(Entries)
        /\ score_table \in {typed, csv.lines}
        /\ Len(csv.lines) <= Len(Columns(typed))
        /\ \A c \in 1 .. Len(csv.lines) : csv.lines[c].qname = typed[c].qname
        /\ result.header = Columns(score_table)
        /\ \A c \in DOMAIN result.rows : Len(result.rows[c].cells) = Len(Columns(score_table))
    BY <1>1 DEF PlaceInv, TypeOK, Recorded, Placed, Tabled, Grading
  <2> DEFINE header == Columns(score_table)
             columns == Columns(typed)
  <2>2. /\ header \in Seq(Entries) /\ Len(header) <= Len(score_table)
        /\ \A c \in 1 .. Len(header) : header[c] = score_table[c]
        /\ columns \in Seq(Entries) /\ Len(columns) <= Len(typed)
        /\ \A c \in 1 .. Len(columns) : columns[c] = typed[c]
    BY <2>1, ColumnsPrefix
  <2>3. Len(header) <= Len(columns)
    <3>1. CASE score_table = typed
      BY <2>2, <3>1
    <3>2. CASE score_table = csv.lines
      <4> HIDE DEF header, columns
      <4>1. Len(header) \in Nat /\ Len(columns) \in Nat /\ Len(csv.lines) \in Nat
        BY <2>1, <2>2
      <4>2. Len(header) <= Len(csv.lines) /\ Len(csv.lines) <= Len(columns)
        BY <2>1, <2>2, <3>2 DEF columns
      <4> QED
        BY <4>1, <4>2
    <3> QED
      BY <2>1, <3>1, <3>2
  <2> HIDE DEF header, columns
  <2>4. \A c \in 1 .. Len(header) : header[c].qname = columns[c].qname
    <3> TAKE c \in 1 .. Len(header)
    <3>1. c \in 1 .. Len(columns) /\ c \in 1 .. Len(score_table)
      BY <2>1, <2>2, <2>3
    <3>2. score_table[c].qname = typed[c].qname
      BY <2>1, <3>1
    <3> QED
      BY <2>2, <3>1, <3>2
  <2>5. /\ Names(header) \in Seq(Questions) /\ Len(Names(header)) = Len(header)
        /\ Names(columns) \in Seq(Questions) /\ Len(Names(columns)) = Len(columns)
        /\ \A c \in 1 .. Len(header) : Names(header)[c] = Names(columns)[c]
    <3>1. \A c \in 1 .. Len(header) : header[c].qname \in Questions
      <4>1. \A c \in 1 .. Len(header) : header[c] \in Entries
        BY <2>2
      <4> QED
        BY <4>1 DEF Entries
    <3>2. \A c \in 1 .. Len(columns) : columns[c].qname \in Questions
      <4>1. \A c \in 1 .. Len(columns) : columns[c] \in Entries
        BY <2>2
      <4> QED
        BY <4>1 DEF Entries
    <3>3. Names(header) = [c \in 1 .. Len(header) |-> header[c].qname]
      BY <2>2 DEF Names
    <3>4. Names(columns) = [c \in 1 .. Len(columns) |-> columns[c].qname]
      BY <2>2 DEF Names
    <3> QED
      BY <2>2, <2>3, <2>4, <3>1, <3>2, <3>3, <3>4
  <2> DEFINE s == Names(header)
             t == Names(columns)
  <2>6. s \in Seq(Questions) /\ t \in Seq(Questions) /\ Len(s) <= Len(t)
        /\ \A c \in 1 .. Len(s) : s[c] = t[c]
    BY <2>2, <2>3, <2>5
  <2> HIDE DEF s, t
  <2>7. IsPrefix(s, t)
    BY <2>6 DEF IsPrefix
  <2> QED
    BY <2>1, <2>7 DEF TableRecovered, header, columns, s, t
<1> QED
  BY <1>1, PlaceInvariance, PTL

-----------------------------------------------------------------------------
(* The places of the table: the k-th student's answer to the c-th question;*)
(* the program there, the points for it, and whether the grader is behind  *)
(* that place.                                                             *)
Table == (1 .. Len(id_table)) \X (1 .. Len(Columns(score_table)))
Here == <<num, i>>
JobAt(at) == <<id_table[at[1]], score_table[at[2]].qname>>
PointsAt(at) == (IF at[1] < num THEN result.rows[at[1]].cells ELSE cells)[at[2]]
Behind(at) == at[1] < num \/ (at[1] = num /\ at[2] < i)

(* No question is asked twice.                                             *)
Distinct ==
  \A c, d \in DOMAIN typed : typed[c].qname = typed[d].qname => c = d

(* No program is launched or judged before the grader comes to it.         *)
Fresh ==
  /\ pc \notin Grading \cup {"done"} => overdue = {} /\ \A j \in Jobs : proc[j] = "none"
  /\ pc \in Grading => \A at \in Table :
       score_table[at[2]].qname \in CFiles /\ ~Behind(at) =>
         /\ JobAt(at) \notin overdue
         /\ proc[JobAt(at)] # "none" => pc \in Judging \ {"launch"} /\ at = Here

(* What has ended has printed all it prints, and only that is compared.    *)
Complete ==
  /\ \A j \in Jobs : proc[j] = "ended" => stdout[j] = Program(j).prints
  /\ pc \in {"poll", "limit"} => proc[Job] \in {"forked", "running", "ended"}
  /\ pc = "compare" => proc[Job] = "ended"

(* The points for a program are deserved, and a right program is paid.     *)
Fair(j, points, full) ==
  /\ points # 0 =>
       /\ ~Program(j).error
       /\ proc[j] = "ended" /\ j \notin overdue
       /\ Like(Program(j).prints, Solutions[j[2]].prints)
  /\ /\ Program(j) # Missing /\ j \notin overdue
     /\ Silent(Solutions[j[2]])
     /\ Silent(Program(j))
     /\ Plain(Program(j).prints) = Plain(Solutions[j[2]].prints)
     => points = full

Just ==
  pc \in Grading => \A at \in Table, j \in Jobs : Behind(at) /\ j = JobAt(at) =>
    \A points \in {PointsAt(at)}, full \in {score_table[at[2]].score} : Fair(j, points, full)

GradeInv == PlaceInv /\ LeftoverInv /\ Distinct /\ Fresh /\ Complete /\ Just

-----------------------------------------------------------------------------
(* What compare_resultfile finds.                                          *)
Chars == STRING
Inks == STRING \ {" "}

LEMMA CharsAndInks ==
  /\ \A c \in Chars : c # " " => c \in Inks
  /\ \A c \in Inks : c \in Chars /\ c # " "
BY DEF Chars, Inks

LEMMA InkedText ==
  ASSUME NEW text \in Seq(Chars)
  PROVE  /\ Inked(text) \in Seq(Inks)
         /\ text # <<>> /\ Last(text) # " " => /\ Inked(text) # <<>>
                                              /\ Last(Inked(text)) = Last(text)
<1> DEFINE places == {k \in DOMAIN text : text[k] # " "}
           order == InOrder(places)
           size == Cardinality(places)
<1>0. /\ DOMAIN text = 1 .. Len(text) /\ Len(text) \in Nat
      /\ \A k \in 1 .. Len(text) : text[k] \in Chars
  OBVIOUS
<1>1. places \in SUBSET Nat /\ IsFiniteSet(places) /\ places \subseteq 1 .. Len(text)
  <2>1. places \subseteq 1 .. Len(text)
    BY <1>0, Zenon
  <2>2. \A n \in Nat : IsFiniteSet(1 .. n)
    BY FS_Interval
  <2> HIDE DEF places
  <2>3. IsFiniteSet(1 .. Len(text)) /\ 1 .. Len(text) \subseteq Nat
    BY <1>0, <2>2
  <2> QED
    BY <2>1, <2>3, FS_Subset
<1>2. Inked(text) = [k \in 1 .. size |-> text[order[k]]]
  BY DEF Inked
<1>3. \A k \in places : k \in 1 .. Len(text) /\ text[k] \in Inks
  <2> TAKE k \in places
  <2>1. k \in 1 .. Len(text) /\ text[k] # " "
    BY <1>0, Zenon
  <2>2. text[k] \in Chars
    BY <1>0, <2>1, Zenon
  <2> QED
    BY <2>1, <2>2, CharsAndInks, Zenon
<1>4. text # <<>> /\ Last(text) # " " => Len(text) \in places /\ Last(text) = text[Len(text)]
  <2>1. Last(text) = text[Len(text)]
    BY DEF Last
  <2>2. text # <<>> => Len(text) \in DOMAIN text
    BY <1>0
  <2> QED
    BY <2>1, <2>2, Zenon
<1> HIDE DEF places
<1>5. /\ order \in Seq(places) /\ Len(order) = size /\ size \in Nat
      /\ \A a, b \in 1 .. size : a < b => order[a] < order[b]
      /\ \A n \in places : \E a \in 1 .. size : order[a] = n
  BY <1>1, OrderEnumerates, FS_CardinalityType
<1> HIDE DEF order, size
<1>6. \A k \in 1 .. size : order[k] \in places
  BY <1>5
<1>7. Inked(text) \in Seq(Inks) /\ Len(Inked(text)) = size
  BY <1>2, <1>3, <1>5, <1>6
<1>8. ASSUME text # <<>>, Last(text) # " "
      PROVE  Inked(text) # <<>> /\ Last(Inked(text)) = Last(text)
  <2>1. PICK a \in 1 .. size : order[a] = Len(text)
    BY <1>4, <1>5, <1>8
  <2>2. size \in 1 .. size /\ order[size] \in 1 .. Len(text) /\ Len(text) \in Nat
    BY <1>3, <1>5, <1>6, <2>1
  <2>3. ~(a < size)
    BY <1>5, <2>1, <2>2
  <2>4. a = size
    BY <1>5, <2>1, <2>3
  <2>5. Inked(text)[size] = Last(text)
    BY <1>2, <1>4, <1>8, <2>1, <2>2, <2>4
  <2> QED
    BY <1>7, <2>2, <2>5 DEF Last
<1> QED
  BY <1>7, <1>8

LEMMA PlainText ==
  ASSUME NEW text \in Seq(Chars)
  PROVE  /\ Plain(text) \in Seq(Inks) /\ Len(Plain(text)) = Len(Inked(text))
         /\ Len(Inked(text)) \in Nat
         /\ \A k \in 1 .. Len(Plain(text)) : Plain(text)[k] = to_lower_case(Inked(text)[k])
         /\ text # <<>> =>
              Held(text) = {IF Last(text) = " " THEN " " ELSE Last(Plain(text))}
<1>1. Inked(text) \in Seq(Inks)
  BY InkedText
<1>2. \A c \in Inks : to_lower_case(c) \in Inks
  BY PaperAssumption DEF to_lower_case, Inks
<1>3. Plain(text) = [k \in 1 .. Len(Inked(text)) |-> to_lower_case(Inked(text)[k])]
  BY <1>1 DEF Plain
<1>4. \A k \in 1 .. Len(Inked(text)) : Inked(text)[k] \in Inks
  BY <1>1
<1>5. /\ Plain(text) \in Seq(Inks) /\ Len(Plain(text)) = Len(Inked(text))
  BY <1>1, <1>2, <1>3, <1>4
<1>6. \A k \in 1 .. Len(Plain(text)) : Plain(text)[k] = to_lower_case(Inked(text)[k])
  BY <1>3, <1>5
<1>7. ASSUME text # <<>>
      PROVE  Held(text) = {IF Last(text) = " " THEN " " ELSE Last(Plain(text))}
  <2>1. CASE Last(text) = " "
    BY <1>7, <2>1, PaperAssumption DEF Held, to_lower_case
  <2>2. CASE Last(text) # " "
    <3>1. Inked(text) # <<>> /\ Last(Inked(text)) = Last(text)
      BY <1>7, <2>2, InkedText
    <3>2. Len(Inked(text)) \in 1 .. Len(Plain(text)) /\ Last(Inked(text)) = Inked(text)[Len(Inked(text))]
      BY <1>1, <1>5, <3>1 DEF Last
    <3>3. Last(Plain(text)) = to_lower_case(Last(text))
      BY <1>5, <1>6, <3>1, <3>2 DEF Last
    <3> QED
      BY <1>7, <2>2, <3>3 DEF Held
  <2> QED
    BY <2>1, <2>2
<1>8. Len(Inked(text)) \in Nat
  BY <1>1
<1> QED
  BY <1>5, <1>6, <1>7, <1>8, Zenon

LEMMA Longer ==
  ASSUME NEW a \in Seq(Chars), NEW b \in Seq(Chars), NEW x \in Held(a), NEW y \in Held(b),
         Len(Inked(a)) <= Len(Inked(b)),
         \A k \in 1 .. Len(Inked(b)) : Reading(a, x, k) = Reading(b, y, k)
  PROVE  Extends(Plain(a), Plain(b))
<1> DEFINE s == Plain(a)
           t == Plain(b)
<1>1. /\ s \in Seq(Inks) /\ t \in Seq(Inks)
      /\ Len(s) = Len(Inked(a)) /\ Len(t) = Len(Inked(b)) /\ Len(s) <= Len(t)
      /\ \A k \in 1 .. Len(s) : s[k] = to_lower_case(Inked(a)[k])
      /\ \A k \in 1 .. Len(t) : t[k] = to_lower_case(Inked(b)[k])
  BY PlainText
<1>2. a # <<>> => x = IF Last(a) = " " THEN " " ELSE Last(s)
  BY PlainText
<1>3. a = <<>> => s = <<>>
  <2> SUFFICES ASSUME a = <<>> PROVE s = <<>>
    OBVIOUS
  <2>1. {k \in DOMAIN a : a[k] # " "} = {}
    OBVIOUS
  <2>2. Cardinality({k \in DOMAIN a : a[k] # " "}) = 0
    BY <2>1, FS_EmptySet
  <2>3. DOMAIN Inked(a) = 1 .. 0
    BY <2>2 DEF Inked
  <2>4. Len(Inked(a)) \in Nat /\ DOMAIN Inked(a) = 1 .. Len(Inked(a))
    <3>1. Inked(a) \in Seq(Inks)
      BY InkedText
    <3>2. \A q \in Seq(Inks) : Len(q) \in Nat /\ DOMAIN q = 1 .. Len(q)
      OBVIOUS
    <3> QED
      BY <3>1, <3>2, Zenon
  <2>5. Len(Inked(a)) = 0
    <3>1. \A n \in Nat : 1 .. n = 1 .. 0 => n = 0
      <4> TAKE n \in Nat
      <4>1. n # 0 => 1 \in 1 .. n
        OBVIOUS
      <4>2. 1 \notin 1 .. 0
        OBVIOUS
      <4> QED
        BY <4>1, <4>2
    <3> QED
      BY <2>3, <2>4, <3>1
  <2> QED
    BY <1>1, <2>5
<1> HIDE DEF s, t
<1>4. \A k \in 1 .. Len(s) : s[k] = t[k]
  BY <1>1 DEF Reading
<1>5. \A k \in Len(s) + 1 .. Len(t) : t[k] = x
  BY <1>1 DEF Reading
<1>6. IsPrefix(s, t)
  BY <1>1, <1>4 DEF IsPrefix
<1>7. \A k \in Len(s) + 1 .. Len(t) : t[k] = IF s = <<>> THEN t[1] ELSE Last(s)
  <2> SUFFICES ASSUME NEW k \in Len(s) + 1 .. Len(t)
               PROVE  t[k] = IF s = <<>> THEN t[1] ELSE Last(s)
    OBVIOUS
  <2>1. CASE s = <<>>
    BY <1>1, <1>5, <2>1
  <2>2. CASE s # <<>>
    <3>1. t[k] \in Inks
      BY <1>1
    <3>2. t[k] # " "
      BY <3>1, CharsAndInks, Zenon
    <3> QED
      BY <1>2, <1>3, <1>5, <2>2, <3>2
  <2> QED
    BY <2>1, <2>2
<1> QED
  BY <1>6, <1>7 DEF Extends, s, t

(* Points are given only for what is alike, and for what is equal always.  *)
LEMMA CompareFinds ==
  ASSUME NEW a \in Seq(Chars), NEW b \in Seq(Chars), NEW same \in compare_resultfile(a, b)
  PROVE  /\ same => Like(a, b)
         /\ Plain(a) = Plain(b) => same
<1>1. PICK x \in Held(a), y \in Held(b) : same = SameResult(a, x, b, y)
  BY DEF compare_resultfile
<1>2. Len(Inked(a)) \in Nat /\ Len(Inked(b)) \in Nat
  BY PlainText
<1>3. ASSUME same
      PROVE  Like(a, b)
  <2>1. \A k \in 1 .. Len(Inked(a)) + Len(Inked(b)) :
          k <= Len(Inked(a)) \/ k <= Len(Inked(b)) => Reading(a, x, k) = Reading(b, y, k)
    BY <1>1, <1>3, Zenon DEF SameResult
  <2>2. /\ \A k \in 1 .. Len(Inked(a)) : Reading(a, x, k) = Reading(b, y, k)
        /\ \A k \in 1 .. Len(Inked(b)) : Reading(a, x, k) = Reading(b, y, k)
    BY <1>2, <2>1
  <2>3. CASE Len(Inked(a)) <= Len(Inked(b))
    BY <2>2, <2>3, Longer DEF Like
  <2>4. CASE Len(Inked(b)) <= Len(Inked(a))
    BY <2>2, <2>4, Longer DEF Like
  <2> QED
    BY <1>2, <2>3, <2>4
<1>4. ASSUME Plain(a) = Plain(b)
      PROVE  same
  <2>1. Len(Inked(a)) = Len(Inked(b))
    BY <1>4, PlainText
  <2>2. \A k \in 1 .. Len(Inked(a)) : to_lower_case(Inked(a)[k]) = to_lower_case(Inked(b)[k])
    BY <1>4, PlainText
  <2>3. \A k \in 1 .. Len(Inked(a)) + Len(Inked(b)) :
          k <= Len(Inked(a)) \/ k <= Len(Inked(b)) => Reading(a, x, k) = Reading(b, y, k)
    BY <1>2, <2>1, <2>2 DEF Reading
  <2> QED
    BY <1>1, <2>3, Zenon DEF SameResult
<1> QED
  BY <1>3, <1>4

-----------------------------------------------------------------------------
(* No program stands at two places.                                        *)
LEMMA TableTyped ==
  ASSUME TypeOK, NEW at \in Table
  PROVE  /\ at[1] \in 1 .. Len(id_table) /\ at[2] \in 1 .. Len(Columns(score_table))
         /\ at = <<at[1], at[2]>> /\ at[2] \in DOMAIN score_table
         /\ Len(id_table) \in Nat /\ Len(Columns(score_table)) \in Nat
         /\ id_table[at[1]] \in Students
         /\ score_table[at[2]].qname \in CFiles => JobAt(at) \in Jobs
<1>1. /\ at[1] \in 1 .. Len(id_table) /\ at[2] \in 1 .. Len(Columns(score_table))
      /\ at = <<at[1], at[2]>>
  BY DEF Table
<1>2. /\ score_table \in Seq(Entries) /\ id_table \in Seq(Students)
      /\ Columns(score_table) \in Seq(Entries) /\ Len(Columns(score_table)) <= Len(score_table)
  BY ColumnsPrefix DEF TypeOK
<1>3. at[2] \in DOMAIN score_table /\ id_table[at[1]] \in Students
  BY <1>1, <1>2
<1>4. Len(id_table) \in Nat /\ Len(Columns(score_table)) \in Nat
  BY <1>2
<1> QED
  BY <1>1, <1>3, <1>4 DEF JobAt, Jobs

LEMMA TableTypedNext ==
  ASSUME TypeOK', NEW at \in Table'
  PROVE  /\ at[1] \in 1 .. Len(id_table') /\ at[2] \in 1 .. Len(Columns(score_table'))
         /\ Len(id_table') \in Nat /\ Len(Columns(score_table')) \in Nat
         /\ score_table'[at[2]].qname \in CFiles => JobAt(at)' \in Jobs
<1>1. at[1] \in 1 .. Len(id_table') /\ at[2] \in 1 .. Len(Columns(score_table'))
  BY DEF Table
<1>2. /\ score_table' \in Seq(Entries) /\ id_table' \in Seq(Students)
      /\ Columns(score_table') \in Seq(Entries)
  BY ColumnsPrefix DEF TypeOK
<1>3. id_table'[at[1]] \in Students
  BY <1>1, <1>2
<1>4. Len(id_table') \in Nat /\ Len(Columns(score_table')) \in Nat
  BY <1>2
<1> QED
  BY <1>1, <1>3, <1>4 DEF JobAt, Jobs

LEMMA OnePlace ==
  ASSUME PlaceInv, Distinct, pc \in Grading, NEW at \in Table, NEW bt \in Table,
         JobAt(at) = JobAt(bt)
  PROVE  at = bt
<1>1. /\ at[1] \in 1 .. Len(id_table) /\ bt[1] \in 1 .. Len(id_table)
      /\ at[2] \in 1 .. Len(Columns(score_table)) /\ bt[2] \in 1 .. Len(Columns(score_table))
      /\ at = <<at[1], at[2]>> /\ bt = <<bt[1], bt[2]>>
      /\ id_table[at[1]] = id_table[bt[1]]
      /\ score_table[at[2]].qname = score_table[bt[2]].qname
      /\ id_table[at[1]] \in Nat
  BY TableTyped, ScoreAssumption DEF PlaceInv, JobAt
<1>2. at[1] = bt[1]
  <2>1. id_table = InOrder(Students)
    BY DEF PlaceInv, Placed
  <2>2. /\ Len(id_table) = Cardinality(Students)
        /\ \A a, b \in 1 .. Cardinality(Students) : a < b => id_table[a] < id_table[b]
    BY <2>1, OrderEnumerates, ScoreAssumption
  <2>3. ~(at[1] < bt[1]) /\ ~(bt[1] < at[1])
    BY <1>1, <2>2
  <2> QED
    BY <1>1, <2>3
<1>3. \A c \in 1 .. Len(Columns(score_table)) :
        c \in DOMAIN typed /\ score_table[c].qname = typed[c].qname
  <2>1. /\ score_table \in {typed, csv.lines} /\ csv.exists
        /\ Len(csv.lines) <= Len(Columns(typed))
        /\ \A c \in 1 .. Len(csv.lines) : csv.lines[c].qname = typed[c].qname
        /\ typed \in Seq(Entries) /\ score_table \in Seq(Entries)
    BY DEF PlaceInv, Recorded, Tabled, TypeOK
  <2>2. /\ Len(Columns(typed)) <= Len(typed) /\ Columns(typed) \in Seq(Entries)
        /\ Len(Columns(score_table)) <= Len(score_table) /\ Columns(score_table) \in Seq(Entries)
    BY <2>1, ColumnsPrefix
  <2>3. CASE score_table = typed
    BY <2>1, <2>2, <2>3
  <2>4. CASE score_table = csv.lines
    <3> TAKE c \in 1 .. Len(Columns(score_table))
    <3>1. c \in 1 .. Len(csv.lines) /\ c \in 1 .. Len(typed)
      BY <2>1, <2>2, <2>4
    <3> QED
      BY <2>1, <2>4, <3>1
  <2> QED
    BY <2>1, <2>3, <2>4
<1>4. at[2] = bt[2]
  BY <1>1, <1>3 DEF Distinct
<1> QED
  BY <1>1, <1>2, <1>4

-----------------------------------------------------------------------------
(* What the steps have in common that keep GradeInv.                       *)
LEMMA FairKept ==
  ASSUME NEW j, NEW points, NEW full, Fair(j, points, full), handed_in' = handed_in,
         proc'[j] = proc[j], j \in overdue' <=> j \in overdue
  PROVE  Fair(j, points, full)'
BY DEF Fair, Program

(* A cell is written, and the grader goes to the next.                     *)
LEMMA CellWritten ==
  ASSUME GradeInv, pc \in Grading, Here \in Table, NEW p \in Int,
         cells' = Append(cells, p), i' = i + 1, pc' = "grade",
         UNCHANGED <<handed_in, score_table, id_table, num, result>>,
         overdue \subseteq overdue', overdue' \subseteq overdue \cup {Job},
         \A j \in Jobs \ {Job} : proc'[j] = proc[j],
         \A j \in Jobs : \A points, full :
           j = Job /\ points = p /\ full = score_table[i].score => Fair(j, points, full)'
  PROVE  Fresh' /\ Just'
<1>1. /\ Job = JobAt(Here) /\ ~Behind(Here) /\ Table' = Table
      /\ \A at \in Table : JobAt(at)' = JobAt(at)
  <2>1. num \in Nat /\ i \in Nat
    BY DEF GradeInv, PlaceInv, TypeOK
  <2> QED
    BY <2>1 DEF Job, JobAt, Here, id, qname, Behind, Table
<1>2. \A at \in Table : JobAt(at) = Job => at = Here
  BY <1>1, OnePlace DEF GradeInv
<1>3. \A at \in Table : Behind(at)' <=> Behind(at) \/ at = Here
  <2> TAKE at \in Table
  <2>1. /\ at[1] \in Nat /\ at[2] \in Nat /\ at = <<at[1], at[2]>> /\ num \in Nat /\ i \in Nat
    <3>1. at[1] \in Nat /\ at[2] \in Nat /\ at = <<at[1], at[2]>>
      BY TableTyped DEF GradeInv, PlaceInv
    <3> QED
      BY <3>1 DEF GradeInv, PlaceInv, TypeOK
  <2>2. at = Here <=> at[1] = num /\ at[2] = i
    BY <2>1 DEF Here
  <2> QED
    BY <2>1, <2>2 DEF Behind
<1>4. \A at \in Table : score_table[at[2]].qname \in CFiles => JobAt(at) \in Jobs
  BY TableTyped DEF GradeInv, PlaceInv
<1>5. Fresh'
  <2> SUFFICES ASSUME NEW at \in Table, score_table[at[2]].qname \in CFiles, ~(Behind(at)')
               PROVE  JobAt(at) \notin overdue' /\ proc'[JobAt(at)] = "none"
    BY <1>1 DEF Fresh, Grading
  <2>1. ~Behind(at) /\ at # Here /\ JobAt(at) \in Jobs
    BY <1>3, <1>4
  <2>2. JobAt(at) # Job
    BY <1>2, <2>1
  <2>3. JobAt(at) \notin overdue /\ proc[JobAt(at)] = "none"
    BY <2>1 DEF GradeInv, Fresh
  <2> QED
    BY <2>1, <2>2, <2>3
<1>6. Just'
  <2> SUFFICES ASSUME NEW at \in Table, NEW j \in Jobs, NEW points, NEW full,
                      Behind(at)', j = JobAt(at),
                      points = PointsAt(at)', full = score_table[at[2]].score
               PROVE  Fair(j, points, full)'
    BY <1>1 DEF Just
  <2>1. /\ cells \in Seq(Int) /\ Len(cells) = i - 1 /\ i \in Nat \ {0}
        /\ at[1] \in Nat /\ at[2] \in Nat /\ at[2] >= 1 /\ num \in Nat
    <3>1. at[1] \in Nat /\ at[2] \in Nat /\ at[2] >= 1
      BY TableTyped DEF GradeInv, PlaceInv
    <3> QED
      BY <3>1 DEF GradeInv, PlaceInv, Placed, TypeOK
  <2>2. CASE at = Here
    <3>1. points = p /\ j = Job /\ full = score_table[i].score
      BY <1>1, <2>1, <2>2 DEF PointsAt, Here
    <3> QED
      BY <3>1
  <2>3. CASE at # Here
    <3>1. Behind(at) /\ j # Job
      BY <1>2, <1>3, <2>3
    <3>2. points = PointsAt(at)
      BY <2>1, <3>1 DEF PointsAt, Behind
    <3>3. Fair(j, points, full)
      BY <3>1, <3>2 DEF GradeInv, Just
    <3> QED
      BY <3>1, <3>3, FairKept
  <2> QED
    BY <2>2, <2>3
<1> QED
  BY <1>5, <1>6

(* The grader is between the launch of the program here and its verdict.   *)
LEMMA OneJudged ==
  ASSUME GradeInv, pc \in Grading, pc' \in Judging, Here \in Table,
         UNCHANGED <<handed_in, score_table, id_table, num, i, cells, result, overdue>>,
         \A j \in Jobs \ {Job} : proc'[j] = proc[j],
         pc' = "launch" => pc = "grade" /\ proc' = proc
  PROVE  Fresh' /\ Just'
<1>1. /\ Job = JobAt(Here) /\ ~Behind(Here) /\ Table' = Table /\ Here' = Here
      /\ \A at \in Table : JobAt(at)' = JobAt(at)
      /\ \A at \in Table : PointsAt(at)' = PointsAt(at)
      /\ \A at \in Table : Behind(at)' <=> Behind(at)
  <2>1. num \in Nat /\ i \in Nat
    BY DEF GradeInv, PlaceInv, TypeOK
  <2> QED
    BY <2>1 DEF Job, JobAt, Here, id, qname, Behind, Table, PointsAt
<1>2. \A at \in Table : JobAt(at) = Job => at = Here
  BY <1>1, OnePlace DEF GradeInv
<1>3. pc' \in Grading
  BY DEF Grading
<1>4. Fresh'
  <2> SUFFICES ASSUME NEW at \in Table, score_table[at[2]].qname \in CFiles, ~Behind(at)
               PROVE  /\ JobAt(at) \notin overdue'
                      /\ proc'[JobAt(at)] # "none" => pc' # "launch" /\ at = Here
    BY <1>1, <1>3 DEF Fresh
  <2>1. /\ JobAt(at) \in Jobs /\ JobAt(at) \notin overdue
        /\ proc[JobAt(at)] # "none" => pc \in Judging \ {"launch"} /\ at = Here
    BY TableTyped DEF GradeInv, PlaceInv, Fresh
  <2>2. CASE at = Here
    BY <2>1, <2>2 DEF Judging
  <2>3. CASE at # Here
    BY <1>2, <2>1, <2>3
  <2> QED
    BY <2>2, <2>3
<1>5. Just'
  <2> SUFFICES ASSUME NEW at \in Table, NEW j \in Jobs, NEW points, NEW full,
                      Behind(at), j = JobAt(at),
                      points = PointsAt(at), full = score_table[at[2]].score
               PROVE  Fair(j, points, full)'
    BY <1>1 DEF Just
  <2>1. Fair(j, points, full) /\ j # Job
    BY <1>1, <1>2 DEF GradeInv, Just
  <2> QED
    BY <2>1, FairKept
<1> QED
  BY <1>4, <1>5

-----------------------------------------------------------------------------
(* One lemma for each step, or for the steps that do alike.                *)
LEMMA GradeTable ==
  ASSUME GradeInv, PlaceInv', LeftoverInv',
         check_option \/ read_scoreTable \/ make_scoreTable \/ write_scoreTable
           \/ do_mOption \/ set_idTable
  PROVE  GradeInv'
<1> USE DEF files, tables, row, programs, ghosts
<1>1. /\ UNCHANGED <<handed_in, stdout, proc, overdue>>
      /\ pc \notin Grading \cup {"done"} /\ pc' \notin Judging
  BY DEF check_option, read_scoreTable, make_scoreTable, write_scoreTable, do_mOption, set_idTable,
         AfterTable, Grading, Judging
<1>2. Distinct'
  <2>1. CASE typed' = typed
    BY <2>1 DEF GradeInv, Distinct
  <2>2. CASE make_scoreTable
    <3> DEFINE order == InOrder(Questions)
    <3>1. /\ order \in Seq(Questions) /\ Len(order) = Cardinality(Questions)
          /\ \A a, b \in 1 .. Cardinality(Questions) : a < b => order[a] < order[b]
      BY OrderEnumerates, ScoreAssumption
    <3> HIDE DEF order
    <3>2. PICK points \in [Questions -> Scores] :
            typed' = [c \in 1 .. Len(order) |-> Question(order[c], points[order[c]])]
      BY <2>2 DEF make_scoreTable, order
    <3>3. DOMAIN typed' = 1 .. Len(order) /\ \A c \in 1 .. Len(order) : typed'[c].qname = order[c]
      BY <3>2 DEF Question
    <3> SUFFICES ASSUME NEW c \in 1 .. Len(order), NEW d \in 1 .. Len(order), order[c] = order[d]
                 PROVE  c = d
      BY <3>3 DEF Distinct
    <3>4. order[c] \in Nat /\ order[d] \in Nat
      <4>1. order[c] \in Questions /\ order[d] \in Questions
        BY <3>1
      <4> QED
        BY <4>1, ScoreAssumption
    <3>5. ~(c < d) /\ ~(d < c)
      BY <3>1, <3>4
    <3> QED
      BY <3>1, <3>5
  <2> QED
    BY <2>1, <2>2 DEF check_option, read_scoreTable, write_scoreTable, do_mOption, set_idTable
<1>3. overdue = {} /\ \A j \in Jobs : proc[j] = "none"
  BY <1>1 DEF GradeInv, Fresh
<1>4. Complete'
  BY <1>1, <1>3 DEF Complete, Judging
<1>5. CASE pc' \notin Grading
  BY <1>1, <1>2, <1>3, <1>4, <1>5 DEF GradeInv, Fresh, Just
<1>6. CASE pc' \in Grading
  <2>1. num' = 1 /\ i' = 1
    BY <1>6 DEF check_option, read_scoreTable, make_scoreTable, write_scoreTable, do_mOption,
                set_idTable, AfterTable, Grading, Judging
  <2>2. ASSUME NEW at \in Table'
        PROVE  /\ ~(Behind(at)')
               /\ score_table'[at[2]].qname \in CFiles => JobAt(at)' \in Jobs
    <3>1. TypeOK'
      BY DEF PlaceInv
    <3>2. /\ at[1] \in 1 .. Len(id_table') /\ at[2] \in 1 .. Len(Columns(score_table'))
          /\ Len(id_table') \in Nat /\ Len(Columns(score_table')) \in Nat
          /\ score_table'[at[2]].qname \in CFiles => JobAt(at)' \in Jobs
      BY <3>1, TableTypedNext
    <3>3. at[1] \in Nat /\ at[2] \in Nat /\ at[1] >= 1 /\ at[2] >= 1
      BY <3>2
    <3> QED
      BY <2>1, <3>2, <3>3 DEF Behind
  <2>3. Fresh'
    BY <1>1, <1>3, <1>6, <2>2 DEF Fresh
  <2>4. Just'
    BY <2>2 DEF Just
  <2> QED
    BY <1>2, <1>4, <2>3, <2>4 DEF GradeInv
<1> QED
  BY <1>5, <1>6

(* The steps that give points for the answer here.                         *)
LEMMA HereTyped ==
  ASSUME PlaceInv, pc \in Grading, num <= Len(id_table), i <= Len(Columns(score_table))
  PROVE  Here \in Table /\ i \in Nat /\ score_table[i].score \in Nat
<1>1. num \in 1 .. Len(id_table) + 1 /\ i \in 1 .. Len(Columns(score_table)) + 1
  BY DEF PlaceInv, Placed
<1>2. id_table \in Seq(Students) /\ Columns(score_table) \in Seq(Entries)
  BY ColumnsPrefix DEF PlaceInv, TypeOK
<1>3. Here \in Table
  BY <1>1, <1>2 DEF Here, Table
<1> QED
  BY <1>3, Typed DEF PlaceInv, TypeOK

LEMMA GradeGive ==
  ASSUME GradeInv, PlaceInv', LeftoverInv', NEW verdict \in Int,
         verdict \in {false, true} \/ verdict < 0,
         pc \in Grading, num <= Len(id_table), i <= Len(Columns(score_table)),
         Give(verdict), UNCHANGED <<programs>>,
         \A j \in Jobs : \A points, full :
           j = Job /\ points = Points(verdict) /\ full = score_table[i].score
           => Fair(j, points, full)'
  PROVE  GradeInv'
<1> USE DEF tables, programs, ghosts
<1>1. Here \in Table /\ score_table[i].score \in Nat
  BY HereTyped DEF GradeInv
<1>2. Points(verdict) \in Int
  BY <1>1 DEF Points, true, false
<1>3. /\ cells' = Append(cells, Points(verdict)) /\ i' = i + 1 /\ pc' = "grade"
      /\ UNCHANGED <<handed_in, score_table, id_table, num, result, overdue, typed, stdout, proc>>
  BY DEF Give
<1>4. Fresh' /\ Just'
  BY <1>1, <1>2, <1>3, CellWritten
<1>5. Distinct' /\ Complete'
  BY <1>3 DEF GradeInv, Distinct, Complete, Program
<1> QED
  BY <1>4, <1>5 DEF GradeInv

LEMMA Verdicts == Points(false) = 0 /\ Points(true) = score_table[i].score
BY DEF Points, true, false

(* A cell of no points is fair if the program is not right.                *)
LEMMA NoPoints ==
  ASSUME NEW j, NEW full,
         \/ Program(j) = Missing \/ j \in overdue
         \/ ~Silent(Solutions[j[2]]) \/ ~Silent(Program(j))
         \/ Plain(Program(j).prints) # Plain(Solutions[j[2]].prints)
  PROVE  Fair(j, 0, full)
BY DEF Fair

LEMMA GradeAnswer ==
  ASSUME GradeInv, PlaceInv', LeftoverInv', NoAnswer \/ score_blank
  PROVE  GradeInv'
<1> USE DEF tables, programs, ghosts
<1>1. PICK verdict \in {false, true} : Give(verdict) /\ (NoAnswer => verdict = false)
  BY DEF NoAnswer, score_blank, true, false
<1>2. /\ pc \in Grading /\ num <= Len(id_table) /\ i <= Len(Columns(score_table))
      /\ qname \in CFiles => Answer = Missing /\ verdict = false
      /\ UNCHANGED <<programs, handed_in, overdue>>
  BY <1>1 DEF NoAnswer, score_blank, Asked, Graded, Grading, Give
<1>3. ASSUME NEW j \in Jobs, NEW points, NEW full,
             j = Job, points = Points(verdict)
      PROVE  Fair(j, points, full)'
  <2>1. qname \in CFiles
    BY <1>3 DEF Job, Jobs
  <2>2. Program(j) = Missing /\ points = 0
    BY <1>2, <1>3, <2>1, Typed, Verdicts DEF GradeInv, PlaceInv
  <2>3. Fair(j, points, full)
    BY <2>2, NoPoints
  <2> QED
    BY <1>2, <2>3, FairKept
<1> QED
  BY <1>1, <1>2, <1>3, GradeGive DEF true, false

LEMMA GradeCompile ==
  ASSUME GradeInv, PlaceInv', LeftoverInv', compile_program
  PROVE  GradeInv'
<1> USE DEF tables, row, programs, ghosts
<1>1. /\ pc = "grade" /\ num <= Len(id_table) /\ i <= Len(Columns(score_table))
      /\ qname \in CFiles
      /\ UNCHANGED <<handed_in, stdout, proc, elapsed, overdue>>
      /\ \/ /\ Give(false)
            /\ ~(Silent(Solutions[qname]) /\ Silent(Answer))
         \/ /\ pc' = "launch"
            /\ UNCHANGED <<handed_in, csv, result, tables, streams, row, pid, ghosts>>
  BY DEF compile_program, Asked, Graded, Give, true, false
<1>2. Here \in Table
  BY <1>1, HereTyped DEF GradeInv, Grading
<1>3. CASE Give(false) /\ ~(Silent(Solutions[qname]) /\ Silent(Answer))
  <2>1. ASSUME NEW j \in Jobs, NEW points, NEW full,
               j = Job, points = Points(false)
        PROVE  Fair(j, points, full)'
    <3>1. j[2] = qname /\ Program(j) = Answer /\ points = 0
      BY <1>1, <2>1, Typed, Verdicts DEF GradeInv, PlaceInv, Job
    <3>2. Fair(j, points, full)
      BY <1>3, <3>1, NoPoints
    <3> QED
      BY <1>1, <3>2, FairKept
  <2> QED
    BY <1>1, <1>3, <2>1, GradeGive DEF false, Grading
<1>4. CASE /\ pc' = "launch"
           /\ UNCHANGED <<handed_in, csv, result, tables, streams, row, pid, ghosts>>
  <2>1. Fresh' /\ Just'
    BY <1>1, <1>2, <1>4, OneJudged DEF Grading, Judging
  <2>2. Distinct' /\ Complete'
    BY <1>1, <1>4 DEF GradeInv, Distinct, Complete, Program
  <2> QED
    BY <2>1, <2>2 DEF GradeInv
<1> QED
  BY <1>1, <1>3, <1>4

LEMMA GradeCompare ==
  ASSUME GradeInv, PlaceInv', LeftoverInv', Compare
  PROVE  GradeInv'
<1> USE DEF tables, programs, ghosts
<1>1. /\ pc = "compare" /\ num <= Len(id_table) /\ i <= Len(Columns(score_table))
      /\ qname \in CFiles /\ Answer # Missing
      /\ Silent(Solutions[qname]) /\ ~Answer.error
      /\ compile = IF Silent(Answer) THEN true ELSE WARNING * Answer.warnings
  BY DEF Compare, GradeInv, PlaceInv, Compiled, Judging
<1>2. /\ Job \in Jobs /\ Answer = Program(Job)
      /\ Answer \in Sources /\ Solutions[qname] \in Sources
  BY <1>1, Typed DEF GradeInv, PlaceInv
<1>3. compile = true \/ compile < 0
  <2>1. Answer.warnings \in Nat
    BY <1>2 DEF Sources
  <2>2. Silent(Answer) \/ Answer.warnings # 0
    BY <1>1 DEF Silent
  <2>3. \A n \in Nat : n # 0 => WARNING * n < 0
    BY DEF WARNING
  <2> QED
    BY <1>1, <2>1, <2>2, <2>3
<1>4. PICK same \in compare_resultfile(stdout[Job], Solutions[qname].prints) :
        Give(IF same THEN compile ELSE false)
  BY DEF Compare
<1> DEFINE verdict == IF same THEN compile ELSE false
<1>5. /\ proc[Job] = "ended" /\ stdout[Job] = Program(Job).prints /\ Job \notin overdue
  <2>1. proc[Job] = "ended" /\ stdout[Job] = Program(Job).prints
    BY <1>1, <1>2 DEF GradeInv, Complete
  <2>2. /\ Here \in Table /\ Here[2] = i /\ JobAt(Here) = Job /\ ~Behind(Here)
    <3>1. i \in Nat /\ num \in Nat
      BY DEF GradeInv, PlaceInv, TypeOK
    <3> QED
      BY <1>1, <3>1, HereTyped DEF GradeInv, Grading, Judging, Here, JobAt, Job, id, qname, Behind
  <2>3. Job \notin overdue
    BY <1>1, <2>2 DEF GradeInv, Fresh, qname, Grading, Judging
  <2> QED
    BY <2>1, <2>3
<1>6. /\ same => Like(Program(Job).prints, Solutions[qname].prints)
      /\ Plain(Program(Job).prints) = Plain(Solutions[qname].prints) => same
  <2>1. Program(Job).prints \in Seq(Chars) /\ Solutions[qname].prints \in Seq(Chars)
    BY <1>2 DEF Sources, Chars
  <2> QED
    BY <1>4, <1>5, <2>1, CompareFinds
<1>7. ASSUME NEW j \in Jobs, NEW points, NEW full,
             j = Job, points = Points(verdict), full = score_table[i].score
      PROVE  Fair(j, points, full)'
  <2>1. j[2] = qname /\ Program(j) = Answer
    BY <1>2, <1>7 DEF Job
  <2>2. Fair(j, points, full)
    <3>1. CASE ~same
      <4>1. points = 0
        BY <1>7, <3>1, Verdicts
      <4>2. Plain(Program(j).prints) # Plain(Solutions[j[2]].prints)
        BY <1>6, <1>7, <2>1, <3>1
      <4> QED
        BY <4>1, <4>2, NoPoints
    <3>2. CASE same
      <4>1. Silent(Answer) => points = full
        BY <1>1, <1>7, <3>2, Verdicts
      <4> HIDE DEF verdict
      <4> QED
        BY <1>1, <1>5, <1>6, <1>7, <2>1, <3>2, <4>1 DEF Fair
    <3> QED
      BY <3>1, <3>2
  <2>3. handed_in' = handed_in /\ proc' = proc /\ overdue' = overdue
    BY <1>4 DEF Compare, Give
  <2> QED
    BY <2>2, <2>3, FairKept
<1>8. verdict \in Int /\ (verdict \in {false, true} \/ verdict < 0)
  BY <1>3 DEF true, false, GradeInv, PlaceInv, TypeOK
<1>9. UNCHANGED programs
  BY DEF Compare
<1> HIDE DEF verdict
<1>10. Give(verdict)
  BY <1>4 DEF verdict
<1> QED
  BY <1>1, <1>7, <1>8, <1>9, <1>10, GradeGive DEF Grading, Judging

(* The program is launched, and looked at until it is at its end or late.  *)
LEMMA GradeLaunch ==
  ASSUME GradeInv, PlaceInv', LeftoverInv', Launch
  PROVE  GradeInv'
<1> USE DEF files, tables, row, ghosts
<1>1. /\ pc = "launch" /\ pc' = "poll"
      /\ stdout' = [stdout EXCEPT ![Job] = <<>>] /\ proc' = [proc EXCEPT ![Job] = "forked"]
      /\ UNCHANGED <<handed_in, csv, result, score_table, id_table, row, ghosts>>
  BY DEF Launch
<1>2. /\ num <= Len(id_table) /\ i <= Len(Columns(score_table)) /\ qname \in CFiles
  BY <1>1 DEF GradeInv, PlaceInv, Compiled, Judging
<1>3. /\ Job \in Jobs /\ Here \in Table /\ Job' = Job
      /\ stdout \in [Jobs -> Seq(STRING)]
      /\ proc \in [Jobs -> {"none", "forked", "running", "ended", "killed"}]
  BY <1>1, <1>2, Typed, HereTyped DEF GradeInv, PlaceInv, TypeOK, Grading, Judging, Job, id, qname
<1>4. /\ proc'[Job] = "forked"
      /\ \A j \in Jobs \ {Job} : proc'[j] = proc[j] /\ stdout'[j] = stdout[j]
  BY <1>1, <1>3
<1>5. Fresh' /\ Just'
  BY <1>1, <1>3, <1>4, OneJudged DEF Grading, Judging
<1>6. Complete'
  BY <1>1, <1>3, <1>4 DEF GradeInv, Complete, Program
<1>7. Distinct'
  BY <1>1 DEF GradeInv, Distinct
<1> QED
  BY <1>5, <1>6, <1>7 DEF GradeInv

LEMMA GradePoll ==
  ASSUME Prompt, GradeInv, PlaceInv', LeftoverInv', inBackground
  PROVE  GradeInv'
<1> USE DEF files, tables, row, programs, ghosts
<1> DEFINE listed == {j \in Jobs : proc[j] = "running" /\ j[2] \in Alike[qname]}
<1>1. /\ pc = "poll" /\ proc[Job] # "forked"
      /\ pc' = "limit" \/ (pc' = "compare" /\ listed = {})
      /\ UNCHANGED <<handed_in, csv, result, score_table, id_table, row, stdout, proc, ghosts>>
  BY DEF inBackground
<1>2. /\ num <= Len(id_table) /\ i <= Len(Columns(score_table)) /\ qname \in CFiles
  BY <1>1 DEF GradeInv, PlaceInv, Compiled, Judging
<1>3. Job \in Jobs /\ Here \in Table /\ Job' = Job
  BY <1>1, <1>2, Typed, HereTyped DEF GradeInv, PlaceInv, Grading, Judging, Job, id, qname
<1>4. Fresh' /\ Just'
  BY <1>1, <1>3, OneJudged DEF Grading, Judging
<1>5. proc[Job] \in {"running", "ended"}
  BY <1>1 DEF GradeInv, Complete
<1>6. listed = {} => proc[Job] # "running"
  <2>1. Job[2] \in Alike[qname]
    BY <1>2, ScoreAssumption DEF Job
  <2> QED
    BY <1>3, <2>1
<1> HIDE DEF listed
<1>7. Complete'
  BY <1>1, <1>3, <1>5, <1>6 DEF GradeInv, Complete, Program
<1>8. Distinct'
  BY <1>1 DEF GradeInv, Distinct
<1> QED
  BY <1>4, <1>7, <1>8 DEF GradeInv

LEMMA GradeLimit ==
  ASSUME GradeInv, PlaceInv', LeftoverInv', CheckTime
  PROVE  GradeInv'
<1> USE DEF files, tables, row, programs, ghosts
<1>1. /\ pc = "limit" /\ pid = Job
      /\ UNCHANGED <<handed_in, csv, result, score_table, id_table, num, stdout, typed>>
  BY DEF CheckTime, Late, GradeInv, LeftoverInv, Watched
<1>2. /\ num <= Len(id_table) /\ i <= Len(Columns(score_table)) /\ qname \in CFiles
  BY <1>1 DEF GradeInv, PlaceInv, Compiled, Judging
<1>3. Job \in Jobs /\ Here \in Table
  BY <1>1, <1>2, Typed, HereTyped DEF GradeInv, PlaceInv, Grading, Judging
<1>4. CASE /\ proc' = [proc EXCEPT ![pid] = IF @ = "running" THEN "killed" ELSE @]
           /\ Late
  <2>1. /\ overdue' = overdue \cup {Job} /\ cells' = Append(cells, 0) /\ i' = i + 1
        /\ pc' = "grade"
    BY <1>4 DEF Late
  <2>2. /\ \A j \in Jobs \ {Job} : proc'[j] = proc[j]
        /\ proc'[Job] = "ended" => proc[Job] = "ended"
    BY <1>1, <1>3, <1>4 DEF GradeInv, LeftoverInv, Watched
  <2>3. ASSUME NEW j \in Jobs, NEW points, NEW full, j = Job, points = 0
        PROVE  Fair(j, points, full)'
    BY <2>1, <2>3 DEF Fair
  <2>4. Fresh' /\ Just'
    BY <1>1, <1>3, <2>1, <2>2, <2>3, CellWritten DEF Grading, Judging
  <2>5. Complete'
    BY <1>1, <1>3, <2>1, <2>2 DEF GradeInv, Complete, Program
  <2>6. Distinct'
    BY <1>1 DEF GradeInv, Distinct
  <2> QED
    BY <2>4, <2>5, <2>6 DEF GradeInv
<1>5. CASE pc' = "poll" /\ UNCHANGED <<row, overdue, proc>>
  <2>1. Fresh' /\ Just'
    BY <1>1, <1>3, <1>5, OneJudged DEF Grading, Judging
  <2>2. Job' = Job
    BY <1>1, <1>5 DEF Job, id, qname
  <2>3. Complete' /\ Distinct'
    BY <1>1, <1>5, <2>2 DEF GradeInv, Complete, Distinct, Program
  <2> QED
    BY <2>1, <2>3 DEF GradeInv
<1> QED
  BY <1>4, <1>5 DEF CheckTime

(* The row is full: what was behind the grader still is, and nothing else. *)
LEMMA GradeRow ==
  ASSUME GradeInv, PlaceInv', LeftoverInv', EndRow
  PROVE  GradeInv'
<1> USE DEF tables, programs, ghosts
<1> DEFINE done == [id |-> id, cells |-> cells, sum |-> score]
<1>1. /\ pc = "grade" /\ pc' = "grade" /\ num <= Len(id_table) /\ ~(i <= Len(Columns(score_table)))
      /\ result' = [result EXCEPT !.rows = Append(@, done)]
      /\ num' = num + 1 /\ i' = 1 /\ cells' = <<>>
      /\ UNCHANGED <<handed_in, score_table, id_table, stdout, proc, typed, overdue>>
  BY DEF EndRow, Asked, Graded
<1>2. /\ num \in Nat \ {0} /\ i = Len(Columns(score_table)) + 1 /\ Len(result.rows) = num - 1
      /\ result \in [header : Seq(Entries), rows : Seq(Rows)]
      /\ Columns(score_table) \in Seq(Entries)
  <2>1. /\ num \in Nat \ {0} /\ result \in [header : Seq(Entries), rows : Seq(Rows)]
        /\ score_table \in Seq(Entries)
    BY DEF GradeInv, PlaceInv, TypeOK
  <2>2. Columns(score_table) \in Seq(Entries)
    BY <2>1, ColumnsPrefix
  <2>3. i \in 1 .. Len(Columns(score_table)) + 1 /\ Len(result.rows) = num - 1
    BY <1>1 DEF GradeInv, PlaceInv, Placed, Grading
  <2>4. i = Len(Columns(score_table)) + 1
    BY <1>1, <2>2, <2>3
  <2> QED
    BY <2>1, <2>2, <2>3, <2>4
<1>3. /\ id \in Students /\ cells \in Seq(Int) /\ score \in Int
  <2>1. id_table \in Seq(Students) /\ num \in Nat \ {0}
    BY DEF GradeInv, PlaceInv, TypeOK
  <2>2. id \in Students
    BY <1>1, <2>1 DEF id
  <2> QED
    BY <2>2 DEF GradeInv, PlaceInv, TypeOK
<1>4. done \in Rows /\ done.cells = cells
  BY <1>3 DEF Rows
<1> HIDE DEF done
<1>5. /\ result'.rows[num].cells = cells
      /\ \A k \in 1 .. num - 1 : result'.rows[k] = result.rows[k]
  <2>1. result'.rows = Append(result.rows, done) /\ result.rows \in Seq(Rows)
    BY <1>1, <1>2
  <2> QED
    BY <1>2, <1>4, <2>1
<1>6. ASSUME NEW at \in Table
      PROVE  /\ JobAt(at)' = JobAt(at)
             /\ Behind(at) => PointsAt(at)' = PointsAt(at)
             /\ Behind(at)' <=> Behind(at)
  <2>1. at[1] \in Nat /\ at[2] \in Nat /\ at[1] >= 1 /\ at[2] >= 1 /\ at[2] < i
    BY <1>2, TableTyped DEF GradeInv, PlaceInv
  <2>2. JobAt(at)' = JobAt(at)
    BY <1>1 DEF JobAt
  <2>3. Behind(at) <=> at[1] <= num
    BY <1>2, <2>1 DEF Behind
  <2>4. Behind(at)' <=> at[1] <= num
    BY <1>1, <1>2, <2>1 DEF Behind
  <2>5. Behind(at) => PointsAt(at)' = PointsAt(at)
    <3>1. CASE at[1] < num
      BY <1>1, <1>2, <1>5, <2>1, <3>1 DEF PointsAt
    <3>2. CASE at[1] = num
      BY <1>1, <1>2, <1>5, <2>1, <3>2 DEF PointsAt
    <3> QED
      BY <1>2, <2>1, <2>3, <3>1, <3>2
  <2> QED
    BY <2>2, <2>3, <2>4, <2>5
<1>7. Table' = Table
  BY <1>1 DEF Table
<1>8. Fresh'
  <2> SUFFICES ASSUME NEW at \in Table, score_table[at[2]].qname \in CFiles, ~Behind(at)
               PROVE  JobAt(at) \notin overdue /\ proc[JobAt(at)] = "none"
    BY <1>1, <1>6, <1>7 DEF Fresh, Grading
  <2> QED
    BY <1>1 DEF GradeInv, Fresh, Grading, Judging
<1>9. Just'
  <2> SUFFICES ASSUME NEW at \in Table, NEW j \in Jobs, NEW points, NEW full,
                      Behind(at), j = JobAt(at),
                      points = PointsAt(at), full = score_table[at[2]].score
               PROVE  Fair(j, points, full)'
    BY <1>1, <1>6, <1>7 DEF Just
  <2>1. Fair(j, points, full)
    BY <1>1 DEF GradeInv, Just, Grading
  <2> QED
    BY <1>1, <2>1, FairKept
<1>10. Complete' /\ Distinct'
  BY <1>1 DEF GradeInv, Complete, Distinct, Program
<1> QED
  BY <1>8, <1>9, <1>10 DEF GradeInv

(* Only the program here runs.                                             *)
LEMMA GradeProgram ==
  ASSUME GradeInv, PlaceInv', LeftoverInv', NEW j \in Jobs, Exec(j) \/ Prints(j) \/ Ends(j)
  PROVE  GradeInv'
<1> USE DEF files, tables, row, programs, ghosts
<1>1. UNCHANGED <<handed_in, result, pc, score_table, id_table, row, typed, overdue>>
  BY DEF Exec, Prints, Ends
<1>2. /\ stdout \in [Jobs -> Seq(STRING)]
      /\ proc \in [Jobs -> {"none", "forked", "running", "ended", "killed"}]
  BY DEF GradeInv, PlaceInv, TypeOK
<1>3. /\ j = Job /\ pc \in {"poll", "limit"}
  <2>1. proc[j] \in {"forked", "running"}
    BY DEF Exec, Prints, Ends
  <2> QED
    BY <2>1 DEF GradeInv, LeftoverInv, NoLeftovers
<1>4. /\ num <= Len(id_table) /\ i <= Len(Columns(score_table))
  BY <1>3 DEF GradeInv, PlaceInv, Compiled, Judging
<1>5. Here \in Table /\ Job' = Job
  BY <1>1, <1>3, <1>4, HereTyped DEF GradeInv, Grading, Judging, Job, id, qname
<1>6. /\ \A m \in Jobs \ {Job} : proc'[m] = proc[m] /\ stdout'[m] = stdout[m]
      /\ proc'[Job] \in {"running", "ended"}
      /\ proc'[Job] = "ended" => stdout'[Job] = Program(Job).prints
  <2>1. CASE Exec(j)
    BY <1>2, <1>3, <2>1 DEF Exec
  <2>2. CASE Prints(j)
    BY <1>2, <1>3, <2>2 DEF Prints
  <2>3. CASE Ends(j)
    BY <1>2, <1>3, <2>3 DEF Ends
  <2> QED
    BY <2>1, <2>2, <2>3
<1>7. Fresh' /\ Just'
  BY <1>1, <1>3, <1>5, <1>6, OneJudged DEF Grading, Judging
<1>8. Complete'
  BY <1>1, <1>3, <1>5, <1>6 DEF GradeInv, Complete, Program
<1>9. Distinct'
  BY <1>1 DEF GradeInv, Distinct
<1> QED
  BY <1>7, <1>8, <1>9 DEF GradeInv

LEMMA GradeOther ==
  ASSUME GradeInv, PlaceInv', LeftoverInv',
         EndStudents \/ Tick \/ Crash \/ RunAgain \/ UNCHANGED vars
  PROVE  GradeInv'
<1> USE DEF files, tables, row, programs, ghosts
<1>1. CASE EndStudents
  <2>1. /\ pc' = "done" /\ UNCHANGED <<handed_in, stdout, proc, typed>>
    BY <1>1 DEF EndStudents
  <2> QED
    BY <2>1 DEF GradeInv, Distinct, Fresh, Complete, Just, Grading, Judging, Program
<1>2. CASE Tick \/ UNCHANGED vars
  <2>1. /\ UNCHANGED <<handed_in, result, pc, score_table, id_table, row, stdout, proc, typed, overdue>>
    BY <1>2 DEF Tick, vars
  <2>2. /\ Table' = Table /\ Here' = Here /\ Job' = Job
        /\ \A at \in Table : JobAt(at)' = JobAt(at)
        /\ \A at \in Table : PointsAt(at)' = PointsAt(at)
        /\ \A at \in Table : Behind(at)' <=> Behind(at)
    BY <2>1 DEF Table, Here, JobAt, PointsAt, Behind, Job, id, qname
  <2>3. Fresh' /\ Complete' /\ Distinct'
    BY <2>1, <2>2 DEF GradeInv, Fresh, Complete, Distinct, Program
  <2>4. Just'
    <3> SUFFICES ASSUME pc \in Grading,
                        NEW at \in Table, NEW j \in Jobs, NEW points, NEW full,
                        Behind(at), j = JobAt(at),
                        points = PointsAt(at), full = score_table[at[2]].score
                 PROVE  Fair(j, points, full)'
      BY <2>1, <2>2 DEF Just
    <3>1. Fair(j, points, full)
      BY DEF GradeInv, Just
    <3> QED
      BY <2>1, <3>1, FairKept
  <2> QED
    BY <2>3, <2>4 DEF GradeInv
<1>3. CASE Crash \/ RunAgain
  <2>1. /\ pc' = "off" /\ proc' = [j \in Jobs |-> "none"] /\ overdue' = {} /\ typed' = typed
    BY <1>3 DEF Crash, RunAgain, NewProcess
  <2> QED
    BY <2>1 DEF GradeInv, Distinct, Fresh, Complete, Just, Grading, Judging
<1> QED
  BY <1>1, <1>2, <1>3

LEMMA GradeInvariance ==
  ASSUME Prompt
  PROVE  Spec => []GradeInv
<1>1. Init => Distinct /\ Fresh /\ Complete /\ Just
  BY DEF Init, Distinct, Fresh, Complete, Just, Grading, Judging
<1>2. ASSUME GradeInv, PlaceInv', LeftoverInv', [Next]_vars
      PROVE  GradeInv'
  <2>1. CASE Grader
    BY <1>2, <2>1, Prompt, GradeTable, GradeAnswer, GradeCompile, GradeCompare, GradeLaunch,
       GradePoll, GradeLimit, GradeRow, GradeOther DEF Grader
  <2>2. CASE \E j \in Jobs : Exec(j) \/ Prints(j) \/ Ends(j)
    BY <1>2, <2>2, GradeProgram
  <2>3. CASE Tick \/ Crash \/ RunAgain \/ UNCHANGED vars
    BY <1>2, <2>3, GradeOther
  <2> QED
    BY <1>2, <2>1, <2>2, <2>3 DEF Next, Ended
<1>3. Spec => []PlaceInv /\ []LeftoverInv
  BY Prompt, PlaceInvariance, LeftoverInvariance
<1>4. PlaceInv /\ LeftoverInv /\ Distinct /\ Fresh /\ Complete /\ Just => GradeInv
  BY DEF GradeInv
<1> QED
  BY <1>1, <1>2, <1>3, <1>4, PTL DEF Spec

-----------------------------------------------------------------------------
(* What is given at this moment stands at a place of the table.            *)
LEMMA GivenFair ==
  ASSUME GradeInv, NEW g \in Given
  PROVE  Fair(g.job, g.points, g.full)
<1>1. pc = "grade"
  BY DEF Given
<1>2. PICK k \in {k \in DOMAIN id_table : k <= num} :
      \E c \in {c \in DOMAIN Cells(k) : score_table[c].qname \in CFiles} :
        g = [job |-> <<id_table[k], score_table[c].qname>>,
             points |-> Cells(k)[c], full |-> score_table[c].score]
  BY <1>1 DEF Given
<1>3. PICK c \in {c \in DOMAIN Cells(k) : score_table[c].qname \in CFiles} :
        g = [job |-> <<id_table[k], score_table[c].qname>>,
             points |-> Cells(k)[c], full |-> score_table[c].score]
  BY <1>2
<1>4. /\ g.job = <<id_table[k], score_table[c].qname>>
      /\ g.points = Cells(k)[c] /\ g.full = score_table[c].score
  BY <1>3
<1>5. /\ num \in Nat \ {0} /\ i \in Nat \ {0} /\ id_table \in Seq(Students)
      /\ result.rows \in Seq(Rows) /\ cells \in Seq(Int)
      /\ score_table \in Seq(Entries) /\ Columns(score_table) \in Seq(Entries)
      /\ Len(Columns(score_table)) <= Len(score_table)
  BY ColumnsPrefix DEF GradeInv, PlaceInv, TypeOK
<1>6. /\ Len(result.rows) = num - 1 /\ Len(cells) = i - 1
      /\ i \in 1 .. Len(Columns(score_table)) + 1
      /\ \A m \in DOMAIN result.rows : Len(result.rows[m].cells) = Len(Columns(score_table))
  BY <1>1 DEF GradeInv, PlaceInv, Placed, Grading
<1> DEFINE at == <<k, c>>
<1>7. k \in 1 .. Len(id_table) /\ k <= num /\ k \in Nat
  BY <1>2, <1>5
<1>8. c \in 1 .. Len(Columns(score_table)) /\ Cells(k)[c] \in Int /\ c \in DOMAIN score_table
      /\ Behind(at) /\ Cells(k)[c] = PointsAt(at)
  <2>1. CASE k < num
    <3>1. k \in DOMAIN result.rows /\ Cells(k) = result.rows[k].cells
      BY <1>5, <1>6, <1>7, <2>1 DEF Cells
    <3>2. result.rows[k] \in Rows
      BY <1>5, <3>1
    <3>3. Cells(k) \in Seq(Int) /\ Len(Cells(k)) = Len(Columns(score_table))
      BY <1>6, <3>1, <3>2 DEF Rows
    <3>4. c \in 1 .. Len(Columns(score_table)) /\ Cells(k)[c] \in Int
      BY <1>3, <3>3
    <3> QED
      BY <1>5, <1>7, <2>1, <3>1, <3>4 DEF Behind, PointsAt
  <2>2. CASE k = num
    <3>1. Cells(k) = cells
      BY <1>5, <1>6, <2>2 DEF Cells
    <3>2. c \in 1 .. i - 1 /\ Cells(k)[c] \in Int
      BY <1>3, <1>5, <1>6, <3>1
    <3> QED
      BY <1>5, <1>6, <2>2, <3>1, <3>2 DEF Behind, PointsAt
  <2> QED
    BY <1>5, <1>7, <2>1, <2>2
<1>9. at \in Table
  BY <1>7, <1>8 DEF Table
<1>10. score_table[c].qname \in CFiles
  BY <1>3
<1>11. JobAt(at) \in Jobs /\ score_table[c].score \in Nat
  <2>1. score_table[c] \in Entries
    BY <1>5, <1>8
  <2> QED
    BY <1>9, <1>10, <2>1, TableTyped DEF GradeInv, PlaceInv, Entries
<1>12. g.job = JobAt(at)
  BY <1>4 DEF JobAt
<1> QED
  BY <1>1, <1>4, <1>8, <1>9, <1>11, <1>12 DEF GradeInv, Just, Grading

(* Points for a program mean that it compiled, that it came to its end by  *)
(* itself and in time, and that all it printed is like what the solution   *)
(* prints, if the shell gets to its exec before ps looks.                  *)
THEOREM PointsDeservedHolds ==
  ASSUME Prompt
  PROVE  Spec => []PointsDeserved
<1>1. GradeInv => PointsDeserved
  BY GivenFair DEF PointsDeserved, Fair
<1> QED
  BY <1>1, Prompt, GradeInvariance, PTL

(* And a program without a warning that prints what the solution prints    *)
(* gets its points, unless it was still running when its time was over.    *)
THEOREM RightProgramPaidHolds ==
  ASSUME Prompt
  PROVE  Spec => []RightProgramPaid
<1>1. GradeInv => RightProgramPaid
  BY GivenFair DEF RightProgramPaid, Fair
<1> QED
  BY <1>1, Prompt, GradeInvariance, PTL

=============================================================================
