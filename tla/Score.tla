------------------------------- MODULE Score --------------------------------
(***************************************************************************)
(* ssu_score/ssu_score.c: the grader.  It takes the points of each question*)
(* from score_table.csv, or asks for them and writes that file, and then   *)
(* grades every student's answers into score.csv: a blank by comparing     *)
(* expressions, a program by compiling it, running it in the background    *)
(* under a limit of time, and comparing what it printed.                   *)
(*                                                                         *)
(* The actors are the grader, the students' programs, which run on their   *)
(* own once they are launched, and the clock.  The grader may be killed    *)
(* (its terminal or the machine with it) and be run again.                 *)
(***************************************************************************)
EXTENDS Integers, SequencesExt

CONSTANTS
  Students,      (* the directories in stuDir: numbers, for they are sorted*)
  Questions,     (* the files in ansDir, numbers as well                   *)
  CFiles,        (* those of them that are programs                        *)
  Scores,        (* points that are given, in thousandths                  *)
  Papers,        (* what the students may have handed in                   *)
  Missing,       (* ... when the file does not exist                       *)
  Solutions,     (* what ansDir has for them                               *)
  Alike,         (* for each program those whose names grep finds with it  *)
  Small,         (* the small letter for each capital                      *)
  OVER,          (* the limit, in seconds: 5                               *)
  Prompt,        (* whether the shell always gets to exec before ps looks  *)
  eOption, mOption,
  MaxStreams,    (* how many files the process may have open               *)
  MaxRuns        (* bound: how often the grader is run                     *)

ASSUME ScoreAssumption ==
  /\ Students \subseteq Nat /\ IsFiniteSet(Students)
  /\ Questions \subseteq Nat /\ IsFiniteSet(Questions)
  /\ CFiles \subseteq Questions
  /\ Scores \subseteq Nat
  /\ OVER \in Nat
  /\ Prompt \in BOOLEAN /\ eOption \in BOOLEAN /\ mOption \in BOOLEAN
  /\ MaxStreams \in Nat \ {0}
  /\ MaxRuns \in Nat
  /\ \A paper \in Papers : DOMAIN paper = Students
  /\ \A q \in CFiles : q \in Alike[q]

(* What gcc says of a program, what it prints, and whether it ends.        *)
Sources == [error : BOOLEAN, warnings : Nat, prints : Seq(STRING), ends : BOOLEAN]

ASSUME PaperAssumption ==
  /\ \A q \in CFiles :
       /\ Solutions[q] \in Sources
       /\ \A paper \in Papers : \A s \in Students : paper[s][q] \in Sources \cup {Missing}
  /\ " " \notin DOMAIN Small /\ \A c \in DOMAIN Small : Small[c] \in STRING \ {" "}

VARIABLES
  handed_in,          (* the answers of each student                       *)
  csv,                (* score_table.csv: whether it exists, and its lines *)
  result,             (* score.csv: the questions of the header, the rows  *)
  errors,             (* the error files in the directory of -e            *)
  stdout,             (* what each program has written to its .stdout      *)
  pc,                 (* where the grader is; "off" when there is none     *)
  score_table, id_table,
  streams,            (* how many streams -m has left open                 *)
  num, i,             (* the student and the question being graded         *)
  cells, score,       (* the row so far, and its sum                       *)
  compile,            (* what compile_program has returned                 *)
  pid,                (* the program that ps has listed                    *)
  elapsed,            (* seconds since the program was launched            *)
  proc,               (* how each program is                               *)
  typed, overdue,     (* ghosts: the table as it was typed; the programs   *)
                      (* found running when their time was over            *)
  runs                (* how often the grader has been started             *)

files == <<csv, result, errors>>
tables == <<score_table, id_table>>
row == <<num, i, cells, score>>
programs == <<stdout, proc, elapsed>>
ghosts == <<typed, overdue, runs>>
vars == <<handed_in, files, pc, tables, streams, row, compile, pid, programs, ghosts>>

-----------------------------------------------------------------------------
Jobs == Students \X CFiles

(* The numbers of S in their order: the k-th has k - 1 below it.           *)
Kth(S, k) == CHOOSE n \in S : Cardinality({m \in S : m < n}) = k - 1
InOrder(S) == [k \in 1 .. Cardinality(S) |-> Kth(S, k)]

true == 1
false == 0
WARNING == -100

(* "%.2f": a table that is read back has its points in hundredths.         *)
Written(points) == 10 * ((points + 5) \div 10)

Question(n, points) == [qname |-> n, score |-> points]

(* Header, rows and the file end before the first question of no points.   *)
Columns(table) ==
  LET worthless == {k \in DOMAIN table : table[k].score = 0} IN
  IF worthless = {} THEN table ELSE SubSeq(table, 1, Min(worthless) - 1)

id == id_table[num]
qname == score_table[i].qname
Job == <<id, qname>>
Answer == handed_in[id][qname]

Init ==
  /\ handed_in \in Papers
  /\ csv = [exists |-> FALSE, lines |-> <<>>]
  /\ result = [header |-> <<>>, rows |-> <<>>]
  /\ errors = {}
  /\ pc = "off"
  /\ score_table = <<>> /\ id_table = <<>>
  /\ streams = 0
  /\ num = 1 /\ i = 1 /\ cells = <<>> /\ score = 0
  /\ compile = false
  /\ pid = <<>>
  /\ stdout = [j \in Jobs |-> <<>>]
  /\ elapsed = 0
  /\ proc = [j \in Jobs |-> "none"]
  /\ typed = <<>> /\ overdue = {}
  /\ runs = 0

-----------------------------------------------------------------------------
(* ssu_score up to set_idTable: the options and the tables.                *)
check_option ==
  /\ pc = "off"
  /\ runs < MaxRuns /\ runs' = runs + 1
  /\ pc' = "table"
  /\ errors' = IF eOption THEN {} ELSE errors       \* rmdirs, mkdir
  /\ UNCHANGED <<handed_in, csv, result, tables, streams, row, compile, pid, programs,
                 typed, overdue>>

AfterTable == IF mOption THEN "modify" ELSE "score"

read_scoreTable ==
  /\ pc = "table"
  /\ csv.exists
  /\ score_table' = csv.lines
  /\ pc' = AfterTable
  /\ UNCHANGED <<handed_in, files, id_table, streams, row, compile, pid, programs, ghosts>>

(* The points are asked for, by kind of question or one by one; then the   *)
(* file is created.                                                        *)
make_scoreTable ==
  /\ pc = "table"
  /\ ~csv.exists
  /\ \E points \in [Questions -> Scores] :
       score_table' = [k \in 1 .. Len(InOrder(Questions)) |->
                         Question(InOrder(Questions)[k], points[InOrder(Questions)[k]])]
  /\ typed' = score_table'
  /\ csv' = [csv EXCEPT !.exists = TRUE]
  /\ i' = 1
  /\ pc' = "write"
  /\ UNCHANGED <<handed_in, result, errors, id_table, streams, num, cells, score,
                 compile, pid, programs, overdue, runs>>

(* Faulty variant: a question of no points is left out, the next written.  *)
write_scoreTable_skipping ==
  /\ pc = "write"
  /\ \/ /\ i <= Len(score_table)
        /\ csv' = [csv EXCEPT !.lines =
             IF score_table[i].score = 0 THEN @
             ELSE Append(@, Question(qname, Written(score_table[i].score)))]
        /\ i' = i + 1
        /\ UNCHANGED pc
     \/ /\ i > Len(score_table)
        /\ pc' = AfterTable
        /\ UNCHANGED <<csv, i>>
  /\ UNCHANGED <<handed_in, result, errors, tables, streams, num, cells, score,
                 compile, pid, programs, ghosts>>

(* One write for each line.                                                *)
write_scoreTable ==
  /\ pc = "write"
  /\ \/ /\ i <= Len(Columns(score_table))
        /\ csv' = [csv EXCEPT !.lines = Append(@, Question(qname, Written(score_table[i].score)))]
        /\ i' = i + 1
        /\ UNCHANGED pc
     \/ /\ i > Len(Columns(score_table))
        /\ pc' = AfterTable
        /\ UNCHANGED <<csv, i>>
  /\ UNCHANGED <<handed_in, result, errors, tables, streams, num, cells, score,
                 compile, pid, programs, ghosts>>

(* Every question but "no" opens the table once more, until fopen fails.   *)
do_mOption ==
  /\ pc = "modify"
  /\ \/ /\ streams < MaxStreams
        /\ streams' = streams + 1
        /\ pc' \in {"modify", "score"}
     \/ /\ streams = MaxStreams
        /\ pc' = "score"
        /\ UNCHANGED streams
  /\ UNCHANGED <<handed_in, files, tables, row, compile, pid, programs, ghosts>>

(* set_idTable (exit(1) if no directory can be opened any more), then      *)
(* score.csv is created and the header written.                            *)
set_idTable ==
  /\ pc = "score"
  /\ \/ /\ streams < MaxStreams
        /\ id_table' = InOrder(Students)
        /\ result' = [header |-> Columns(score_table), rows |-> <<>>]
        /\ num' = 1 /\ i' = 1 /\ cells' = <<>> /\ score' = 0
        /\ pc' = "grade"
     \/ /\ streams = MaxStreams
        /\ pc' = "done"
        /\ UNCHANGED <<id_table, result, row>>
  /\ UNCHANGED <<handed_in, csv, errors, score_table, streams, compile, pid, programs, ghosts>>

-----------------------------------------------------------------------------
(* score_student: what a verdict adds to the row.                          *)
Points(verdict) ==
  CASE verdict = false -> 0
    [] verdict = true -> score_table[i].score
    [] verdict < 0 -> score_table[i].score + verdict

Give(verdict) ==
  /\ cells' = Append(cells, Points(verdict))
  /\ score' = score + Points(verdict)
  /\ i' = i + 1
  /\ pc' = "grade"
  /\ UNCHANGED <<handed_in, csv, result, tables, streams, num, pid, ghosts>>

Graded == pc = "grade" /\ num <= Len(id_table)
Asked == Graded /\ i <= Len(Columns(score_table))

NoAnswer ==
  /\ Asked
  /\ Answer = Missing
  /\ Give(false)
  /\ UNCHANGED <<errors, compile, programs, overdue>>

(* get_answer splits the solution at the colons; an empty part ends it.    *)
Parts(solution) ==
  LET empty == SelectInSeq(solution, LAMBDA part : part.tree = "empty") IN
  IF empty = 0 THEN solution ELSE SubSeq(solution, 1, empty - 1)

(* A blank that can be read at all is right if it is, with or without its  *)
(* semicolon, one of the parts of the solution.                            *)
score_blank ==
  /\ Asked
  /\ qname \notin CFiles /\ Answer # Missing
  /\ Give(IF Answer.legal /\ \E part \in ToSet(Parts(Solutions[qname])) :
               part.tree = Answer.tree /\ part.semicolon = Answer.semicolon
            THEN true ELSE false)
  /\ UNCHANGED <<errors, compile, programs, overdue>>

-----------------------------------------------------------------------------
(* compile_program.  gcc says nothing, or warns, or fails; a solution of   *)
(* which it says anything counts as the student's failure.                 *)
Silent(program) == ~program.error /\ program.warnings = 0

check_error_warning(program) ==
  IF program.error THEN false ELSE WARNING * program.warnings

compile_program ==
  LET compiled ==
        CASE ~Silent(Solutions[qname]) -> false
          [] Silent(Solutions[qname]) /\ Silent(Answer) -> true
          [] OTHER -> check_error_warning(Answer) IN
  /\ Asked
  /\ qname \in CFiles /\ Answer # Missing
  /\ errors' = IF eOption /\ Silent(Solutions[qname]) /\ ~Silent(Answer)
                 THEN errors \cup {Job} ELSE errors
  /\ compile' = compiled
  /\ \/ compiled = false /\ Give(false)
     \/ /\ compiled # false
        /\ pc' = "launch"
        /\ UNCHANGED <<handed_in, csv, result, tables, streams, row, pid, ghosts>>
  /\ UNCHANGED <<programs>>

(* execute_program: the solution runs to its end, the student's program in *)
(* the background, into a file just created.                               *)
Launch ==
  /\ pc = "launch"
  /\ stdout' = [stdout EXCEPT ![Job] = <<>>]
  /\ proc' = [proc EXCEPT ![Job] = "forked"]
  /\ elapsed' = 0
  /\ pc' = "poll"
  /\ UNCHANGED <<handed_in, files, tables, streams, row, compile, pid, ghosts>>

(* Faulty variant: ps is looked at, but not waited for.                    *)
inBackground_once ==
  /\ pc = "poll"
  /\ Prompt => proc[Job] # "forked"
  /\ pc' = "compare"
  /\ UNCHANGED <<handed_in, files, tables, streams, row, compile, pid, programs, ghosts>>

(* ps | grep <qname>.stdexe lists what is running under a like name.       *)
inBackground ==
  LET listed == {j \in Jobs : proc[j] = "running" /\ j[2] \in Alike[qname]} IN
  /\ pc = "poll"
  /\ Prompt => proc[Job] # "forked"
  /\ \/ \E j \in listed : pid' = j /\ pc' = "limit"
     \/ listed = {} /\ pc' = "compare" /\ UNCHANGED pid
  /\ UNCHANGED <<handed_in, files, tables, streams, row, compile, programs, ghosts>>

Late ==
  /\ overdue' = overdue \cup {Job}
  /\ cells' = Append(cells, 0) /\ i' = i + 1
  /\ pc' = "grade"
  /\ UNCHANGED <<num, score>>

(* Faulty variants: the program is left running; what it has printed is    *)
(* compared although it was killed; it is waited for without a limit.      *)
CheckTime_sparing ==
  /\ pc = "limit"
  /\ \/ elapsed > OVER /\ Late
     \/ elapsed <= OVER /\ pc' = "poll" /\ UNCHANGED <<row, overdue>>
  /\ UNCHANGED <<handed_in, files, tables, streams, compile, pid, programs, typed, runs>>

CheckTime_comparing ==
  /\ pc = "limit"
  /\ \/ /\ elapsed > OVER
        /\ proc' = [proc EXCEPT ![pid] = IF @ = "running" THEN "killed" ELSE @]
        /\ pc' = "compare"
     \/ elapsed <= OVER /\ pc' = "poll" /\ UNCHANGED proc
  /\ UNCHANGED <<handed_in, files, tables, streams, row, compile, pid, stdout, elapsed, ghosts>>

CheckTime_patient ==
  /\ pc = "limit"
  /\ pc' = "poll"
  /\ UNCHANGED <<handed_in, files, tables, streams, row, compile, pid, programs, ghosts>>

(* The limit: what was listed is killed, unless it has ended meanwhile, and*)
(* the answer is wrong in either case.                                     *)
CheckTime ==
  /\ pc = "limit"
  /\ \/ /\ elapsed > OVER
        /\ proc' = [proc EXCEPT ![pid] = IF @ = "running" THEN "killed" ELSE @]
        /\ Late
     \/ elapsed <= OVER /\ pc' = "poll" /\ UNCHANGED <<row, overdue, proc>>
  /\ UNCHANGED <<handed_in, files, tables, streams, compile, pid, stdout, elapsed, typed, runs>>

-----------------------------------------------------------------------------
to_lower_case(c) == IF c \in DOMAIN Small THEN Small[c] ELSE c

(* What is left of a text without its spaces.                              *)
Inked(text) ==
  LET places == {k \in DOMAIN text : text[k] # " "} IN
  [k \in 1 .. Cardinality(places) |-> text[InOrder(places)[k]]]
Characters == UNION {ToSet(Solutions[q].prints) : q \in CFiles}

(* Behind the end of a file its character stays what was read last: the    *)
(* last of the file, or anything if the file is empty.                     *)
Held(text) == IF text = <<>> THEN Characters \cup {" "} ELSE {to_lower_case(Last(text))}

Reading(text, held, k) ==
  IF k <= Len(Inked(text)) THEN to_lower_case(Inked(text)[k]) ELSE held

(* Character by character without the spaces, until both have ended; the   *)
(* results that comparing the two files may have.                          *)
SameResult(text1, held1, text2, held2) ==
  \A k \in 1 .. Len(Inked(text1)) + Len(Inked(text2)) :
    k <= Len(Inked(text1)) \/ k <= Len(Inked(text2)) =>
      Reading(text1, held1, k) = Reading(text2, held2, k)

compare_resultfile(text1, text2) ==
  {SameResult(text1, held[1], text2, held[2]) : held \in Held(text1) \X Held(text2)}

Compare ==
  /\ pc = "compare"
  /\ \E same \in compare_resultfile(stdout[Job], Solutions[qname].prints) :
       Give(IF same THEN compile ELSE false)
  /\ UNCHANGED <<errors, compile, programs>>

(* The sum ends the row.                                                   *)
EndRow ==
  /\ Graded /\ ~Asked
  /\ result' = [result EXCEPT !.rows = Append(@, [id |-> id, cells |-> cells, sum |-> score])]
  /\ num' = num + 1 /\ i' = 1 /\ cells' = <<>> /\ score' = 0
  /\ UNCHANGED <<handed_in, csv, errors, pc, tables, streams, compile, pid, programs, ghosts>>

EndStudents ==
  /\ pc = "grade" /\ num > Len(id_table)
  /\ pc' = "done"
  /\ UNCHANGED <<handed_in, files, tables, streams, row, compile, pid, programs, ghosts>>

-----------------------------------------------------------------------------
(* The students' programs, and the clock while one of them is watched.     *)
Program(j) == handed_in[j[1]][j[2]]

Exec(j) ==
  /\ proc[j] = "forked"
  /\ proc' = [proc EXCEPT ![j] = "running"]
  /\ UNCHANGED <<handed_in, files, pc, tables, streams, row, compile, pid, stdout, elapsed, ghosts>>

Prints(j) ==
  /\ proc[j] = "running"
  /\ Len(stdout[j]) < Len(Program(j).prints)
  /\ stdout' = [stdout EXCEPT ![j] = Append(@, Program(j).prints[Len(@) + 1])]
  /\ UNCHANGED <<handed_in, files, pc, tables, streams, row, compile, pid, proc, elapsed, ghosts>>

Ends(j) ==
  /\ proc[j] = "running"
  /\ Program(j).ends
  /\ stdout[j] = Program(j).prints
  /\ proc' = [proc EXCEPT ![j] = "ended"]
  /\ UNCHANGED <<handed_in, files, pc, tables, streams, row, compile, pid, stdout, elapsed, ghosts>>

Tick ==
  /\ pc \in {"poll", "limit"}
  /\ elapsed <= OVER
  /\ elapsed' = elapsed + 1
  /\ UNCHANGED <<handed_in, files, pc, tables, streams, row, compile, pid, stdout, proc, ghosts>>

(* The variables of a process end with it.  So do, for the next run, its   *)
(* programs, the .stdout files and an unfinished row of score.csv: it      *)
(* creates the files before it uses them.                                  *)
NewProcess ==
  /\ pc' = "off"
  /\ score_table' = <<>> /\ id_table' = <<>>
  /\ streams' = 0
  /\ num' = 1 /\ i' = 1 /\ cells' = <<>> /\ score' = 0
  /\ compile' = false
  /\ pid' = <<>>
  /\ stdout' = [j \in Jobs |-> <<>>]
  /\ elapsed' = 0
  /\ proc' = [j \in Jobs |-> "none"]
  /\ overdue' = {}
  /\ UNCHANGED <<handed_in, files, typed, runs>>

(* The grader is killed, and what it has launched with it.                 *)
Crash ==
  /\ pc \notin {"off", "done"}
  /\ runs < MaxRuns
  /\ NewProcess

RunAgain ==
  /\ pc = "done"
  /\ runs < MaxRuns
  /\ NewProcess

Ended == pc = "done" /\ runs = MaxRuns /\ UNCHANGED vars

-----------------------------------------------------------------------------
Grader ==
  \/ check_option \/ read_scoreTable \/ make_scoreTable \/ write_scoreTable
  \/ do_mOption \/ set_idTable
  \/ NoAnswer \/ score_blank \/ compile_program
  \/ Launch \/ inBackground \/ CheckTime \/ Compare
  \/ EndRow \/ EndStudents

Next ==
  \/ Grader
  \/ \E j \in Jobs : Exec(j) \/ Prints(j) \/ Ends(j)
  \/ Tick
  \/ Crash \/ RunAgain
  \/ Ended

Spec == Init /\ [][Next]_vars

(* The grader is scheduled (and its questions answered), time passes, and  *)
(* the shell gets to its exec; the programs may do what they like.         *)
FairSpec ==
  /\ Spec
  /\ WF_vars(Grader) /\ WF_vars(Tick)
  /\ \A j \in Jobs : WF_vars(Exec(j))

-----------------------------------------------------------------------------
(* Properties                                                              *)

(* The variables keep their types.                                         *)
Entries == [qname : Questions, score : Nat]
Rows == [id : Students, cells : Seq(Int), sum : Int]

TypeOK ==
  /\ handed_in \in Papers
  /\ csv \in [exists : BOOLEAN, lines : Seq(Entries)]
  /\ result \in [header : Seq(Entries), rows : Seq(Rows)]
  /\ errors \subseteq Jobs /\ overdue \subseteq Jobs
  /\ pc \in {"off", "table", "write", "modify", "score", "grade", "launch", "poll", "limit",
            "compare", "done"}
  /\ score_table \in Seq(Entries) /\ typed \in Seq(Entries)
  /\ id_table \in Seq(Students)
  /\ streams \in 0 .. MaxStreams
  /\ num \in Nat \ {0} /\ i \in Nat \ {0}
  /\ cells \in Seq(Int) /\ score \in Int
  /\ compile \in Int
  /\ pid \in Jobs \cup {<<>>}
  /\ stdout \in [Jobs -> Seq(STRING)]
  /\ proc \in [Jobs -> {"none", "forked", "running", "ended", "killed"}]
  /\ elapsed \in 0 .. OVER + 1
  /\ runs \in 0 .. MaxRuns

Names(table) == [k \in DOMAIN table |-> table[k].qname]

(* Whatever a crash has left of score_table.csv, and however the points    *)
(* were rounded on the way through it: the questions graded are the first  *)
(* ones of those that were given points, in their order, none behind a     *)
(* question of no points; and every finished row has a cell for each.      *)
TableRecovered ==
  pc = "grade" =>
    /\ IsPrefix(Names(result.header), Names(Columns(typed)))
    /\ result.header = Columns(score_table)
    /\ \A k \in DOMAIN result.rows : Len(result.rows[k].cells) = Len(result.header)

(* The points a student has been given so far, with the question's.        *)
Cells(k) == IF k <= Len(result.rows) THEN result.rows[k].cells ELSE cells

Given ==
  IF pc # "grade" THEN {}
  ELSE UNION {{[job |-> <<id_table[k], score_table[c].qname>>,
                points |-> Cells(k)[c], full |-> score_table[c].score]
                 : c \in {c \in DOMAIN Cells(k) : score_table[c].qname \in CFiles}}
              : k \in {k \in DOMAIN id_table : k <= num}}

Plain(text) == [k \in DOMAIN Inked(text) |-> to_lower_case(Inked(text)[k])]

(* The same up to spaces and capitals, but for repetitions of the last     *)
(* character of one of them (of any character, if it is empty).            *)
Extends(s, t) ==
  /\ IsPrefix(s, t)
  /\ \A k \in Len(s) + 1 .. Len(t) : t[k] = IF s = <<>> THEN t[1] ELSE Last(s)

Like(text1, text2) ==
  Extends(Plain(text1), Plain(text2)) \/ Extends(Plain(text2), Plain(text1))

(* Points for a program mean that it compiled, that it came to its end by  *)
(* itself and in time, and that all it printed is like what the solution   *)
(* prints.                                                                 *)
PointsDeserved ==
  \A g \in Given : g.points # 0 =>
    /\ ~Program(g.job).error
    /\ proc[g.job] = "ended" /\ g.job \notin overdue
    /\ Like(Program(g.job).prints, Solutions[g.job[2]].prints)

(* And a program without a warning that prints what the solution prints    *)
(* gets its points, unless it was still running when its time was over:    *)
(* no program is judged before its end, or for another one's delay.        *)
RightProgramPaid ==
  \A g \in Given :
    LET p == Program(g.job) IN
    /\ p # Missing /\ g.job \notin overdue
    /\ Silent(Solutions[g.job[2]])
    /\ Silent(p)
    /\ Plain(p.prints) = Plain(Solutions[g.job[2]].prints)
    => g.points = g.full

(* When the grader goes on, the program it has judged is not running any   *)
(* more: at most one program runs, and it is the one that is watched.      *)
NoLeftovers ==
  \A j \in Jobs : proc[j] \in {"forked", "running"} =>
    pc \in {"poll", "limit"} /\ j = Job

(* Grading comes to its end, whatever the programs do.                     *)
Termination == <>[](pc = "done")

(* compare_resultfile finds what differs: stronger than PointsDeserved.    *)
OnlyEqualOutput ==
  \A g \in Given : g.points # 0 =>
    Plain(Program(g.job).prints) = Plain(Solutions[g.job[2]].prints)
=============================================================================
