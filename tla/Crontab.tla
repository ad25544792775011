------------------------------ MODULE Crontab -------------------------------
(***************************************************************************)
(* ssu_rsync/ssu_crontab.c: the editor of ssu_crontab_file.  It counts the *)
(* lines once, when it starts; after that line_counter is kept up to date  *)
(* by hand.  The number at the head of a line is text: a removal patches   *)
(* its first character in all the lines behind the removed one.            *)
(*                                                                         *)
(* The streams are buffered: what ADD and REMOVE write reaches the disk    *)
(* when the round ends with fclose, first the table and then the log.      *)
(* REMOVE has cut the file to nothing by then (fopen with "w+").           *)
(***************************************************************************)
EXTENDS Integers, SequencesExt

CONSTANTS
  Commands,    (* what a line holds behind its number: schedule and command*)
  Careful,     (* the user removes only numbers that the listing shows     *)
  MaxLines,    (* bound: he adds no line to a table of this length         *)
  MaxStreams,  (* how many FILEs the process may have open                 *)
  MaxCrashes   (* bound: crashes                                           *)

ASSUME CrontabAssumption ==
  /\ Careful \in BOOLEAN
  /\ MaxLines \in Nat
  /\ MaxStreams \in Nat
  /\ MaxCrashes \in Nat

VARIABLES
  table,         (* ssu_crontab_file                                       *)
  logged,        (* ssu_crontab_log: of each command, adds less removals   *)
  pc,            (* "off", "loop", "prompt", "close" and "close_log"       *)
  line_counter,
  written,       (* the lines in the buffer of crontab_fp                  *)
  entry,         (* the entry in the buffer of log_fp                      *)
  streams,       (* how many FILEs are open                                *)
  eof,           (* the end of the standard input has been reached         *)
  crashes        (* how many crashes so far                                *)

files == <<table, logged>>
buffers == <<written, entry>>
vars == <<files, pc, line_counter, buffers, streams, eof, crashes>>

-----------------------------------------------------------------------------
(* The number n as sprintf writes it, character by character.              *)
Digits(n) == IF n < 10 THEN <<48 + n>> ELSE <<48 + (n \div 10), 48 + (n % 10)>>
Text(n) == IF n < 0 THEN <<45>> \o Digits(-n) ELSE Digits(n)

Line(index, c) == [index |-> index, command |-> c]
Lines == [index : Seq(Int), command : Commands]

Entry(by, c) == [by |-> by, command |-> {c}]
NoEntry == [by |-> 0, command |-> {}]    \* nothing, or rubbish
Entries == [by : {-1, 0, 1}, command : SUBSET Commands]

Init ==
  /\ table = <<>>
  /\ logged = [c \in Commands |-> 0]
  /\ pc = "off"
  /\ line_counter = 0
  /\ written = <<>> /\ entry = NoEntry
  /\ streams = 0
  /\ eof = FALSE
  /\ crashes = 0

-----------------------------------------------------------------------------
(* main, before the loop: the lines are counted.                           *)
Start ==
  /\ pc = "off"
  /\ pc' = "loop"
  /\ line_counter' = Len(table)
  /\ streams' = 0
  /\ eof' = FALSE
  /\ UNCHANGED <<files, buffers, crashes>>

Off == pc' = "off" /\ UNCHANGED <<files, line_counter, buffers, streams, eof, crashes>>

(* The top of the loop: two more streams, or exit(1); the table is listed. *)
Open ==
  /\ pc = "loop"
  /\ \/ /\ streams + 2 <= MaxStreams
        /\ pc' = "prompt"
        /\ streams' = streams + 2
        /\ UNCHANGED <<files, line_counter, buffers, eof, crashes>>
     \/ /\ streams + 2 > MaxStreams
        /\ Off

(* Faulty variant: an early continue that closes what it opened.           *)
RefusedClosing ==
  /\ pc = "prompt"
  /\ pc' = "loop"
  /\ eof' \in {eof, TRUE}
  /\ streams' = streams - 2
  /\ UNCHANGED <<files, line_counter, buffers, crashes>>

(* No input, or arguments that are refused: continue, without fclose.      *)
Refused ==
  /\ pc = "prompt"
  /\ pc' = "loop"
  /\ eof' \in {eof, TRUE}
  /\ UNCHANGED <<files, line_counter, buffers, streams, crashes>>

(* None of the three commands: the usage, and round again.                 *)
Unknown ==
  /\ pc = "prompt" /\ ~eof
  /\ pc' = "loop"
  /\ streams' = streams - 2
  /\ UNCHANGED <<files, line_counter, buffers, eof, crashes>>

Exit ==
  /\ pc = "prompt" /\ ~eof
  /\ Off

-----------------------------------------------------------------------------
add_command(c) ==
  /\ pc = "prompt" /\ ~eof
  /\ line_counter < MaxLines
  /\ written' = <<Line(Text(line_counter), c)>>
  /\ line_counter' = line_counter + 1
  /\ entry' = Entry(1, c)
  /\ pc' = "close"
  /\ UNCHANGED <<files, streams, eof, crashes>>

-----------------------------------------------------------------------------
number_check(n) == n - 1 <= line_counter

(* Faulty variants: the numbers behind the line are left as they are; the  *)
(* line itself is kept and its predecessor is not.                         *)
KeptUnpatched(n) == RemoveAt(table, n + 1)

KeptOffByOne(n) ==
  [k \in 1 .. Len(table) - 1 |->
    IF k < n THEN table[k] ELSE [table[k + 1] EXCEPT !.index[1] = k + 47]]

(* copy: line n is left out, what follows moves up and gets a new first    *)
(* character.                                                              *)
Kept(n) ==
  [k \in 1 .. Len(table) - 1 |->
    IF k <= n THEN table[k] ELSE [table[k + 1] EXCEPT !.index[1] = k + 47]]

Upto(lines, m) == [k \in 1 .. (IF m < Len(lines) THEN m ELSE Len(lines)) |-> lines[k]]

(* As many lines are written as there were by the counter.  (Where the     *)
(* file has no line n, copy holds all of it, and the log gets rubbish.)    *)
remove_command(n) ==
  /\ pc = "prompt" /\ ~eof
  /\ number_check(n)
  /\ Careful => n < line_counter
  /\ \/ /\ n < Len(table)
        /\ written' = Upto(Kept(n), line_counter)
        /\ entry' = Entry(-1, table[n + 1].command)
     \/ /\ n >= Len(table)
        /\ written' = Upto(table, line_counter)
        /\ entry' = NoEntry
  /\ table' = <<>>
  /\ line_counter' = line_counter - 1
  /\ pc' = "close"
  /\ UNCHANGED <<logged, streams, eof, crashes>>

-----------------------------------------------------------------------------
(* fclose(crontab_fp)                                                      *)
Close ==
  /\ pc = "close"
  /\ table' = table \o written
  /\ written' = <<>>
  /\ pc' = "close_log"
  /\ UNCHANGED <<logged, line_counter, entry, streams, eof, crashes>>

(* Faulty variant: a removal is logged as an addition.                     *)
CloseLogAdding ==
  /\ pc = "close_log"
  /\ logged' = [c \in Commands |-> logged[c] + (IF c \in entry.command THEN 1 ELSE 0)]
  /\ entry' = NoEntry
  /\ streams' = streams - 2
  /\ pc' = "loop"
  /\ UNCHANGED <<table, line_counter, written, eof, crashes>>

(* fclose(log_fp)                                                          *)
CloseLog ==
  /\ pc = "close_log"
  /\ logged' = [c \in Commands |-> logged[c] + (IF c \in entry.command THEN entry.by ELSE 0)]
  /\ entry' = NoEntry
  /\ streams' = streams - 2
  /\ pc' = "loop"
  /\ UNCHANGED <<table, line_counter, written, eof, crashes>>

(* The editor is killed; what was in its buffers is lost.                  *)
Crash ==
  /\ pc # "off"
  /\ crashes < MaxCrashes
  /\ crashes' = crashes + 1
  /\ pc' = "off"
  /\ written' = <<>> /\ entry' = NoEntry
  /\ UNCHANGED <<files, line_counter, streams, eof>>

-----------------------------------------------------------------------------
Serve ==
  \/ \E c \in Commands : add_command(c)
  \/ \E n \in 0 .. line_counter + 1 : remove_command(n)

EditorStep == Open \/ Refused \/ Unknown \/ Exit \/ Serve \/ Close \/ CloseLog

Next == Start \/ EditorStep \/ Crash

Spec == Init /\ [][Next]_vars

(* The editor runs; what the user does is up to him.                       *)
FairSpec == Spec /\ WF_vars(EditorStep)

-----------------------------------------------------------------------------
(* Properties                                                              *)

(* The variables keep their types.                                         *)
TypeOK ==
  /\ table \in Seq(Lines) /\ written \in Seq(Lines)
  /\ logged \in [Commands -> Int]
  /\ pc \in {"off", "loop", "prompt", "close", "close_log"}
  /\ line_counter \in Int
  /\ entry \in Entries
  /\ streams \in Nat
  /\ eof \in BOOLEAN
  /\ crashes \in 0 .. MaxCrashes

(* The file at the end of the round.                                       *)
Coming == table \o written

(* What the hand-kept counter is for: in every round it is the number of   *)
(* lines, and every line carries its position as its number, whatever was  *)
(* added and removed before.                                               *)
Numbered ==
  /\ pc # "off" => line_counter = Len(Coming)
  /\ \A k \in DOMAIN Coming : Coming[k].index = Text(k - 1)

(* As long as no crash came in between, the log accounts for the table:    *)
(* what was added and not removed is there, as often as that.              *)
Places(lines, c) == {k \in DOMAIN lines : lines[k].command = c}
Occurrences(c) == Cardinality(Places(Coming, c))

LogAccounts ==
  crashes = 0 =>
    \A c \in Commands :
      Occurrences(c) = logged[c] + (IF c \in entry.command THEN entry.by ELSE 0)

(* The editor implements the list of commands: what the log says of a step *)
(* has happened to the list.                                               *)
Names(lines) == [k \in 1 .. Len(lines) |-> lines[k].command]

Abstract == INSTANCE CommandTable WITH list <- Names(Coming), saved <- Names(table)
CommandTableSpec == Abstract!Spec

(* When the input is at its end the editor does not stay in its loop for   *)
(* ever: the rounds that continue without fclose use up the streams.       *)
EofEnds == eof ~> pc = "off"
=============================================================================
