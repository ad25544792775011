------------------------------- MODULE Shell --------------------------------
(***************************************************************************)
(* ssu_shell/ssu_shell.c: read a line, split it at bars and blanks, run    *)
(* the commands, wait for each.  A pipeline is started command by command: *)
(* the shell waits for one to end before it starts the one that reads what *)
(* it wrote, so the pipe between them must hold all of it.                 *)
(*                                                                         *)
(* Two programs stand for all: one that writes its arguments and one that  *)
(* copies its input.  A unit of data is a word; one step of a command      *)
(* moves one word.                                                         *)
(***************************************************************************)
EXTENDS Naturals, SequencesExt, FiniteSetsExt

CONSTANTS
  Meaning,    (* for a line with bars set off by blanks, the pipeline it   *)
              (* means: a sequence of commands, which are sequences of     *)
              (* words, which are sequences of characters                  *)
  Inputs,     (* inputs of the shell: sequences of lines [text, newline],  *)
              (* of which only the last may lack its newline               *)
  Echo, Cat,  (* the names of the two programs                             *)
  Wild,       (* what a word that was never stored looks like              *)
  Capacity,   (* how many words a pipe holds                               *)
  MaxFds      (* how many descriptors a process may have                   *)

ASSUME ShellAssumption ==
  /\ Capacity \in Nat \ {0}
  /\ MaxFds \in Nat
  /\ Echo # Cat
  /\ \A text \in DOMAIN Meaning :
       /\ text # <<>> /\ Meaning[text] # <<>>
       /\ \A j \in DOMAIN Meaning[text] :
            Meaning[text][j] # <<>> /\ Wild \notin ToSet(Meaning[text][j])

VARIABLES
  mode,       (* "batch", with a file of commands, or "interactive"        *)
  typed,      (* the whole input                                           *)
  input,      (* the lines typed and not yet read; of a batch, those in    *)
              (* the buffer of its stream                                  *)
  offset,     (* how far the file of a batch has been read; one offset for *)
              (* the shell and its children                                *)
  pc,         (* where the shell is                                        *)
  outcome,    (* how it ended, "" while it runs                            *)
  line,       (* the line read last                                        *)
  cmds, k,    (* its commands and the index of the one at hand             *)
  fds,        (* how many descriptors the shell has open                   *)
  fd_in,      (* the pipe behind fd_in, or Terminal                        *)
  pipe,       (* the pipe made last: [data, writer], writer if the shell   *)
              (* has its write end open                                    *)
  child,      (* the process the shell waits for, or NoChild               *)
  heap,       (* the chunks given back by free: [filled, full], how many   *)
              (* slots of one were ever written, and whether there were    *)
              (* more than malloc keeps cleared                            *)
  shown,      (* what the commands of this line wrote to the terminal      *)
  taken,      (* what they read from it                                    *)
  piped,      (* how many commands of pipelines have ended                 *)
  loose,      (* whether the last vector of this line may go on with what  *)
              (* an older line left there                                  *)
  failed      (* how many commands of a batch were not found, 2 for more   *)

split == <<line, cmds, loose>>
pipes == <<fds, fd_in, pipe>>
stream == <<input, offset>>
ghosts == <<shown, taken, piped>>
given == <<mode, typed>>
vars == <<given, stream, pc, outcome, split, k, pipes, child, heap, ghosts, failed>>

Blank == " "
Bar == "|"
Terminal == [data |-> <<>>, writer |-> FALSE]
NoChild == [state |-> "none"]
Incorrect == <<"?">>          \* "SSUShell : Incorrect command"

(* 0, 1 and 2, and the file of commands.                                   *)
BaseFds == IF mode = "batch" THEN 4 ELSE 3

-----------------------------------------------------------------------------
(* Faulty variant: a bar ends the command only together with a blank that  *)
(* precedes it, and what follows it is dropped with it.                    *)
ScanDropping(s, char) ==
  CASE char = Blank /\ s.token # <<>> ->
         [cmds |-> Append(Front(s.cmds), Append(Last(s.cmds), s.token)), token |-> <<>>]
    [] char = Blank /\ s.token = <<>> -> s
    [] char = Bar -> [cmds |-> Append(Front(s.cmds), <<>>), token |-> <<>>]
    [] OTHER -> [s EXCEPT !.token = Append(@, char)]

(* One character: a blank ends a word, a bar ends a command but not a      *)
(* word.                                                                   *)
Scan(s, char) ==
  CASE char = Blank /\ s.token # <<>> ->
         [cmds |-> Append(Front(s.cmds), Append(Last(s.cmds), s.token)), token |-> <<>>]
    [] char = Blank /\ s.token = <<>> -> s
    [] char = Bar -> [s EXCEPT !.cmds = Append(@, <<>>)]
    [] OTHER -> [s EXCEPT !.token = Append(@, char)]

(* The newline put behind the line counts as a blank.  (s is bound in a    *)
(* set so that TLC evaluates it once.)                                     *)
Split(text) ==
  LET chars == Append(text, Blank)
      after[i \in 0 .. Len(chars)] ==
        IF i = 0 THEN [cmds |-> << <<>> >>, token |-> <<>>]
                 ELSE CHOOSE next \in {Scan(s, chars[i]) : s \in {after[i - 1]}} : TRUE
  IN after[Len(chars)].cmds

(* An empty command has no vector: one in front of a bar is written to     *)
(* through whatever pointer malloc returned, one behind the last bar is    *)
(* read.                                                                   *)
Unset(c) == {j \in DOMAIN c : c[j] = <<>>}

(* In batch mode the last character is cut off, be it a newline or not.    *)
Text(l) == IF mode = "batch" /\ ~l.newline /\ l.text # <<>> THEN Front(l.text) ELSE l.text

-----------------------------------------------------------------------------
(* What a command writes of its own; it faults on a vector without words.  *)
Own(cmd) ==
  IF cmd = <<>> THEN <<>>
  ELSE IF Head(cmd) = Echo THEN Tail(cmd)
  ELSE IF Head(cmd) = Cat THEN <<>>
  ELSE <<Incorrect>>

(* What a pipeline is for: every command gets the output of the one before,*)
(* so that the first n of c make of data what the last of them writes that *)
(* does not copy its input.                                                *)
Composed(c, n, data) ==
  LET own == {j \in 1 .. n : Head(c[j]) # Cat}
  IN IF own = {} THEN data ELSE Own(c[Max(own)])

(* Every pipe of the line holds what is written into it.                   *)
Fits(c) ==
  \A j \in 1 .. Len(c) - 1 :
    Wild \notin ToSet(c[j]) /\ Len(Composed(c, j, typed)) <= Capacity

-----------------------------------------------------------------------------
(* The stream of a batch: the whole file fits its buffer.                  *)
Size(l) == Len(l.text) + (IF l.newline THEN 1 ELSE 0)
Bytes(lines) == FoldLeft(LAMBDA n, l : n + Size(l), 0, lines)
Before(lines, j) == Bytes(SubSeq(lines, 1, j - 1))

(* What a file holds from offset p on.                                     *)
LinesFrom(lines, p) ==
  LET In(j) == {d \in 0 .. Len(lines[j].text) :
                  d < Size(lines[j]) /\ Before(lines, j) + d = p}
      here == {j \in DOMAIN lines : In(j) # {}}
      at == CHOOSE j \in here : TRUE
      d == CHOOSE x \in In(at) : TRUE
  IN IF here = {} THEN <<>>
     ELSE <<[lines[at] EXCEPT !.text = SubSeq(@, d + 1, Len(@))]>>
            \o SubSeq(lines, at + 1, Len(lines))

(* A line without its newline goes on with what is read next.              *)
Refilled(rest, more) ==
  IF rest = <<>> \/ more = <<>> THEN rest \o more
  ELSE <<[Head(more) EXCEPT !.text = Head(rest).text \o @]>> \o Tail(more)

NeedsMore == mode = "batch" /\ \A j \in DOMAIN input : ~input[j].newline
Buffer == IF NeedsMore THEN Refilled(input, LinesFrom(typed, offset)) ELSE input
Refill == offset' = IF NeedsMore THEN Bytes(typed) ELSE offset

-----------------------------------------------------------------------------
(* The heap: a_token, token, every word and every vector of a pipeline is  *)
(* a malloc(64), so that each may get the chunk of any other.  A word      *)
(* fills a slot, the size of a pointer, with eight characters.  malloc     *)
(* clears the second slot of a chunk it takes from its cache, which keeps  *)
(* seven, and nothing else.                                                *)
Slots(word) == (Len(word) + 7) \div 8
Kept == 7

(* The heap after free, of a command or of a pipeline with its vectors.    *)
Freed(c, vectors) ==
  LET words == UNION {ToSet(c[j]) : j \in DOMAIN c}
      lengths == IF vectors THEN {Len(c[j]) : j \in DOMAIN c} ELSE {}
      needed == FoldLeft(LAMBDA n, cmd : n + Len(cmd), 1, c)
                  + (IF vectors THEN Len(c) ELSE 0)
  IN [filled |-> Max({heap.filled} \cup lengths \cup {Slots(w) : w \in words}),
      full   |-> heap.full \/ needed > Kept]

(* Nothing ends the last vector of a pipeline: the slot behind its words   *)
(* may hold what an older line stored there.                               *)
RunsOn(c) ==
  LET n == Len(Last(c)) IN
  Len(c) > 1 /\ heap.filled > n /\ (n >= 2 \/ heap.full)

Init ==
  /\ mode \in {"batch", "interactive"}
  /\ typed \in Inputs
  /\ input = IF mode = "batch" THEN <<>> ELSE typed
  /\ offset = 0
  /\ pc = "read"
  /\ outcome = ""
  /\ line = [text |-> <<>>, newline |-> TRUE] /\ cmds = <<>> /\ k = 1
  /\ loose = FALSE
  /\ fds = BaseFds
  /\ fd_in = Terminal /\ pipe = Terminal
  /\ child = NoChild
  /\ heap = [filled |-> 0, full |-> FALSE]
  /\ shown = <<>> /\ taken = <<>> /\ piped = 0
  /\ failed = 0

-----------------------------------------------------------------------------
ReadAs(c) ==
  /\ loose' = RunsOn(c)
  /\ \/ /\ Len(c) = 1
        /\ cmds' = c /\ pc' = "fork"
        /\ UNCHANGED outcome
     \/ /\ Len(c) > 1 /\ Unset(c) = {}
        /\ cmds' \in {c} \cup IF RunsOn(c)
                                THEN {Append(Front(c), Append(Last(c), Wild))} ELSE {}
        /\ pc' = "pipe"
        /\ UNCHANGED outcome
     \/ /\ Len(c) > 1 /\ Unset(c) = {Len(c)}
        /\ cmds' \in {Front(c), Append(Front(c), <<Wild>>)} /\ pc' = "pipe"
        /\ UNCHANGED outcome
     \/ /\ Len(c) > 1 /\ Unset(c) \ {Len(c)} # {}
        /\ \/ pc' = "ended" /\ outcome' = "crash" /\ UNCHANGED cmds
           \/ /\ heap.filled > 0
              /\ cmds' = [j \in DOMAIN c |-> IF c[j] = <<>> THEN <<Wild>> ELSE c[j]]
              /\ pc' = "pipe"
              /\ UNCHANGED outcome

ReadLine ==
  /\ pc = "read"
  /\ \E lines \in {Buffer} \ {<<>>} :
       /\ line' = Head(lines)
       /\ input' = Tail(lines)
       /\ \E c \in {Split(Text(Head(lines)))} : ReadAs(c)
  /\ Refill
  /\ shown' = <<>> /\ taken' = <<>>
  /\ k' = 1
  /\ UNCHANGED <<given, pipes, child, heap, piped, failed>>

(* Nothing left: the batch is over; scanf leaves an empty line, for which  *)
(* the shell forks as for any other.                                       *)
ReadEof ==
  /\ pc = "read" /\ Buffer = <<>>
  /\ Refill
  /\ IF mode = "batch"
       THEN /\ pc' = "ended" /\ outcome' = "done"
            /\ UNCHANGED <<split, k, shown, taken>>
       ELSE /\ pc' = "fork"
            /\ line' = [text |-> <<>>, newline |-> FALSE]
            /\ cmds' = << <<>> >> /\ k' = 1 /\ loose' = FALSE
            /\ shown' = <<>> /\ taken' = <<>>
            /\ UNCHANGED outcome
  /\ UNCHANGED <<given, input, pipes, child, heap, piped, failed>>

-----------------------------------------------------------------------------
(* The top of the loop of multiple_pipe.                                   *)
MakePipe ==
  /\ pc = "pipe" /\ k <= Len(cmds)
  /\ \/ /\ fds + 2 <= MaxFds
        /\ fds' = fds + 2
        /\ pipe' = [data |-> <<>>, writer |-> TRUE]
        /\ fd_in' = IF k = 1 THEN Terminal ELSE fd_in
        /\ pc' = "fork"
        /\ UNCHANGED outcome
     \/ /\ fds + 2 > MaxFds
        /\ pc' = "ended" /\ outcome' = "pipe error"
        /\ UNCHANGED <<fds, pipe, fd_in>>
  /\ UNCHANGED <<given, stream, split, k, child, heap, ghosts, failed>>

(* All commands have ended; their vectors and words are freed.  free of    *)
(* what was never allocated aborts or leaves a heap of which nothing is    *)
(* known: the model ends there.                                            *)
PipelineDone ==
  /\ pc = "pipe" /\ k > Len(cmds)
  /\ IF \E j \in DOMAIN cmds : Wild \in ToSet(cmds[j])
       THEN /\ pc' = "ended" /\ outcome' = "crash"
            /\ UNCHANGED heap
       ELSE /\ pc' = "read"
            /\ heap' = Freed(cmds, TRUE)
            /\ UNCHANGED outcome
  /\ UNCHANGED <<given, stream, split, k, pipes, child, ghosts, failed>>

(* What becomes of a child: it runs the command, or whatever stands for    *)
(* it, or execvp fails.                                                    *)
Runs(cmd) ==
  IF Wild \in ToSet(cmd)
    THEN {[reads |-> TRUE, left |-> <<>>]}
           \cup [reads : {FALSE}, left : {Own(cmd), <<Incorrect>>, <<Wild>>}]
    ELSE {[reads |-> cmd # <<>> /\ Head(cmd) = Cat, left |-> Own(cmd)]}

(* fork, and in the child dup2 and execvp.  The message of a command that  *)
(* is not found goes where its output would have gone.                     *)
Fork ==
  /\ pc = "fork"
  /\ \/ /\ \E run \in Runs(cmds[k]) :
            child' = [state  |-> "running",
                      reads  |-> run.reads,
                      left   |-> run.left,
                      failed |-> run.left = <<Incorrect>>,
                      piped  |-> pipe.writer,
                      last   |-> k = Len(cmds)]
        /\ pc' = "wait"
        /\ UNCHANGED outcome
     \/ /\ pc' = "ended" /\ outcome' = "fork error"
        /\ UNCHANGED child
  /\ UNCHANGED <<given, stream, split, k, pipes, heap, ghosts, failed>>

(* Faulty variant: the shell keeps the write end.                          *)
WaitUnclosed ==
  /\ pc = "wait" /\ child.state = "ended"
  /\ child' = NoChild
  /\ k' = k + 1
  /\ IF child.piped
       THEN /\ fds' = fds
            /\ fd_in' = pipe /\ pipe' = Terminal
            /\ piped' = piped + 1
            /\ pc' = "pipe"
            /\ UNCHANGED heap
       ELSE /\ pc' = "read"
            /\ heap' = Freed(cmds, FALSE)
            /\ UNCHANGED <<pipes, piped>>
  /\ UNCHANGED <<given, stream, outcome, split, shown, taken, failed>>

(* wait returns; of a pipeline the write end is closed and the read end    *)
(* kept, for the next command and for ever.  Without one the words of      *)
(* tokenize are freed.                                                     *)
Wait ==
  /\ pc = "wait" /\ child.state = "ended"
  /\ child' = NoChild
  /\ k' = k + 1
  /\ IF child.piped
       THEN /\ fds' = fds - 1
            /\ fd_in' = [pipe EXCEPT !.writer = FALSE] /\ pipe' = Terminal
            /\ piped' = piped + 1
            /\ pc' = "pipe"
            /\ UNCHANGED heap
       ELSE /\ pc' = "read"
            /\ heap' = Freed(cmds, FALSE)
            /\ UNCHANGED <<pipes, piped>>
  /\ UNCHANGED <<given, stream, outcome, split, shown, taken, failed>>

-----------------------------------------------------------------------------
(* The command.  Its input is the terminal or the pipe fd_in.              *)
FromTerminal == ~child.piped \/ k = 1

ChildRead ==
  /\ child.state = "running" /\ child.reads /\ child.left = <<>>
  /\ \/ /\ FromTerminal /\ mode = "interactive" /\ input # <<>>
        /\ child' = [child EXCEPT !.left = <<Head(input).text>>]
        /\ input' = Tail(input)
        /\ taken' = Append(taken, Head(input).text)
        /\ UNCHANGED fd_in
     \/ /\ ~FromTerminal /\ fd_in.data # <<>>
        /\ child' = [child EXCEPT !.left = <<Head(fd_in.data)>>]
        /\ fd_in' = [fd_in EXCEPT !.data = Tail(@)]
        /\ UNCHANGED <<input, taken>>
  /\ UNCHANGED <<given, offset, pc, outcome, split, k, fds, pipe, heap, shown, piped, failed>>

(* The end of a pipe is seen when no process has its write end open.       *)
AtEof ==
  IF FromTerminal THEN mode = "batch" \/ input = <<>>
                  ELSE fd_in.data = <<>> /\ ~fd_in.writer

ToPipe == child.piped /\ ~child.last

ChildWrite ==
  /\ child.state = "running" /\ child.left # <<>>
  /\ child' = [child EXCEPT !.left = Tail(@)]
  /\ IF ToPipe
       THEN /\ Len(pipe.data) < Capacity
            /\ pipe' = [pipe EXCEPT !.data = Append(@, Head(child.left))]
            /\ UNCHANGED shown
       ELSE /\ shown' = Append(shown, Head(child.left))
            /\ UNCHANGED pipe
  /\ UNCHANGED <<given, stream, pc, outcome, split, k, fds, fd_in, heap, taken, piped, failed>>

(* A command that was not found ends by exit, which puts the offset of the *)
(* batch back by what the buffer still holds, unless that is before the    *)
(* file.                                                                   *)
ChildExit ==
  /\ child.state = "running" /\ child.left = <<>>
  /\ child.reads => AtEof
  /\ child' = [child EXCEPT !.state = "ended"]
  /\ IF child.failed /\ mode = "batch"
       THEN /\ offset' = IF offset >= Bytes(input) THEN offset - Bytes(input) ELSE offset
            /\ failed' = IF failed = 2 THEN 2 ELSE failed + 1
       ELSE UNCHANGED <<offset, failed>>
  /\ UNCHANGED <<given, input, pc, outcome, split, k, pipes, heap, ghosts>>

-----------------------------------------------------------------------------
Shell == ReadLine \/ ReadEof \/ MakePipe \/ PipelineDone \/ Fork \/ Wait
Command == ChildRead \/ ChildWrite \/ ChildExit
Ended == pc = "ended" /\ UNCHANGED vars

Next == Shell \/ Command \/ Ended

(* The kernel runs both processes.                                         *)
Spec == Init /\ [][Next]_vars /\ WF_vars(Shell) /\ WF_vars(Command)

-----------------------------------------------------------------------------
(* Properties                                                              *)

(* For a line with bars set off by blanks the terminal shows what the last *)
(* command makes of all that the others wrote, no word lost, cut short or  *)
(* left over from an earlier line; except for a pipeline whose last        *)
(* vector, which nothing ends, may lie where an older line filled the slot *)
(* behind its words.                                                       *)
OutputAsTyped ==
  /\ pc = "read" \/ (pc = "pipe" /\ k > Len(cmds))
  /\ line.newline /\ line.text \in DOMAIN Meaning
  => LET c == Meaning[line.text] IN shown = Composed(c, Len(c), taken) \/ loose

(* The shell gives up for want of descriptors only when the pipelines it   *)
(* has run, one descriptor lost for each command, have used them up.       *)
GivesUpOnlyWhenFull ==
  outcome = "pipe error" => BaseFds + piped + 2 > MaxFds

(* The shell gets through its whole input, no command waiting for a reader *)
(* or a writer that never comes, unless it meets a pipeline that writes    *)
(* more into a pipe than that holds, or two commands of a batch are not    *)
(* found: the second may put the offset back before the first, and the     *)
(* batch never ends.                                                       *)
ThroughTheInput ==
  outcome # "" \/ (mode = "interactive" /\ input = <<>> /\ pc = "read")

EveryLineRuns == <>(ThroughTheInput \/ ~Fits(cmds) \/ failed = 2)
=============================================================================
