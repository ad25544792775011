# Verification of the Undergraduate-Course programs

TLA+ models of the programs of this repository that have state, concurrency or
failures worth the name, TLC configurations that check them on small instances,
and TLAPS proofs of what matters most for every size.

    tlc -workers 2 -config MasterWorker_masters.cfg MasterWorker  # one run
    tlapm MasterWorkerProofs.tla                                  # one proof module

`PROJECT.json` lists the runs, the source lines of every definition (`map`), for
each property a plausible bug of the code that violates it (`mutants`; the faulty
variants stand beside the definitions they vary), the hazards and the theorems.

## 1. Inventory

| component | state it keeps | operations | what makes it hard |
|---|---|---|---|
| **ssu_pthread** `master-worker.c` | `item_to_produce`, `item_to_consume`, the stack `buffer`/`curr_buf_size`, a mutex, two condition variables | masters produce, workers consume, `main` creates and joins; `check.awk` judges the output | interleaving, waits tested with `if`, broadcasts, shutdown |
| **ssu_alloc** `alloc.c` | one page from mmap, `mem_alloc` (granule in use), `mem_offset` (length of the block that starts here) | `init_alloc`, `alloc`, `dealloc`, `cleanup` | fragmentation, stale lengths, scan over the end of the arrays |
| **ssu_rsync** `ssu_rsync.c` | the directories src and dst, `rm_list`, `add_list`, the `.swp` files, the SIGINT handler, a log | compare, keep as `.swp`, remove, copy, set the times, `remove_swp`, roll back | crashes between any two file operations, reruns, a user who edits src, signals |
| **ssu_crontab** `ssu_crontab.c` | `ssu_crontab_file`, `ssu_crontab_log`, `line_counter`, two streams per round | ADD, REMOVE, EXIT, the listing | a hand-kept counter, numbers patched as characters, the file cut before it is rewritten, leaked streams |
| **ssu_crond** `ssu_crond.c` | globals for one line (time tables, `command`, `exe_period`), a mutex, a thread per line, one `struct tm` | read a line, fill the tables, create a thread; the thread tests the clock, runs, logs | unsynchronised globals, a destroyed mutex, a file that is edited while it is read |
| **crontab fields** (both) | none | `opt_check` in the editor, `make_timetable` in the daemon | two parsers of one grammar have to agree |
| **ssu_shell** `ssu_shell.c` | the buffer and the offset of its input, the tokens, the pipe of the pipeline under way, the heap | read, split, fork/exec/wait, `multiple_pipe` | processes, pipe capacity, end of input, an offset shared with children, vectors that nothing ends |
| **ssu_score** `ssu_score.c` | the score table, the list of students, `score.csv`, generated files | score table, compile, run with a limit of five seconds, compare output, write scores | a race of answer and limit, partial files, table terminators |
| **ssu_score** `blank.c` | rows of tokens, expression trees | `make_tokens`, `make_tree`, `compare_tree` | a tokeniser that looks back at what it has written, a tree relinked while it grows, a comparison that changes the tree of the right answer |
| **LSP** chapters 5 to 8 | processes, threads, handlers, masks, pending signals, the buffer of stdout | fork, exec, wait, signals, jumps, alarms, threads, daemons | a signal between any two calls, lost wakeups, copied buffers |
| LSP chapters 0 and 2 to 4, Data-Structure, MATLAB | none | one-page examples | nothing that outlives a call |

How they interact: ssu_crontab and ssu_crond share `ssu_crontab_file` and
`ssu_crontab_log` without any lock, and a line of the crontab is what runs
ssu_rsync again and again. `alloc.c` and `master-worker.c` are programs of their
own; ssu_score and ssu_shell start other programs and wait for them. In
ssu_score the grader calls the comparison of blanks (`score_blank`), and each
program of LSP meets the kernel only.

What makes each correct, in one sentence:

* master-worker: every number is produced once and consumed once, the stack stays
  in its block, nobody sleeps through the end.
* alloc: no granule is handed out twice, blocks in use are in the page, and exactly what is marked.
* rsync: no version of a file is lost wherever it is stopped; a run that ends well
  leaves dst equal to src and everything else untouched; reruns converge.
* crontab: counter, numbers, file and log always agree; a removal removes that line.
* crond: a command runs only if it is in the table and due.
* fields: what the editor accepts, the daemon marks as it was meant.
* score: the questions that were given points are graded in their order, points are
  given exactly for what deserves them, and no student's program can stop the grading.
* blanks: every operand of an answer is in its tree; an answer that is right up to
  blanks and order is paid, and a wrong one is not (with the exceptions of section 5).
* shell: a line shows what its pipeline means, and nothing of an older line; the input
  is worked off if the pipes are big enough and its commands exist.
* LSP: each program shows what its file says of it, whenever a signal comes.

## 2. Plan

Done, in this order: MasterWorker with its proofs, Alloc with its proofs, Rsync,
Crontab with its proofs, Schedule, Crond and the composition Cron, Score; then
Shell, Blank with Tokens and BlankScore, Unix with the LSP programs, the
single-file mode of Rsync; then the proofs about Rsync, Cron, Score, Shell and the
fields of the crontab, the rest of those about Alloc and Crontab, and those about Unix:
control, masks, places and lines.

To come:

1. The types and casts of `blank.c` (`is_typeStatement`, `find_typeSpecifier`,
   `reset_tokens`) in Tokens.
2. Rsync: the bound of 1024 list entries.

The runs are one for each component or question. Faults of the code that are known
are configurations beside them (section 5).

## 3. The modules

### ssu_pthread: MasterWorker, ItemDispatch, MasterWorkerProofs

`MasterWorker` has the four shared variables of the program, the mutex, a `pc` for
each thread and how far `main` is. A step is the code between two synchronisation
calls, because shared data is touched only with the mutex held. A master
that terminates unlocks first and broadcasts afterwards, and so these are two steps.
`pthread_cond_wait` is three states: `wait`, `woken` (a broadcast or, up to
`MaxSpurious` times, nothing woke it) and `resumed` (it has won the mutex again).
After a wait the code does not test the condition again, nor does the model. A
store behind the `max_buf_size` slots leaves an arbitrary value (`Stored`).
`prod`/`cons` count the printed lines, which is what `check.awk` reads.

`ItemDispatch` is the promise: items enter a container of bounded capacity in
order and each leaves it once. `DispatchSpec` is the refinement: `queued` is the
set of items in the stack, `consumed` what has been printed as consumed.

* `mw_masters` (2 masters, 3 workers, 6 items, 3 slots; 50 066 states): all safety
  properties and the refinement with its fairness. The buffer fills and has to be
  refilled, so that both masters wait for room at once, one broadcast wakes both, and
  the second stores after the first. One master who refills any number of times is
  covered by the proofs. Deadlock is not checked: a master may stay in its wait
  (`MasterWorker_stuck.cfg`).
* `mw_roomy` (2 masters, 2 workers, room for all items, spurious wakeups): the
  shutdown with several masters.

`NoOverrun` says that nothing is stored behind the buffer as long as it is refilled at
most once, or by one master, or never fills (`Refillable`): masters are woken only by a
worker that has found the buffer empty, so the ones woken together find room one after
the other. With one item more it is false (`MasterWorker_overrun.cfg`: 2 masters, 1 slot,
3 items): the first fills the buffer again and the second, which tests only
`item_to_produce`, stores behind it.

Fairness: weak fairness of every thread, which is what a kernel gives; none of the
mutex, so a thread may lose every race for it.

### ssu_alloc: Alloc, PageBlocks, AllocProofs

`alloc` scans `PAGESIZE` ints of an array that has `PAGESIZE/8`: memory is one array
of words, `mem_alloc`, then `mem_offset`, then what lies behind `m`, where a scan
may also fault (`alloc_faults`). The counting loop is the function `count`, the
action uses the closed form `FirstStop`, and the invariant `FirstFit` says that the
two agree in every reachable state. `careful` is the client: TRUE
asks only for sizes for which it knows a gap, FALSE for anything. `PageBlocks` is the
promise to the first: blocks taken first fit and given back whole.

* `alloc_pages` (4 granules of 2 bytes, six sizes, legal and illegal; both clients).
  For both no granule of a block held is handed out again (`NextApart` is about the block
  that would be returned next, so that the same block twice would be seen), although the
  blocks of the second may lie outside the page; nothing leaks, and the refinement
  holds, for the first. The size 0 is left out: `NoOverlap` is false for a client that
  asks for it (`Alloc_zero.cfg`) and says so. Four granules
  are enough for two gaps with a block between them, and for a scan that crosses
  `mem_offset` and leaves the struct.

### ssu_rsync: Rsync, MCRsync, RsyncProofs

A step is one or two system calls on one file: compare an entry; open the `.swp`
(which cuts it), fill it, set its time, remove the original; open, `stat`, cut, fill
and date the copy; install the handler; remove the `.swp` files. `Crash` and
`Interrupt` may come between any two steps, and so may a user who edits src in
place (the open stream sees it), by replacement (it does not) or by deletion.
Contents are model values with a size; modification times are seconds. `Interrupt`
kills the process half way before the handler is installed, after that it does
what the handler does (whose `access() > 0` never holds).

`NoVersionLost` relates dst to dst at the start of the process: of every file there
is the old content, as the file or its `.swp`, or the complete new copy.
`DoneMeansSynced` and `OnlyListedChange` are about a run that ends well,
`DirectoriesKept` about every step, `Converges` about all the reruns together.

The mode for a single file looks for the entry `/name`, which no directory has, and
so neither finds nor keeps what it is going to replace; what it copies is the entry
of dst that `readdir` returns last (`StartFile`).

* `rsync_sync` (2 files, one of them with a directory of dst in its place or in the
  place of its `.swp`; up to 2 edits, 2 deaths or interrupts and a command for a
  single file, any two of these in a behaviour, and the command again each time):
  all of the above. With two troubles a second death can meet the `.swp` of the
  first, and an edit can come between a death and the rerun. The clock has two
  seconds, and moves with edits and between runs. The contents have
  different sizes: with equal sizes `Converges` fails (section 5).

Fairness: the process is scheduled, and the command is started again and again
(that is what the crontab is for). The bounds on edits and deaths say that they
stop at some time; without that nothing converges.

### The crontab: Crontab, CommandTable; Schedule, ScheduleCheck, ScheduleProofs; Crond, Cron, CronProofs

`Crontab` is the editor. A line is its number, character by character because
REMOVE patches the first character, and its command. What a round writes is in
buffers until `fclose`, first the table and then the log; REMOVE has cut the
file before. Refused input goes round without `fclose` and leaks both streams.
`CommandTable` is the promise: a list, Append and RemoveAt by number, and what a
crash leaves of it.

* `crontab_edit` (2 commands, up to 7 lines, a crash; 189 000 states): counter,
  numbers, file and log agree (`Numbered`, `LogAccounts`), the editor implements the
  list, and it ends at the end of its input (`EofEnds`; only because the streams run
  out). Fairness: the editor runs; nothing is assumed of the user.

`Schedule` has the two sides of a field as operators, with the names of the C
functions; `ScheduleCheck` takes one field from the keyboard to the table.

* `schedule_marks` (5 fields, every number of two digits and some of three, ranges,
  periods, lists; 27 773 states): the digit checks decide exactly the range of
  plain numbers, and what is accepted and does not kill the daemon marks the cells
  that the notation means.

`Crond` has the globals as they are: a text is the set of the commands it is made
of, two while `strcpy` overwrites it, and the five tables are cleared and filled one
after the other. The mutex is destroyed after every line; afterwards `Lock` may or
may not exclude. `localtime` and `ctime` share `tm`. `Cron` composes it with the
editor: `table` is the one shared variable.

* `cron_daemon` (2 lines, 3 edits, 2 threads, a careless user; 1.0 million states):
  what was removed does not run, no thread runs the command of a line before its own,
  and the last line's thread does exactly what its line says.
* `cron_race`: **violates `RunsAreDue`**: a thread that found its line due runs what
  `main` has meanwhile copied from the next line.

### ssu_shell: Shell, MCShell, ShellProofs

The shell reads a line, splits it (`Scan`, character by character: a bar ends a
command but not a word), and runs the commands one after the other: `MakePipe`,
`Fork`, the steps of the child, `Wait`. Two programs stand for all, one that writes
its arguments and one that copies its input; data moves word by word through a pipe
of `Capacity` words, and a reader sees the end of its input only when no write end
is open. `Meaning` has for lines whose bars are set off by blanks the pipeline
that is meant; the model never reads it but in `OutputAsTyped`.

`multiple_pipe` waits for every command before it starts the next, and never closes
the read end it has kept: `EveryLineRuns` therefore holds for inputs whose pipes
hold all that is written (`Fits`), and `GivesUpOnlyWhenFull` counts the leaks, one
for each command of a pipeline.

A batch is a file with one `offset` for the shell and its children, read by whole
buffers (`Buffer`). A child whose `execvp` fails calls `exit` (`:151`, `:233`) with its copy
of the stream open; this puts the offset back by what the copy has not read (`ChildExit`),
and so the shell reads those lines again, a last line without newline going on with
them (`Refilled`). `EveryLineRuns` is about batches with at most one such command
(`failed`): with two the shell may go round for ever.

`heap` is what matters of the chunks given back: every vector, word and token buffer is
a `malloc(64)`, so any of them may become the last vector of a pipeline, which is not
ended by NULL. `filled` is how many of its slots an older line may have written, `full`
whether more chunks were freed than the cache of malloc keeps, which clears the second slot
of those it gives out. Where both let the vector go on (`RunsOn`), the command may get words
nobody typed (`Wild`): `OutputAsTyped` says which lines these are (`loose`) and holds for all
others. Freeing such a word aborts or leaves a heap of which nothing is known; the model
ends there. Words of 64 characters and commands of nine words leave their chunks and are
not modelled.

* `shell_lines` (both modes, up to three lines of nine pipelines and four odd lines,
  with and without a last newline; 2 words in a pipe, 9 descriptors; 169 648 states). Nine
  are reached within three pipelines, one line writes three words into a pipe of two, one
  has a word of three slots, two have a command that is not found.

Fairness: the shell and its child are scheduled. Deadlock is not checked, because a
child that writes more than the pipe holds does hang (section 5).

### Blank answers: Tokens, Blank, BlankScore, MCBlank

`Tokens` is `make_tokens`. A text is a sequence of symbols, where a name or number is
one symbol and every other character is one; a state is the place in the text, the
rows, the row being filled and how it ends. Each kind of operator has an operator
with what it looks ahead and back at. The row may be -1 for a while (a sign at
the beginning), whose contents are lost. A star as the last symbol behind others
is never passed and fills rows behind the array: `make_tokens` returns every outcome
that may have. Three stars behind a name are not passed either, and there it hangs.

`Blank` is `make_tree` and `compare_tree` over a heap of nodes with the links of the
code (`parent`, `child_head`, `prev`, `next`) and every helper under its name.
`compare_tree` swaps children and turns comparisons around in the tree of the right answer,
and so returns the heap with the result. A NULL that is followed is "fault", in
`make_tree` (an operator of `||`, `&&`, `|`, `&`, `+`, `*` with nothing before it) as in
`compare_tree`. `BlankScore` is the loop of `score_blank` over the right answers; its heap
lives through all of them; each right answer gets a tree of its own.

The reference is independent of both: `Meaning` gives the tokens a text means, and
`Same` says when two terms are equal up to the order of operands and the direction
of comparisons.

* `blank_trees` (752 995 states): all expressions of two and three operands over five
  operators of three precedences, with brackets on either side or none, and three dozen
  larger ones with calls, signs, stars, ampersands, steps, members, four operands,
  comparisons under `||`; texts on which the code hangs or faults;
  written with and without blanks and with a semicolon; against one or two right
  answers, the second being compared when the first was refused. `Plain` leaves out the
  texts that `make_tokens` is known to cut otherwise (`Spoilt`, section 5).
  `NoRightAnswerRefused` counts a fault and a hang as a refusal. It is about answers
  whose relational operators meet only relational ones (`OnlyAlike`), since
  `compare_tree` turns round whatever node it meets one with (`blank.c:62`).
  `NoWrongAnswerPaid` leaves out those with relational operators or an operand twice, for
  which the comparison accepts too much.

### LSP: Unix, LspCode, LspSignals, LspProcesses, MCUnix, UnixProofs

`Unix` is what some fifty programs need of the kernel and the C library, external to
this repository: threads and processes, actions and masks of signals with the
frames handlers push, `setjmp`/`longjmp`, one alarm clock, sleeping, fork with the
copy of memory and of the buffer of stdout, exec, wait, and what makes a daemon (`setsid`,
`/dev/null`). A signal is delivered between two calls. `LspSignals` and
`LspProcesses` hold the programs, each a record of blocks (main, handlers, start
routines), a block a sequence of the calls of `LspCode`: one line for a line of C.

* `unix_programs` (every program, with a terminal or a file for its output, with and
  without the files it executes, calls that fail, up to 2 Ctrl-C at any moment, 4
  tasks): `AsDescribed` is what the comments, messages and names in the files say of
  the programs it names (the others, listed in its comment, say nothing that order or
  signals could break). One comment holds only in part: `ssu_wait_3.c:23-24` puts the
  output of the children before the parent's, which is judged with a file as stdout; on
  a terminal only the line behind the loop of `wait` comes last (section 5); `MaskRestored` relates the mask to what the program asked for; `JumpsLand` is
  the use of `can_jump`; `ShownOnce` is about buffers copied by fork;
  `NobodyWaitsForEver` says that the programs that wait for nobody end and that a
  Ctrl-C is not left pending. Two keys are enough for a signal within the handler of
  another; three children and a parent, the most a program has, are four tasks (three where the
  files to execute are missing, because there each child goes on as a parent). Loops
  of the programs run two or three times, threads number 2 (`THREAD_NUM`, 5 and 8 in
  the files), endless programs stop after 3 sleeps or alarms (`MaxTicks`), and the
  alphabets of `ssu_fork_2` and `ssu_race` are shorter.

`UnixProofs` states the rules the programs keep (section 4), of their text only.
`Unix_rules.cfg` has TLC evaluate them for all programs (`RulesKept`). As in the properties,
`ssu_sigsetjmp_1` is left out of the rules on masks and places, and `ssu_fork_1` and
`ssu_wait_1` of those on lines when stdout is a file: they show what breaking them does.

Time is not measured: an alarm may ring at any moment after it is set, a sleep may
end at any moment. Fairness: every task is scheduled, gets its signals, and time
passes; nothing is assumed of the user. Deadlock is not checked: programs end.

### ssu_score: Score, MCScore, ScoreProofs

The actors are the grader, the programs of the students and the clock. A step of the
grader is one question up to the point where another actor can interfere: a blank
is a single step, a program is compiled, launched, looked for with `ps` (`inBackground`),
held against the limit (`CheckTime`) and, when `ps` does not list it any more,
compared. A program prints character by character and ends when it likes, or
never. A score is in thousandths, because `%.2f` takes some of them to zero
when the table is written and read back, and a question of no points ends every
loop over the table (`Columns`). `Crash` takes the programs with the grader (they
have its terminal); what it leaves is the files, `score_table.csv` up to some line.
`compare_resultfile` keeps the last character of an output that has ended and goes on
comparing it: the model returns the set of results this may have, for the
character of an empty output is whatever the variable held.

`TableRecovered` relates what is graded to the points as they were typed, through
rounding, crash and rerun. `PointsDeserved` and `RightProgramPaid` relate the cells
of all rows to the programs, what they would print and how they have ended,
`NoLeftovers` says that only the program that is watched can be running: this is what
makes `grep 1.stdexe` harmless, which finds `11.stdexe` as well.

* `score_grade` (2 students, questions 1, 2 and 11, points 0, 0.004 or 0.5 each, three
  sets of papers, two runs; 365 000 states). The papers hold programs that are right,
  warn, do not compile, never end, print too little or repeat the last character, and
  blanks with and without semicolon. `Prompt` is the one assumption:
  the shell gets to its `exec` before `ps` looks (section 5 without it).

Fairness: the grader is scheduled and answered, time passes, the shell execs; nothing
is assumed of the programs. A limit of one second and a clock that runs to two are enough to
be before, at and behind it.

## 4. What is proved

For all values of the constants, under the named `ASSUME`s only:

* **MasterWorkerProofs** (700 obligations). `TypeCorrect`, `MutualExclusionHolds`,
  `NeverBothWaitingHolds` and `NoOverrunHolds` need nothing else.
  `NothingLostHolds`, `SomeoneWillWakeHolds`, `AllTestCasesPassedHolds` and
  `DispatchRefined` are under `Refillable`, which `NoOverrun` has in itself;
  `MasterWorker_overrun.cfg` is why. `TypeOK` is not inductive, for
  `item_to_consume` could go below zero: `Heights` adds that no more is popped than
  was pushed. `DataInv` adds the accounting of items, that the stack is in the
  order of production (so the consumed top is an item not yet consumed), and `Room`
  (a master that was woken finds room: with several masters because what is still to be
  produced fits what the workers have made free, `MoreConsumed`). `LeaveInv` adds how
  threads end: a master leaves only when all is produced, and the last to leave has
  woken every worker.
* **AllocProofs** (757 obligations). `InPageHolds`, `NoLeakHolds` and `BlocksRefined` are
  about the client that asks only for what fits (`careful`). `AllocInv` is their conjunction
  with `TypeOK`, `Apart` and `SizeRecorded`: `dealloc` frees as many granules as are recorded,
  so no property is inductive without that one. The scan of a page with a gap ends in
  the page (`ScanInPage`), which is also why it never faults (`NoFault`).
  `NoOverlapHolds` is about both clients. Of one that holds blocks behind the page
  `SizeRecorded` need not be true, since a block may lie where the lengths are kept;
  `MarkedInv` says that the granules of every block are not free for a scan, and that no
  more than a block's own length is recorded for it. `FirstFitHolds`
  is the counting loop against its closed form. `count` is a recursive function, and
  instead of an induction the proof names the function it is (`Counts`: the length less
  the run of free granules that ends here) and takes the least place where they differ.
* **ScheduleProofs** (480 obligations). `ChecksTheRangeHolds` and `MarkedAsMeantHolds` for
  all items of numbers with at most two digits and no leading zero, which is what the
  two properties are about. `ScopeChecked` is the digit checks against the range, for
  each of the five fields; `ItemMarked` one item's cells, where `Multiple` turns `%`
  into counting. `CheckInv` says how far the loop over the items has come.
* **CronProofs** (1993 obligations), first of the editor, for a user who removes what
  the listing shows (`Careful`). `TypeCorrect`, `LogAccountsHolds` and `ListRefined`
  hold for files of any length: `CountInv` says what is in the buffers and that the counter is exact, and
  `AccountInv` adds the log, where each step changes how often a command occurs by
  one. Only `NumberedHolds` needs `SmallTable`, at most ten lines and so numbers of one
  digit (section 5 has the eleventh): `Renumber` is the arithmetic of the
  patched character, `KeptNumbered` what it does to the file.
  Then of the daemon: `RemovedStaysOutHolds` and `NoOlderCommandHolds`, for
  every user, also one who is not careful, and all lines, clocks, threads and crashes.
  `WantedInv` follows a command through table, the daemon's buffer, the globals and a
  thread's copies of them; `OrderInv` adds that what a global holds is not from a line
  before the thread's. `LastLineExactHolds` adds `LastInv` (in the
  first minute the tables are those of the last line, and its thread has tested them as
  far as it is) and assumes `MonthsAgree`: months are marked from 1 and read from 0, so a
  line must treat the month of the clock and the one before alike (in January it need not, section 5).
* **RsyncProofs** (1403 obligations), in three layers. `BasicInv` (types, the lists are
  of names of src, each step is where its list is) gives `TypeCorrect`, `OnlyListedChangeHolds`
  and `DirectoriesKeptHolds` with no hypothesis. `KeptInv` says where the old version of
  each listed file is (`Kept`) and gives `NoVersionLostHolds`, if no file is called
  like a `.swp` and contents are text (`NoSwpNames`, `TextOnly`). `SyncedInv` says of
  each file of src that it is to be looked at, listed or in dst, and gives
  `DoneMeansSyncedHolds`, if also versions differ in size (`SizesDiffer`). `Rsync_swpname.cfg`,
  `Rsync_binary.cfg` and `Rsync_second.cfg` are the three hypotheses dropped.
* **ScoreProofs** (2000 obligations). `TypeCorrect` and `TableRecoveredHolds` with no
  hypothesis (`PlaceInv`: which question, which row, which file is being written).
  `NoLeftoversHolds` (`LeftoverInv`), `PointsDeservedHolds` and `RightProgramPaidHolds`
  (`GradeInv`, each cell so far against the program and how it ended) assume `Prompt`;
  section 5 drops it.
* **ShellProofs** (984 obligations). `GivesUpOnlyWhenFullHolds` for all inputs: `PipeInv`
  counts the descriptors open against the commands run. `OutputAsTypedHolds`: `FlowInv`
  says that what is on the screen or written, what is in the pipe and what is not read yet
  make together the output of the commands so far (`Composed`), unless the line is
  `loose`, and that what a batch has in its buffer is made of characters of its
  lines, however often the offset was put back. It takes two hypotheses:
  words and characters are in sets W and C (`Worded`), and a line is split as it is
  meant (`SplitAsMeant`): what `Scan` makes
  of a text, character by character, is an induction, and model-checked.
* **UnixProofs** (6095 obligations) is about every code that keeps `Rules`, with any
  number of tasks, keys and ticks. The rules: each block ends with a call that does not go on,
  and each block named exists; what handlers reach (`Inside`) does not mask, keep a place
  or execute, and what main and threads reach (`Outer`) does not return; a program that
  jumps, aborts or executes another asks for no mask; a place a handler jumps to was kept with
  its mask. `ControlInv` (`ControlKept`) says where control may be: each frame in a block of its
  level, each registered block inside, each kept place outside, each thread of a program
  without threads alone. `MasksAreGivenBack` adds `MaskInv`: `MaskRestored` says nothing
  within a handler, so the invariant says it of the mask in the lowest handler's frame,
  and of the masks kept by `sigsetjmp`. `PlacesAreKept` adds `JumpInv` over a labelling of the
  calls behind a `setjmp` (`Keeps`: such a call is reached only from another, from the
  `setjmp`, or through the test of a flag set there): frames, handlers, functions for
  exit, other places and the flag are before the label or the place is kept.
  `LinesAreShownOnce` is over a staging of the calls (`Stages`): who forks has nothing
  registered, and nothing in the buffer of stdout or a child that never shows its copy, because
  it executes, calls `_exit` or closes stdout. `StageInv` says that what the staging claims
  is so; `ShownOnce` is only about what is on the screen, so `LineInv` says that no line is twice
  on the screen and in the buffers still to be shown together, and that who printed a
  line has counted it. A step loses lines, adds one or moves a buffer to the screen
  (`LinesShrink`, `LinesGrow`, `LinesMove`), and no silent buffer is to be shown again
  (`ShowsKept`). `ProgramsKeepMasksPlacesAndLines` has the labelling and the staging of the
  programs, `can_jump` among them.
  The rules are facts without variables, so that TLC's evaluation is complete.

Only model-checked: liveness and fairness (`Termination`, `DispatchFairSpec`, `Converges`,
`EofEnds`, `EveryLineRuns`, `NobodyWaitsForEver`; the prover has no ENABLED); the split of a
line by `Scan` (induction over its characters); `OperandsKept`, `NoRightAnswerRefused`
and `NoWrongAnswerPaid`, since Tokens and Blank are recursive; `AsDescribed`, which is
about the text of each of fifty programs. `TypeOK`, `MutualExclusion`, `NeverBothWaiting`, `InPage`,
`DispatchSpec` and `TypeOK` of Crontab, Rsync and Score are proved and in no run of their own: what the
runs check implies or repeats them.

## 5. Limits of the code the models show

One is a run, quoted against the comment it contradicts (`findings`). These
configurations, or the changes named to those of the runs, reproduce others; TLC finds
each property violated, when it is the one checked:

| configuration | module | violated | what happens |
|---|---|---|---|
| `MasterWorker_overrun.cfg` | MasterWorker | `InBuffer` | the condition is not tested again after a wait: two masters fill one free slot |
| `MasterWorker_stuck.cfg` | MasterWorker | `MastersTerminate` | a master waits for room when the last item is produced; no master wakes it, and what workers do wake it only if they wait |
| `Alloc_full.cfg` | Alloc | `Inside` | the page is full, the scan finds zeros in `mem_offset` |
| `Alloc_zero.cfg` | Alloc | `NextApart` | `alloc(0)` stops at a granule in use and returns the place behind it, where the next block may start; giving the former back frees the latter, which is then handed out again |
| `Rsync_binary.cfg` | MCRsync | `DoneMeansSynced` | `fgets`/`fputs` lose what follows a NUL in a line |
| `Rsync_second.cfg` | MCRsync | `DoneMeansSynced` | an edit within the second, with the same size |
| `Rsync_rename.cfg` | MCRsync | `Converges` | src is replaced between `fopen` and `stat`: old content, new time, never repaired |
| `Rsync_swpname.cfg` | MCRsync | `DoneMeansSynced` | a user's own file is called like a `.swp` |
| `Rsync_sigint.cfg` | MCRsync | `RestoredOnSigint` | the comment of the handler (`ssu_rsync.c:359`) promises that dst is put back; it is installed after the last copy (`:355`) and removes nothing |
| `Crontab_edit.cfg`, `Careful = FALSE` | Crontab | `Numbered` | a number behind the last line is accepted |
| `Crontab_edit.cfg`, `MaxLines = 11` | Crontab | `Numbered` | the eleventh line: one character of a number of two is patched |
| `Schedule_safe.cfg` | MCScheduleCheck | `AcceptedIsSafe` | `5/2`, `*/0`, `100` are accepted and kill the daemon or write behind the array |
| `Cron_daemon.cfg`, `Times <- January` | MCCron | `LastLineExact` | months are marked from 1 and read from 0: in January a command of every minute is not run |
| `Score_grade.cfg`, `Prompt = FALSE` | MCScore | `RightProgramPaid` | `ps` looks before the shell has exec'ed the program, which is judged by an empty file |
| `Score_grade.cfg` | MCScore | `OnlyEqualOutput` | an output that goes on by repeating its last character gets the points |

In the shell (the properties of `shell_lines` leave these inputs out):

* a last line of a batch without a newline loses its last character (`:46`);
* a bar without blanks around it merges the words on its sides; an empty command in
  front of a bar is a store through an unset pointer;
* the vector of the last command of a pipeline is not ended by NULL (`:92` ends the list of
  vectors only) and may go on with words of an older line, which are freed with it;
* two commands of a batch that are not found: each child puts the shared offset back
  (`:233`), the lines between them are run again and again; already one makes the shell
  run the lines behind it twice, and a last line without newline goes on with them;
* at the end of an interactive input the loop forks for ever (`:51`);
* a command that writes more than the pipe holds hangs the shell (`:240`).

In the comparison of blanks:

* a sign, star or ampersand directly behind `)` goes to what follows: `(a+b)-c` has
  the token `-c`; `a*(b+(c-d))` is refused; `a . b` is; a trailing star leaves the array,
  and `a***` never ends (`:323`);
* with three levels of precedence in one expression the tree may be another one;
* a relational operator turns round whatever node it is compared with (`:62`): `x<y || a-b` is
  refused for `a-b || x<y`, and a right answer with `a && b < c` may be compared through a
  NULL child; `&&a` and `f(,a)` follow one in `make_tree`; `x<y || b+a`
  is accepted for `a+b+c || x<y`, and `a+a` for `a+b` (`:152`);
* `get_high_precedence_node` ends without a return; the byte in front of the arrays
  (row -1) is read and taken for zero.

In LSP, against what the files say:

* `ssu_sigsetjmp_1.c:18`: a SIGINT before line 20 jumps to a place that was not kept,
  and the mask is not given back; `ssu_sigaction_3.c:17` and `ssu_sigsetjmp_3.c:23`
  leave flags and mask uninitialised;
* a wakeup is lost between test and wait in `ssu_sigsuspend_3.c:20` and `ssu_pause.c:11`;
* `ssu_fork_1.c:18` and `ssu_wait_1.c` show a line twice when stdout is a file, and
  `ssu_daemon.c:40` loses its message there;
* a child whose exec fails goes on as a parent in `ssu_wait_3.c` and `ssu_wait_4.c`;
  `:23-24` of the first says that the output of the children comes first and then the
  parent's, which on a terminal it need not: "waiting for children" is written before
  the first `wait`;
* `ssu_pthread_exit_1.c:17` hands each thread a pointer to the counter of the loop;
  `ssu_wait_2.c:14` assigns the result of the comparison to `pid`.

One more holds by the shape of the program and needs no run: the daemon reads the
table in its first minute only, since it goes on with the stream it has closed (`Wake`).
The clock of the other Cron runs is in June.

## 6. What is left out, and decisions

* Malloc and stream errors other than those named; wording of messages and logs;
  argument splitting; inputs outside the grammar of a crontab line.
* Text of a file is copied by lines; a line longer than the buffer is copied in
  pieces, which makes no difference.
* `Crond.offset` counts lines: the daemon's position in a file that is cut and
  rewritten meanwhile is exact if lines are equally long, else it may begin inside
  a line. `Fgets` fills its buffer with the whole rest of the file.
* `opt_check` ends without a return on its normal path; the caller tests for a
  negative value, and the value is taken as not negative, as the accepted
  lines in the repository's `ssu_crontab_log` show.
* In Score, blanks are the trees they denote and gcc is what it says of a file; `-t`
  is a flag for gcc only; 100 students and questions, the sizes of the tables, are not
  reached. Score and BlankScore are not composed: a blank is one step of the grader
  and reads nothing it writes.
* Blank answers have no names of types or casts (for which `make_tokens` has rules of
  its own, and loops for ever on `sizeof(int)*2`), no gcc, `#include` or `-lpthread`,
  and stay below 50 tokens of 64 bytes; free_node is left out.
* The allocator's page contents, and the `buf` nobody uses.
* LSP: `ssu_vfork`, `ssu_putenv_1` and `_2`, `getpid`, `getrlimit`, `command-line`,
  `seteuid`, `setuid`, `sigset`, `getpgid`, `getpgrp` and `tcgetsid` show the value of
  one call; the eighty programs of chapters 0 and 2 to 4 are each a sequential use of one call on files.
  Data-Structure and MATLAB hold exercises without state of their own.
