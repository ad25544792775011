------------------------------ MODULE UnixProofs ------------------------------
(***************************************************************************)
(* Proofs about Unix and the programs that run on it, for every code that  *)
(* keeps the rules stated here.  The rules are about the text of a program *)
(* only; Unix_rules.cfg has TLC evaluate them for the programs of src/LSP. *)
(* Three programs show what breaking them does: ssu_sigsetjmp_1 is left    *)
(* out where masks and places are meant, ssu_fork_1 and ssu_wait_1 where   *)
(* lines are and stdout is a file.                                         *)
(***************************************************************************)
EXTENDS MCUnix, SequenceTheorems, WellFoundedInduction, TLAPS

Programs == DOMAIN Code
Fit == Programs \ {"ssu_sigsetjmp_1"}

Final == {"goto", "return", "exit", "_exit", "pthread_exit", "longjmp"}
Waits == {"pause", "sleep", "read", "sigsuspend"}
Masking == {"block", "unblock", "setmask"}

(* The blocks a call may continue with, and those it registers.            *)
JumpTo(i) == IF i[1] = "goto" THEN {i[2]}
             ELSE IF i[1] = "if" THEN {i[4]}
             ELSE IF i[1] \in {"ifsig", "same"} THEN {i[3]} ELSE {}
Registers(i) == IF i[1] \in {"signal", "sigaction"} THEN {i[3]}
                ELSE IF i[1] = "atexit" THEN {i[2]} ELSE {}

Place(p, pc) == pc[1] \in DOMAIN Code[p] /\ pc[2] \in DOMAIN Code[p][pc[1]]
Has(p, ops) == \E c \in DOMAIN Code[p] : \E k \in DOMAIN Code[p][c] : Code[p][c][k][1] \in ops

(* Every block ends with a call that does not go on to the next one, and   *)
(* every block that is named exists.                                       *)
WellMade(p) ==
  /\ "main" \in DOMAIN Code[p] /\ "DFL" \notin DOMAIN Code[p]
  /\ \A c \in DOMAIN Code[p] :
       /\ 1 \in DOMAIN Code[p][c] /\ DOMAIN Code[p][c] \subseteq Nat
       /\ \A k \in DOMAIN Code[p][c] : LET i == Code[p][c][k] IN
            /\ i[1] \notin Final => k + 1 \in DOMAIN Code[p][c]
            /\ JumpTo(i) \subseteq DOMAIN Code[p]
            /\ i[1] \in {"atexit", "thread"} => i[2] \in DOMAIN Code[p]
            /\ i[1] = "exec" => i[2] \in Fit /\ ~Has(p, {"thread"})
            /\ i[1] = "longjmp" => i[2] \in {1, 2}

(* Inside(p) are the blocks that handlers and functions registered with    *)
(* atexit reach, Outer(p) those that main and the threads do.  An action   *)
(* that is read from a variable may be any block.                          *)
Closed(p, S) == \A c \in S : \A k \in DOMAIN Code[p][c] : JumpTo(Code[p][c][k]) \subseteq S
Registered(p) ==
  {d \in DOMAIN Code[p] : \/ Has(p, {"resignal"})
                          \/ \E c \in DOMAIN Code[p] : \E k \in DOMAIN Code[p][c] : d \in Registers(Code[p][c][k])}
Begun(p) ==
  {d \in DOMAIN Code[p] : \/ d = "main"
                          \/ \E c \in DOMAIN Code[p] : \E k \in DOMAIN Code[p][c] :
                               Code[p][c][k][1] = "thread" /\ d = Code[p][c][k][2]}
Reached(p, from) ==
  {c \in DOMAIN Code[p] : \A S \in SUBSET DOMAIN Code[p] : from \subseteq S /\ Closed(p, S) => c \in S}
Inside(p) == Reached(p, Registered(p))
Outer(p) == Reached(p, Begun(p))

(* Handlers leave the mask alone, keep no place and execute nothing; what  *)
(* is outside of them does not return.  A program that jumps, aborts or    *)
(* executes another asks for no mask.                                      *)
Mannered(p) ==
  /\ \A c \in Inside(p) : \A k \in DOMAIN Code[p][c] : LET i == Code[p][c][k] IN
       i[1] \notin Masking \cup {"setjmp", "exec"}
  /\ \A c \in Outer(p) : \A k \in DOMAIN Code[p][c] : Code[p][c][k][1] \notin {"return", "ifsig"}
  /\ Has(p, {"longjmp", "abort", "exec"}) => ~Has(p, Masking)

(* A place that a handler jumps to was kept with the mask.                 *)
SavesMasks(p) ==
  \A c \in Inside(p) : \A k \in DOMAIN Code[p][c] : LET i == Code[p][c][k] IN
    i[1] = "longjmp" => \A d \in DOMAIN Code[p] : \A n \in DOMAIN Code[p][d] :
      LET j == Code[p][d][n] IN j[1] = "setjmp" /\ j[2] = i[2] => j[3]

Rules ==
  /\ Start \subseteq Programs
  /\ \A p \in Programs : WellMade(p) /\ Mannered(p)
  /\ \A p \in Fit : SavesMasks(p)
-----------------------------------------------------------------------------
(* A labelling says from which call on, in each block, place b of program  *)
(* p is known to be kept, and which variable is not 0 only then.           *)
Flags == Vars \ {"x", "y", "func", "pid", "status"}
Names(i) == JumpTo(i) \cup Registers(i) \cup (IF i[1] = "thread" THEN {i[2]} ELSE {})

(* Place b is kept on every way to where it is labelled so: such a call is *)
(* reached only from another, from the setjmp, or through a test of the    *)
(* flag, and only there is the flag set or a block named that begins so.   *)
KeptOnTheWay(p, b, from, flag) ==
  /\ from["main"] > 1
  /\ \A c \in DOMAIN Code[p] : \A k \in DOMAIN Code[p][c] : LET i == Code[p][c][k] IN
       /\ i[1] = "longjmp" /\ i[2] = b => k >= from[c]
       /\ k < from[c] =>
            /\ \A d \in DOMAIN Code[p] : d \in Names(i) => from[d] > 1
            /\ i[1] = "set" /\ i[2] = flag => i[3] = 0
            /\ i[1] \notin Final /\ k + 1 >= from[c] =>
                 (i[1] = "setjmp" /\ i[2] = b) \/ (i[1] = "if" /\ i[2] = flag /\ i[3] = 0)
       /\ i[1] \in {"add", "save", "garble"} => i[2] # flag
       /\ i[1] = "resignal" => \A d \in DOMAIN Code[p] : from[d] > 1

Keeps(from, flag) ==
  \A p \in Fit, b \in {1, 2} : /\ from[p][b] \in [DOMAIN Code[p] -> Nat]
                               /\ flag[p][b] \in Flags
                               /\ KeptOnTheWay(p, b, from[p][b], flag[p][b])

(* The labels of the programs of src/LSP: of those that jump, the calls    *)
(* behind setjmp and the blocks reached from there.                        *)
Never(p) == [c \in DOMAIN Code[p] |-> Len(Code[p][c]) + 1]
KeptFrom ==
  [p \in Fit |-> [b \in {1, 2} |->
     CASE p = "ssu_setjmp" /\ b = 1 -> [Never(p) EXCEPT !.main = 5, !.after = 1]
       [] p = "ssu_sigsetjmp_2" /\ b = 1 ->
            [Never(p) EXCEPT !.main = 5, !.jumped = 1, !.loop = 1, !.ssu_func = 2]
       [] p = "ssu_sigsetjmp_3" /\ b = 1 -> [c \in DOMAIN Code[p] |-> IF c = "main" THEN 3 ELSE 1]
       [] p = "ssu_sigsetjmp_3" /\ b = 2 ->
            [Never(p) EXCEPT !.start = 3, !.loop = 1, !.end = 1, !.handler2 = 1]
       [] OTHER -> Never(p)]]
CanJump == [p \in Fit |-> [b \in {1, 2} |->
  IF <<p, b>> = <<"ssu_sigsetjmp_2", 1>> \/ p = "ssu_setjmp" THEN "i" ELSE "z"]]

-----------------------------------------------------------------------------
(* A staging says of each call of a program what holds before it.          *)
(*   open    nothing                                                       *)
(*   bare    nothing is registered, and no handler runs                    *)
(*   clean   the same, and the buffer of stdout is empty                   *)
(*   split   the same as bare, just behind a fork                          *)
(*   silent  the same as bare, in a child that never shows its copy        *)
Kinds == {"open", "bare", "clean", "split", "silent"}

(* The two programs that fork with a line in the buffer, when stdout is a  *)
(* file, are left out, as in ShownOnce.                                    *)
Covered(tt) == IF tt THEN Programs ELSE Programs \ {"ssu_fork_1", "ssu_wait_1"}

Later(p, c, k) ==
  (IF Code[p][c][k][1] \in Final THEN {} ELSE {<<c, k + 1>>})
    \cup {<<d, 1>> : d \in JumpTo(Code[p][c][k])}
Fills(tt, i) == i[1] = "part" \/ (i[1] = "print" /\ ~tt)

(* What is bare stays so until something is registered; the buffer is      *)
(* empty until something is printed, or after a flush; who forks has an    *)
(* empty buffer or a silent child; who is silent prints into the buffer at *)
(* most, and executes, calls _exit or closes stdout.                       *)
AtStage(tt, p, kind, c, k) ==
  LET i == Code[p][c][k]
      next == {kind[n[1]][n[2]] : n \in Later(p, c, k)}
  IN
  /\ kind[c][k] # "open" => c \notin Inside(p) /\ ~Has(p, {"thread", "longjmp"})
  /\ (\E n \in next : n # "open") =>
       kind[c][k] # "open" /\ i[1] # "resignal" /\ Registers(i) \cap DOMAIN Code[p] = {}
  /\ "clean" \in next =>
       (kind[c][k] = "clean" /\ ~Fills(tt, i)) \/ (i[1] = "flush" /\ i[2] = "always")
  /\ i[1] = "fork" => kind[c][k] = "clean" \/ (kind[c][k] = "bare" /\ kind[c][k + 1] = "split")
  /\ i[1] = "exec" => i[2] \in Covered(tt)
  /\ kind[c][k] = "split" =>
       i[1] = "if" /\ i[2] = "r" /\ IF i[3] = 0 THEN kind[i[4]][1] = "silent" ELSE kind[c][k + 1] = "split"
  /\ kind[c][k] = "silent" =>
       /\ i[1] \notin {"exit", "pthread_exit", "flush", "fork"} /\ (i[1] = "print" => ~tt)
       /\ i[1] # "detach" => next \subseteq {"silent"}
Staged(tt, p, kind) ==
  \A c \in DOMAIN Code[p] : \A k \in DOMAIN Code[p][c] : AtStage(tt, p, kind, c, k)

Stages(stage) == \A tt \in BOOLEAN : \A p \in Covered(tt) : Staged(tt, p, stage[tt][p])

(* The calls of the programs of src/LSP up to their last fork.             *)
Upto(c, n) == {<<c, k>> : k \in 1..n}
CleanAt(tt, p) ==
  CASE p \in {"ssu_execv_1", "ssu_fork_2", "ssu_race", "ssu_wait_2", "ssu_setsid", "Background"} ->
         Upto("main", 1)
    [] p = "ssu_execl_2" \/ (tt /\ p = "ssu_fork_1") -> Upto("main", 5)
    [] p = "ssu_wait_3" -> Upto("main", 3) \cup Upto("one", 2) \cup Upto("second", 1)
    [] p = "ssu_wait_4" -> Upto("main", 4) \cup Upto("one", 2) \cup Upto("second", 1)
    [] p = "ssu_tcgetpgrp" -> {<<"main", 1>>, <<"main", 3>>}
    [] tt /\ p = "ssu_wait_1" -> Upto("main", 13)
    [] tt /\ p = "ssu_system" -> Upto("main", 2)
    [] tt /\ p \in {"ssu_daemon", "ssu_syslog"} -> Upto("main", 3) \cup Upto("init", 1)
    [] OTHER -> {}
BareAt(tt, p) ==
  CASE p = "ssu_tcgetpgrp" -> {<<"main", 2>>}
    [] ~tt /\ p = "ssu_system" -> Upto("main", 2)
    [] ~tt /\ p \in {"ssu_daemon", "ssu_syslog"} -> Upto("main", 3) \cup Upto("init", 1)
    [] OTHER -> {}
SplitAt(tt, p) ==
  CASE ~tt /\ p = "ssu_system" -> {<<"main", 3>>}
    [] ~tt /\ p \in {"ssu_daemon", "ssu_syslog"} -> {<<"init", 2>>, <<"init", 3>>}
    [] OTHER -> {}
SilentIn(tt, p) ==
  CASE ~tt /\ p = "ssu_system" -> Upto("shell", 2)
    [] ~tt /\ p \in {"ssu_daemon", "ssu_syslog"} -> Upto("child", 4)
    [] OTHER -> {}
Staging ==
  [tt \in BOOLEAN |-> [p \in Programs |-> [c \in DOMAIN Code[p] |-> [k \in DOMAIN Code[p][c] |->
     CASE <<c, k>> \in CleanAt(tt, p) -> "clean"
       [] <<c, k>> \in BareAt(tt, p) -> "bare"
       [] <<c, k>> \in SplitAt(tt, p) -> "split"
       [] <<c, k>> \in SilentIn(tt, p) -> "silent"
       [] OTHER -> "open"]]]]

RulesKept == Rules /\ Keeps(KeptFrom, CanJump) /\ Stages(Staging)
-----------------------------------------------------------------------------
(* How far the control of a program may be.  Shape: the fields of every    *)
(* record.  Belongs: a thread belongs to a process that was begun, and is  *)
(* alone in it unless the program creates threads.                         *)
IsSeq(s) == Len(s) \in Nat /\ s = [k \in 1..Len(s) |-> s[k]]
TaskFields == {"st", "of", "pc", "r", "arg", "mask", "own", "frames"}
ProcFields == {"prog", "parent", "st", "status", "stopped", "mem", "buf", "fd", "n", "act", "pend",
               "clock", "jmp", "exits", "sid"}
IsPlace(pc) == pc = <<pc[1], pc[2]>>

ThreadShape(tk) ==
  /\ DOMAIN tk = TaskFields /\ IsPlace(tk.pc) /\ IsSeq(tk.frames)
  /\ \A k \in DOMAIN tk.frames : IsPlace(tk.frames[k].pc)
ProcShape(p) ==
  /\ DOMAIN p = ProcFields /\ DOMAIN p.act = Sigs /\ DOMAIN p.jmp = {1, 2} /\ DOMAIN p.mem = Vars
  /\ IsSeq(p.exits)
  /\ \A b \in {1, 2} : p.jmp[b].set => IsPlace(p.jmp[b].pc)
Shape ==
  /\ DOMAIN task = Tasks /\ DOMAIN proc = Tasks
  /\ \A t \in Tasks : ThreadShape(task[t]) /\ ProcShape(proc[t])

Born(t) == task[t].st # "unborn"
Belongs ==
  /\ \A t \in Tasks : Born(t) => task[t].of \in Tasks /\ Born(task[t].of)
  /\ \A t, u \in Tasks : Alive(t) /\ Alive(u) /\ task[t].of = task[u].of /\ t # u
                           => Has(Me(t).prog, {"thread"})

(* Level(p, n): the blocks of p that run on top of n frames.               *)
Level(p, n) == IF n = 0 THEN Outer(p) ELSE Inside(p)

Instruction(p, pc) == Code[p][pc[1]][pc[2]]
Controlled(p, tk) ==
  /\ Place(p, tk.pc) /\ tk.pc[1] \in Level(p, Len(tk.frames))
  /\ tk.st # "run" => Instruction(p, tk.pc)[1] \in Waits
  /\ \A k \in DOMAIN tk.frames : /\ Place(p, tk.frames[k].pc)
                                /\ tk.frames[k].pc[1] \in Level(p, k - 1)

(* What a process has registered is inside, and a place it kept outside.   *)
Ready(p) ==
  /\ p.prog \in Programs
  /\ \A s \in Sigs : p.act[s].h \in DOMAIN Code[p.prog] => p.act[s].h \in Inside(p.prog)
  /\ \A k \in DOMAIN p.exits : p.exits[k] \in Inside(p.prog)
  /\ \A b \in {1, 2} : p.jmp[b].set => /\ Place(p.prog, p.jmp[b].pc)
                                       /\ p.jmp[b].pc[1] \in Outer(p.prog)

ControlInv ==
  /\ main \in Programs /\ Shape /\ Belongs
  /\ \A t \in Tasks : Alive(t) => Controlled(Me(t).prog, task[t]) /\ Ready(Me(t))
-----------------------------------------------------------------------------
(* NoSignal(f, n): the first n frames are not of handlers.                 *)
None == ""
NoSignal(f, n) == \A k \in 1..n : f[k].sig = None

(* A frame below which there is no handler holds the mask the program      *)
(* asked for, and so do its jumps.                                         *)
Masked(p, tk) ==
  LET f == tk.frames IN
  /\ NoSignal(f, Len(f)) /\ tk.st # "suspend" => tk.mask = tk.own
  /\ \A k \in DOMAIN f : NoSignal(f, k - 1) => f[k].mask = tk.own
  /\ ~Has(p, Masking) => tk.own = {}

AllSaved(p, b) == \A c \in DOMAIN Code[p] : \A k \in DOMAIN Code[p][c] :
                    Code[p][c][k][1] = "setjmp" /\ Code[p][c][k][2] = b => Code[p][c][k][3]
SavedMasks(p) ==
  \A b \in {1, 2} : LET j == p.jmp[b] IN j.set =>
    /\ AllSaved(p.prog, b) => j.saved
    /\ j.saved /\ ~Has(p.prog, Masking) => j.mask = {}

MaskInv == \A t \in Tasks : Alive(t) => Masked(Me(t).prog, task[t]) /\ SavedMasks(Me(t))
-----------------------------------------------------------------------------
(* Everything a process may go on with is before the label, or the place   *)
(* is kept.                                                                *)
Behind(label, pc) == pc[2] >= label[pc[1]]

Reaching(p, tk, from) ==
  \A b \in {1, 2} : LET label == from[p.prog][b] IN
    \/ Behind(label, tk.pc)
    \/ \E k \in DOMAIN tk.frames : Behind(label, tk.frames[k].pc)
    => p.jmp[b].set

Remembering(p, from, flag) ==
  \A b \in {1, 2} : LET label == from[p.prog][b] IN
    \/ \E s \in Sigs : p.act[s].h \in DOMAIN Code[p.prog] /\ label[p.act[s].h] <= 1
    \/ \E k \in DOMAIN p.exits : label[p.exits[k]] <= 1
    \/ \E c \in {1, 2} : p.jmp[c].set /\ Behind(label, p.jmp[c].pc)
    \/ p.mem[flag[p.prog][b]] # 0
    => p.jmp[b].set

JumpInv(from, flag) ==
  \A t \in Tasks : Alive(t) => Reaching(Me(t), task[t], from) /\ Remembering(Me(t), from, flag)
-----------------------------------------------------------------------------
(* Where the staging says that nothing is registered, nothing is, and what *)
(* handlers and exit interrupt is open.                                    *)
Kind(stage, p, pc) == stage[tty][p][pc[1]][pc[2]]
Bare(p, tk) ==
  tk.frames = <<>> /\ p.exits = <<>> /\ \A s \in Sigs : p.act[s].h \notin DOMAIN Code[p.prog]
Staying(stage, p, tk) ==
  /\ p.prog \in Covered(tty)
  /\ Kind(stage, p.prog, tk.pc) # "open" => Bare(p, tk)
  /\ \A k \in DOMAIN tk.frames : Kind(stage, p.prog, tk.frames[k].pc) = "open"
StageInv(stage) == tty \in BOOLEAN /\ \A t \in Tasks : Alive(t) => Staying(stage, Me(t), task[t])

(* A line is known by who printed it and when.  Screen stands for what is  *)
(* shown; a process that is silent, or has closed stdout, shows nothing.   *)
Silent(stage, t) ==
  LET kind == Kind(stage, Me(t).prog, task[t].pc)
  IN kind = "silent" \/ (kind = "split" /\ task[t].r = 0)
Shows(stage, q) ==
  proc[q].fd = "out" /\ \E t \in Tasks : Alive(t) /\ task[t].of = q /\ ~Silent(stage, t)
Screen == -1
Lines(stage) ==
  [x \in Tasks \cup {Screen} |->
     IF x = Screen THEN out ELSE IF Shows(stage, x) THEN proc[x].buf ELSE <<>>]

(* No line is twice on the screen and in the buffers that are to be shown, *)
(* and each was printed by a process that has counted it.                  *)
Single(lines) ==
  \A x, y \in DOMAIN lines : \A j \in DOMAIN lines[x], k \in DOMAIN lines[y] :
    lines[x][j][3] = lines[y][k][3] /\ lines[x][j][4] = lines[y][k][4] => x = y /\ j = k
Counted(lines, users, n) ==
  \A x \in DOMAIN lines : /\ IsSeq(lines[x])
                          /\ \A j \in DOMAIN lines[x] : /\ lines[x][j][3] \in users
                                                         /\ lines[x][j][4] \in Nat
                                                         /\ lines[x][j][4] < n[lines[x][j][3]]
Users == {q \in Tasks : Born(q)}
Counts == [q \in Tasks |-> proc[q].n]

LineInv(stage) ==
  /\ \A q \in Tasks : proc[q].n \in Nat /\ IsSeq(proc[q].buf)
  /\ \A t \in Tasks : Alive(t) /\ Kind(stage, Me(t).prog, task[t].pc) = "clean" => Me(t).buf = <<>>
  /\ Single(Lines(stage)) /\ Counted(Lines(stage), Users, Counts)
-----------------------------------------------------------------------------
(* Sequences of any elements.                                              *)

(* What IsSeq means: a sequence over the set of its elements.              *)
LEMMA SeqOfItsElements ==
  ASSUME NEW s, IsSeq(s)
  PROVE  s \in Seq({s[k] : k \in 1..Len(s)}) /\ DOMAIN s = 1..Len(s)
  BY DEF IsSeq

(* The empty sequence is one.                                              *)
LEMMA EmptyIsSeq == IsSeq(<<>>) /\ Len(<<>>) = 0 /\ DOMAIN <<>> = {}
  BY DEF IsSeq

(* A sequence of length 0 is the empty one.                                *)
LEMMA NoElements ==
  ASSUME NEW s, IsSeq(s)
  PROVE  s = <<>> <=> Len(s) = 0
  BY DEF IsSeq

(* A sequence over any set is one.                                         *)
LEMMA SeqIsSeq ==
  ASSUME NEW S, NEW s \in Seq(S)
  PROVE  IsSeq(s)
  BY DEF IsSeq

(* What Append does to a stack: one element on top.                        *)
LEMMA OnTop ==
  ASSUME NEW s, NEW e, IsSeq(s)
  PROVE  /\ IsSeq(Append(s, e)) /\ Len(Append(s, e)) = Len(s) + 1
         /\ DOMAIN Append(s, e) = 1..(Len(s) + 1)
         /\ \A k \in 1..Len(s) : Append(s, e)[k] = s[k]
         /\ Append(s, e)[Len(s) + 1] = e
<1> DEFINE S == {s[k] : k \in 1..Len(s)} \cup {e}
<1>1. s \in Seq(S) /\ e \in S /\ Len(s) \in Nat
  BY DEF IsSeq
<1> HIDE DEF S
<1>2. /\ Append(s, e) \in Seq(S) /\ Len(Append(s, e)) = Len(s) + 1
      /\ \A k \in 1..Len(s) : Append(s, e)[k] = s[k]
      /\ Append(s, e)[Len(s) + 1] = e
  BY <1>1, AppendProperties
<1>3. DOMAIN Append(s, e) = 1..(Len(s) + 1)
  BY <1>2
<1>4. IsSeq(Append(s, e))
  BY <1>2, SeqIsSeq
<1> QED  BY <1>2, <1>3, <1>4

(* What Front does to a stack: the element on top is gone.                 *)
LEMMA WithoutTop ==
  ASSUME NEW s, IsSeq(s), s # <<>>
  PROVE  /\ IsSeq(Front(s)) /\ Len(Front(s)) = Len(s) - 1 /\ Len(s) >= 1
         /\ DOMAIN Front(s) = 1..(Len(s) - 1)
         /\ \A k \in 1..(Len(s) - 1) : Front(s)[k] = s[k]
         /\ Last(s) = s[Len(s)]
<1> DEFINE S == {s[k] : k \in 1..Len(s)}
<1>1. s \in Seq(S) /\ Len(s) \in Nat /\ Len(s) >= 1
  BY NoElements DEF IsSeq
<1> HIDE DEF S
<1>2. Front(s) = SubSeq(s, 1, Len(s) - 1) /\ Last(s) = s[Len(s)]
  BY DEF Front, Last
<1>3. /\ SubSeq(s, 1, Len(s) - 1) \in Seq(S)
      /\ Len(SubSeq(s, 1, Len(s) - 1)) = Len(s) - 1
      /\ \A k \in 1..(Len(s) - 1) : SubSeq(s, 1, Len(s) - 1)[k] = s[k]
  <2>1. /\ Len(s) - 1 \in Nat /\ Len(s) - 1 - 1 + 1 = Len(s) - 1 /\ Len(s) \in Nat
    BY <1>1
  <2>2. \A k \in 1..(Len(s) - 1) : k \in 1..Len(s) /\ s[k] \in S /\ 1 + k - 1 = k
    BY <1>1
  <2> QED  BY <1>1, <2>1, <2>2, SubSeqProperties
<1>4. DOMAIN Front(s) = 1..(Len(s) - 1)
  BY <1>2, <1>3
<1>5. IsSeq(Front(s))
  BY <1>2, <1>3, SeqIsSeq
<1> QED  BY <1>1, <1>2, <1>3, <1>4, <1>5

-----------------------------------------------------------------------------
(* What the calls have in common.                                          *)

(* A step gives one thread a new record.                                   *)
LEMMA Going ==
  ASSUME Shape, NEW t \in Tasks, NEW tk, Goes(t, tk)
  PROVE  /\ DOMAIN task' = Tasks /\ task'[t] = tk
         /\ \A u \in Tasks : u # t => task'[u] = task[u]
  BY DEF Shape, Goes

(* A step gives one process a new record.                                  *)
LEMMA Holding ==
  ASSUME Shape, NEW t \in Tasks, task[t].of \in Tasks, NEW p, Holds(t, p)
  PROVE  /\ DOMAIN proc' = Tasks /\ proc'[task[t].of] = p
         /\ \A q \in Tasks : q # task[t].of => proc'[q] = proc[q]
  BY DEF Shape, Holds

(* The next call of the same block.                                        *)
LEMMA OnTheNext ==
  ASSUME Shape, NEW t \in Tasks, NEW r
  PROVE  /\ On(t).pc = <<task[t].pc[1], task[t].pc[2] + 1>>
         /\ Returns(t, r).pc = <<task[t].pc[1], task[t].pc[2] + 1>>
         /\ On(t).r = task[t].r /\ Returns(t, r).r = r
         /\ DOMAIN On(t) = TaskFields /\ DOMAIN Returns(t, r) = TaskFields
         /\ \A f \in TaskFields \ {"pc"} : On(t)[f] = task[t][f]
         /\ \A f \in TaskFields \ {"pc", "r"} : Returns(t, r)[f] = task[t][f]
<1>1. DOMAIN task[t] = TaskFields /\ task[t].pc = <<task[t].pc[1], task[t].pc[2]>>
  BY DEF Shape, ThreadShape, IsPlace
<1>2. /\ On(t).pc = [task[t].pc EXCEPT ![2] = @ + 1] /\ DOMAIN On(t) = TaskFields
      /\ \A f \in TaskFields \ {"pc"} : On(t)[f] = task[t][f]
  BY <1>1 DEF On, TaskFields
<1>3. [task[t].pc EXCEPT ![2] = @ + 1] = <<task[t].pc[1], task[t].pc[2] + 1>>
  BY <1>1
<1>4. /\ DOMAIN Returns(t, r) = TaskFields /\ Returns(t, r).r = r
      /\ \A f \in TaskFields \ {"r"} : Returns(t, r)[f] = On(t)[f]
  BY <1>2 DEF Returns, TaskFields
<1> QED  BY <1>2, <1>3, <1>4 DEF TaskFields

(* What the proofs look at in a process does not change, but for a flag    *)
(* that the call of t writes.                                              *)
Alike ==
  /\ DOMAIN proc' = Tasks
  /\ \A q \in Tasks : /\ ProcShape(proc'[q]) /\ proc'[q].prog = proc[q].prog
                      /\ proc'[q].act = proc[q].act /\ proc'[q].jmp = proc[q].jmp
                      /\ proc'[q].exits = proc[q].exits
Stored(t) ==
  \A q \in Tasks, v \in Flags :
    \/ proc'[q].mem[v] = proc[q].mem[v]
    \/ /\ q = task[t].of /\ Arg(t) = v
       /\ \/ Op(t) \in {"add", "save", "garble"}
          \/ Op(t) = "set" /\ proc'[q].mem[v] = Ins(t)[3]

(* Only the record of t changes among the threads.                         *)
Alone(t) == DOMAIN task' = Tasks /\ \A u \in Tasks : u # t => task'[u] = task[u]

GoesOn(t) ==
  \/ /\ Op(t) \notin Final \cup {"setjmp"}
     /\ task'[t].pc = <<task[t].pc[1], task[t].pc[2] + 1>>
     /\ Op(t) = "if" => Value(t, Arg(t)) # Ins(t)[3]
  \/ \E d \in JumpTo(Ins(t)) : task'[t].pc = <<d, 1>>

(* The form of most calls: t goes on, and nothing else changes that        *)
(* matters.                                                                *)
Steady(t) ==
  /\ Alone(t) /\ ThreadShape(task'[t]) /\ task'[t].st = "run"
  /\ task'[t].of = task[t].of /\ task'[t].own = task[t].own /\ task'[t].frames = task[t].frames
Moves(t) == Steady(t) /\ task'[t].mask = task[t].mask /\ GoesOn(t) /\ Alike /\ Stored(t)

(* A step that changes no process.                                         *)
LEMMA NoProcess ==
  ASSUME Shape, NEW t \in Tasks, UNCHANGED proc
  PROVE  Alike /\ Stored(t)
  BY DEF Shape, Alike, Stored

(* A step that gives the process of t a record alike.                      *)
LEMMA OneProcess ==
  ASSUME Shape, NEW t \in Tasks, task[t].of \in Tasks, NEW p, Holds(t, p), ProcShape(p),
         p.prog = Me(t).prog, p.act = Me(t).act, p.jmp = Me(t).jmp, p.exits = Me(t).exits
  PROVE  /\ Alike
         /\ (\A v \in Flags : \/ p.mem[v] = Me(t).mem[v]
                              \/ /\ Arg(t) = v
                                 /\ \/ Op(t) \in {"add", "save", "garble"}
                                    \/ Op(t) = "set" /\ p.mem[v] = Ins(t)[3])
              => Stored(t)
<1>1. /\ DOMAIN proc' = Tasks /\ proc'[task[t].of] = p
      /\ \A q \in Tasks : q # task[t].of => proc'[q] = proc[q]
  BY Holding
<1>2. \A q \in Tasks : ProcShape(proc[q])
  BY DEF Shape
<1>3. Alike
  BY <1>1, <1>2 DEF Alike, Me
<1> QED  BY <1>1, <1>3 DEF Stored, Me

(* A step that moves t to its next call.                                   *)
LEMMA MovesOn ==
  ASSUME Shape, NEW t \in Tasks, task[t].st = "run", Alike, Stored(t), Op(t) \notin Final \cup {"setjmp"},
         Op(t) = "if" => Value(t, Arg(t)) # Ins(t)[3],
         Goes(t, On(t)) \/ \E r : Goes(t, Returns(t, r))
  PROVE  Moves(t)
<1>1. ThreadShape(task[t])
  BY DEF Shape
<1>2. CASE Goes(t, On(t))
  <2>1. Alone(t) /\ task'[t] = On(t)
    BY <1>2, Going DEF Alone
  <2>2. ThreadShape(On(t))
    BY <1>1, OnTheNext DEF ThreadShape, IsPlace, TaskFields
  <2> QED  BY <2>1, <2>2, OnTheNext DEF Moves, Steady, GoesOn, TaskFields
<1>3. ASSUME NEW r, Goes(t, Returns(t, r)) PROVE Moves(t)
  <2>1. Alone(t) /\ task'[t] = Returns(t, r)
    BY <1>3, Going DEF Alone
  <2>2. ThreadShape(Returns(t, r))
    BY <1>1, OnTheNext DEF ThreadShape, IsPlace, TaskFields
  <2> QED  BY <2>1, <2>2, OnTheNext DEF Moves, Steady, GoesOn, TaskFields
<1> QED  BY <1>2, <1>3

(* printf, write, the log and the flush change the buffer, the count of    *)
(* what was written and what is shown.                                     *)
LEMMA OutputMoves ==
  ASSUME Shape, NEW t \in Tasks, task[t].of \in Tasks, task[t].st = "run",
         Printf(t) \/ DoWrite(t) \/ DoFlush(t)
  PROVE  Moves(t)
<1>1. Goes(t, On(t)) /\ Op(t) \notin Final \cup {"setjmp"} /\ Op(t) # "if"
  BY DEF Printf, DoWrite, DoFlush, Final
<1>2. ProcShape(Me(t))
  BY DEF Shape, Me
<1> SUFFICES Alike /\ Stored(t)
  BY <1>1, MovesOn
<1>3. CASE Printf(t)
  <2>1. PICK b : Holds(t, [Me(t) EXCEPT !.buf = b, !.n = @ + 1])
    BY <1>3 DEF Printf
  <2> DEFINE p == [Me(t) EXCEPT !.buf = b, !.n = @ + 1]
  <2>2. ProcShape(p) /\ \A f \in ProcFields \ {"buf", "n"} : p[f] = Me(t)[f]
    BY <1>2 DEF ProcShape, ProcFields
  <2> QED  BY <2>1, <2>2, OneProcess DEF ProcFields
<1>4. CASE DoWrite(t)
  <2> DEFINE p == [Me(t) EXCEPT !.n = @ + 1]
  <2>1. Holds(t, p)
    BY <1>4 DEF DoWrite
  <2>2. ProcShape(p) /\ \A f \in ProcFields \ {"n"} : p[f] = Me(t)[f]
    BY <1>2 DEF ProcShape, ProcFields
  <2> QED  BY <2>1, <2>2, OneProcess DEF ProcFields
<1>5. CASE DoFlush(t)
  <2> DEFINE p == [Me(t) EXCEPT !.buf = <<>>]
  <2>1. Holds(t, p) \/ UNCHANGED proc
    BY <1>5 DEF DoFlush
  <2>2. ProcShape(p) /\ \A f \in ProcFields \ {"buf"} : p[f] = Me(t)[f]
    BY <1>2 DEF ProcShape, ProcFields
  <2> QED  BY <2>1, <2>2, OneProcess, NoProcess DEF ProcFields
<1> QED  BY <1>3, <1>4, <1>5

(* A variable is set, added to, copied or overwritten.                     *)
LEMMA StoreMoves ==
  ASSUME Shape, NEW t \in Tasks, task[t].of \in Tasks, task[t].st = "run",
         DoStore(t) \/ DoOverwritten(t)
  PROVE  Moves(t)
<1>1. Goes(t, On(t)) /\ Op(t) \notin Final \cup {"setjmp"} /\ Op(t) # "if"
  BY DEF DoStore, DoOverwritten, Final
<1>2. ProcShape(Me(t))
  BY DEF Shape, Me
<1> SUFFICES Alike /\ Stored(t)
  BY <1>1, MovesOn
<1>3. PICK w : /\ Holds(t, [Me(t) EXCEPT !.mem[Arg(t)] = w])
               /\ \/ Op(t) \in {"add", "save", "garble"}
                  \/ Op(t) = "set" /\ w = Ins(t)[3]
  <2>1. CASE DoOverwritten(t)
    BY <2>1 DEF DoOverwritten
  <2>2. CASE DoStore(t)
    BY <2>2 DEF DoStore
  <2> QED  BY <2>1, <2>2
<1> DEFINE p == [Me(t) EXCEPT !.mem[Arg(t)] = w]
<1>4. ProcShape(p) /\ \A f \in ProcFields \ {"mem"} : p[f] = Me(t)[f]
  BY <1>2 DEF ProcShape, ProcFields
<1>5. \A v \in Vars : v # Arg(t) => p.mem[v] = Me(t).mem[v]
  BY <1>2 DEF ProcShape, ProcFields
<1>6. Arg(t) \in Vars => p.mem[Arg(t)] = w
  BY <1>2 DEF ProcShape, ProcFields
<1>7. \A v \in Flags : v \in Vars
  BY DEF Flags
<1> HIDE DEF p
<1>8. \A v \in Flags : \/ p.mem[v] = Me(t).mem[v]
                       \/ /\ Arg(t) = v
                          /\ \/ Op(t) \in {"add", "save", "garble"}
                             \/ Op(t) = "set" /\ p.mem[v] = Ins(t)[3]
  BY <1>3, <1>5, <1>6, <1>7
<1>9. Holds(t, p)
  BY <1>3 DEF p
<1> QED  BY <1>4, <1>8, <1>9, OneProcess DEF ProcFields

(* The alarm, the division, setsid and detach change one field of the      *)
(* process that the proofs do not look at.                                 *)
LEMMA FieldMoves ==
  ASSUME Shape, NEW t \in Tasks, task[t].of \in Tasks, task[t].st = "run",
         DoAlarm(t) \/ DoDivideByZero(t) \/ DoDetach(t)
  PROVE  Moves(t)
<1>1. Goes(t, On(t)) /\ Op(t) \notin Final \cup {"setjmp"} /\ Op(t) # "if"
  BY DEF DoAlarm, DoDivideByZero, DoDetach, Final
<1>2. ProcShape(Me(t))
  BY DEF Shape, Me
<1>3. PICK w : \/ Holds(t, [Me(t) EXCEPT !.clock = w])
               \/ Holds(t, [Me(t) EXCEPT !.pend = w])
               \/ Holds(t, [Me(t) EXCEPT !.sid = w])
               \/ Holds(t, [Me(t) EXCEPT !.fd = w])
  BY DEF DoAlarm, DoDivideByZero, DoDetach
<1> DEFINE Rest == ProcFields \ {"clock", "pend", "sid", "fd"}
<1>4. ASSUME NEW p, Holds(t, p),
             \/ p = [Me(t) EXCEPT !.clock = w] \/ p = [Me(t) EXCEPT !.pend = w]
             \/ p = [Me(t) EXCEPT !.sid = w] \/ p = [Me(t) EXCEPT !.fd = w]
      PROVE  Alike /\ Stored(t)
  <2>1. DOMAIN p = ProcFields /\ \A f \in Rest : p[f] = Me(t)[f]
    BY <1>2, <1>4 DEF ProcShape, ProcFields
  <2>2. ProcShape(p)
    BY <1>2, <2>1 DEF ProcShape, ProcFields
  <2> QED  BY <1>4, <2>1, <2>2, OneProcess DEF ProcFields
<1> QED  BY <1>1, <1>3, <1>4, MovesOn

(* The calls that only look at something, and those that failed.           *)
LEMMA LooksMoves ==
  ASSUME Shape, NEW t \in Tasks, task[t].st = "run", UNCHANGED proc,
         Op(t) \in {"load", "pending", "outlast", "join", "read", "fork", "exec", "thread", "wait"},
         Goes(t, On(t)) \/ \E r : Goes(t, Returns(t, r))
  PROVE  Moves(t)
<1>1. Op(t) \notin Final \cup {"setjmp"} /\ Op(t) # "if"
  BY DEF Final
<1> QED  BY <1>1, MovesOn, NoProcess

(* A branch goes to the block it names or to the next call.                *)
LEMMA BranchMoves ==
  ASSUME Shape, NEW t \in Tasks, task[t].st = "run", DoBranch(t)
  PROVE  Moves(t)
<1>1. Alike /\ Stored(t)
  BY NoProcess DEF DoBranch
<1>2. ASSUME NEW d, Goes(t, Jump(t, d)), d \in JumpTo(Ins(t))
      PROVE  Moves(t)
  <2>1. ThreadShape(task[t])
    BY DEF Shape
  <2>2. /\ DOMAIN Jump(t, d) = TaskFields /\ Jump(t, d).pc = <<d, 1>>
        /\ \A f \in TaskFields \ {"pc"} : Jump(t, d)[f] = task[t][f]
    BY <2>1 DEF Jump, ThreadShape, TaskFields
  <2>3. ThreadShape(Jump(t, d))
    BY <2>1, <2>2 DEF ThreadShape, IsPlace, TaskFields
  <2>4. Alone(t) /\ task'[t] = Jump(t, d)
    BY <1>2, Going DEF Alone
  <2> QED  BY <1>1, <1>2, <2>2, <2>3, <2>4 DEF Moves, Steady, GoesOn, TaskFields
<1>3. CASE Op(t) = "goto"
  <2>1. Goes(t, Jump(t, Arg(t))) /\ Arg(t) \in JumpTo(Ins(t))
    BY <1>3 DEF DoBranch, JumpTo, Op, Arg
  <2> QED  BY <2>1, <1>2
<1>4. CASE Op(t) = "if"
  <2>1. Ins(t)[4] \in JumpTo(Ins(t)) /\ Op(t) \notin Final \cup {"setjmp"}
    BY <1>4 DEF JumpTo, Op, Final
  <2>2. IF Value(t, Arg(t)) = Ins(t)[3] THEN Goes(t, Jump(t, Ins(t)[4])) ELSE Goes(t, On(t))
    BY <1>4 DEF DoBranch
  <2> QED  BY <1>1, <1>2, <2>1, <2>2, MovesOn
<1>5. CASE Op(t) \in {"ifsig", "same"}
  <2>1. Ins(t)[3] \in JumpTo(Ins(t)) /\ Op(t) \notin Final \cup {"setjmp"} /\ Op(t) # "if"
    BY <1>5 DEF JumpTo, Op, Final
  <2>2. Goes(t, Jump(t, Ins(t)[3])) \/ Goes(t, On(t))
    BY <1>5 DEF DoBranch
  <2> QED  BY <1>1, <1>2, <2>1, <2>2, MovesOn
<1>6. CASE Op(t) = "load"
  <2>1. Goes(t, Returns(t, Value(t, Arg(t)))) /\ UNCHANGED proc
    BY <1>6 DEF DoBranch
  <2> QED  BY <1>6, <2>1, LooksMoves
<1> QED  BY <1>3, <1>4, <1>5, <1>6 DEF DoBranch

(* A process is waited for: it is gone, and the status is kept.            *)
LEMMA WaitMoves ==
  ASSUME Shape, NEW t \in Tasks, task[t].of \in Tasks, task[t].st = "run", DoWait(t)
  PROVE  Moves(t)
<1>1. Op(t) = "wait" /\ Op(t) \notin Final \cup {"setjmp"}
  BY DEF DoWait, Final
<1>2. CASE Goes(t, Returns(t, -1)) /\ UNCHANGED proc
  BY <1>1, <1>2, LooksMoves
<1>3. CASE \E q \in Children(task[t].of) :
             /\ proc' = [proc EXCEPT ![q].st = "gone",
                                     ![task[t].of].mem["status"] = proc[q].status]
             /\ Goes(t, Returns(t, q))
  <2>1. PICK q \in Tasks :
             /\ proc' = [proc EXCEPT ![q].st = "gone",
                                     ![task[t].of].mem["status"] = proc[q].status]
             /\ Goes(t, Returns(t, q))
    BY <1>3 DEF Children
  <2>2. \A p \in Tasks : ProcShape(proc[p])
    BY DEF Shape
  <2>3. DOMAIN proc = Tasks
    BY DEF Shape
  <2>4. /\ DOMAIN proc' = Tasks
        /\ \A p \in Tasks : /\ DOMAIN proc'[p] = DOMAIN proc[p]
                            /\ \A f \in ProcFields \ {"st", "mem"} : proc'[p][f] = proc[p][f]
                            /\ DOMAIN proc'[p].mem = Vars
                            /\ \A v \in Vars \ {"status"} : proc'[p].mem[v] = proc[p].mem[v]
    BY <2>1, <2>2, <2>3 DEF ProcShape, ProcFields
  <2>5. \A p \in Tasks : ProcShape(proc'[p])
    BY <2>2, <2>4 DEF ProcShape, ProcFields
  <2>6. Alike
    BY <2>4, <2>5 DEF Alike, ProcFields
  <2>7. Stored(t)
    BY <2>4 DEF Stored, Flags
  <2> QED  BY <1>1, <2>1, <2>6, <2>7, MovesOn
<1> QED  BY <1>2, <1>3 DEF DoWait

(* A sleep ends, an answer comes.                                          *)
LEMMA WakeMoves ==
  ASSUME Shape, NEW t \in Tasks, UNCHANGED proc, Op(t) \in Waits,
         \E r : Goes(t, [Returns(t, r) EXCEPT !.st = "run"])
  PROVE  Moves(t)
<1>1. PICK r : Goes(t, [Returns(t, r) EXCEPT !.st = "run"])
  OBVIOUS
<1> DEFINE tk == [Returns(t, r) EXCEPT !.st = "run"]
<1>2. Alone(t) /\ task'[t] = tk
  BY <1>1, Going DEF Alone
<1>3. ThreadShape(task[t])
  BY DEF Shape
<1>4. /\ DOMAIN tk = TaskFields /\ tk.st = "run"
      /\ tk.pc = <<task[t].pc[1], task[t].pc[2] + 1>>
      /\ \A f \in TaskFields \ {"pc", "r", "st"} : tk[f] = task[t][f]
  BY OnTheNext DEF TaskFields
<1>5. ThreadShape(tk)
  BY <1>3, <1>4 DEF ThreadShape, IsPlace, TaskFields
<1>6. Op(t) \notin Final \cup {"setjmp"} /\ Op(t) # "if"
  BY DEF Waits, Final
<1> HIDE DEF tk
<1> QED  BY <1>2, <1>4, <1>5, <1>6, NoProcess DEF Moves, Steady, GoesOn, TaskFields

(* The other forms.  abort goes on with its signal unblocked.              *)
Next1(t) == task'[t].pc = <<task[t].pc[1], task[t].pc[2] + 1>> /\ Op(t) \notin Final
Aborts(t) ==
  /\ Op(t) = "abort" /\ Steady(t) /\ task'[t].mask = task[t].mask \ {"ABRT"}
  /\ Next1(t) /\ Alike /\ Stored(t)

(* sigprocmask: the mask in force is the one asked for.                    *)
Masks(t) ==
  /\ Op(t) \in Masking /\ Alone(t) /\ ThreadShape(task'[t]) /\ task'[t].st = "run"
  /\ task'[t].of = task[t].of /\ task'[t].frames = task[t].frames
  /\ task'[t].mask = task'[t].own /\ Next1(t) /\ Alike /\ Stored(t)

(* A call that waits stays where it is.                                    *)
Halts(t) ==
  /\ Op(t) \in Waits /\ Alone(t) /\ ThreadShape(task'[t])
  /\ task'[t].st \in {"pause", "sleep", "read", "suspend"}
  /\ \A f \in {"of", "pc", "own", "frames"} : task'[t][f] = task[t][f]
  /\ task'[t].st # "suspend" => task'[t].mask = task[t].mask
  /\ Alike /\ Stored(t)

(* The end of a handler: what it interrupted goes on.                      *)
Resumes(t) ==
  /\ Op(t) = "return" /\ Alone(t) /\ ThreadShape(task'[t]) /\ task'[t].st = "run"
  /\ task'[t].of = task[t].of /\ task'[t].own = task[t].own
  /\ task'[t].frames = Front(task[t].frames)
  /\ task'[t].pc = Last(task[t].frames).pc /\ task'[t].mask = Last(task[t].frames).mask
  /\ Alike /\ Stored(t)

(* kill and abort.                                                         *)
LEMMA KillMoves ==
  ASSUME Shape, NEW t \in Tasks, task[t].of \in Tasks, task[t].st = "run", DoKill(t)
  PROVE  Moves(t) \/ Aborts(t)
<1>1. Op(t) \notin Final \cup {"setjmp"} /\ Op(t) # "if"
  BY DEF DoKill, Final
<1>2. \A q \in Tasks : ProcShape(proc[q])
  BY DEF Shape
<1>3. ASSUME NEW w, Holds(t, [Me(t) EXCEPT !.pend = w])
      PROVE  Alike /\ Stored(t)
  <2> DEFINE p == [Me(t) EXCEPT !.pend = w]
  <2>1. ProcShape(Me(t))
    BY <1>2 DEF Me
  <2>2. DOMAIN p = ProcFields /\ \A f \in ProcFields \ {"pend"} : p[f] = Me(t)[f]
    BY <2>1 DEF ProcShape, ProcFields
  <2>3. ProcShape(p)
    BY <2>1, <2>2 DEF ProcShape, ProcFields
  <2> QED  BY <1>3, <2>2, <2>3, OneProcess DEF ProcFields
<1>4. CASE Op(t) = "kill"
  <2>1. (\E w : Holds(t, [Me(t) EXCEPT !.pend = w])) /\ Goes(t, On(t))
    BY <1>4 DEF DoKill
  <2> QED  BY <1>1, <1>3, <2>1, MovesOn
<1>5. CASE Op(t) = "killpid"
  <2>1. PICK q, w : proc' = [proc EXCEPT ![q].pend = w]
    BY <1>5 DEF DoKill
  <2>2. DOMAIN proc = Tasks
    BY DEF Shape
  <2>3. /\ DOMAIN proc' = Tasks
        /\ \A p \in Tasks : /\ DOMAIN proc'[p] = DOMAIN proc[p]
                            /\ \A f \in ProcFields \ {"pend"} : proc'[p][f] = proc[p][f]
    BY <1>2, <2>1, <2>2 DEF ProcShape, ProcFields
  <2>4. \A p \in Tasks : ProcShape(proc'[p])
    BY <1>2, <2>3 DEF ProcShape, ProcFields
  <2>5. Alike /\ Stored(t)
    BY <2>3, <2>4 DEF Alike, Stored, ProcFields
  <2>6. Goes(t, On(t))
    BY <1>5 DEF DoKill
  <2> QED  BY <1>1, <2>5, <2>6, MovesOn
<1>6. CASE Op(t) = "abort"
  <2>1. (\E w : Holds(t, [Me(t) EXCEPT !.pend = w])) /\ Goes(t, [On(t) EXCEPT !.mask = @ \ {"ABRT"}])
    BY <1>6 DEF DoKill
  <2> DEFINE tk == [On(t) EXCEPT !.mask = @ \ {"ABRT"}]
  <2>2. Alone(t) /\ task'[t] = tk
    BY <2>1, Going DEF Alone
  <2>3. ThreadShape(task[t])
    BY DEF Shape
  <2>4. /\ DOMAIN tk = TaskFields /\ tk.mask = task[t].mask \ {"ABRT"}
        /\ tk.pc = <<task[t].pc[1], task[t].pc[2] + 1>>
        /\ \A f \in TaskFields \ {"pc", "mask"} : tk[f] = task[t][f]
    BY OnTheNext DEF TaskFields
  <2>5. ThreadShape(tk)
    BY <2>3, <2>4 DEF ThreadShape, IsPlace, TaskFields
  <2> HIDE DEF tk
  <2>6. Alike /\ Stored(t)
    BY <1>3, <2>1
  <2> QED  BY <1>1, <1>6, <2>2, <2>4, <2>5, <2>6 DEF Aborts, Steady, Next1, TaskFields
<1> QED  BY <1>4, <1>5, <1>6 DEF DoKill

(* sigprocmask.                                                            *)
LEMMA SigmaskMasks ==
  ASSUME Shape, NEW t \in Tasks, task[t].st = "run", DoSigmask(t)
  PROVE  Masks(t)
<1>1. PICK m : Goes(t, [On(t) EXCEPT !.mask = m, !.own = m])
  BY DEF DoSigmask
<1> DEFINE tk == [On(t) EXCEPT !.mask = m, !.own = m]
<1>2. Alone(t) /\ task'[t] = tk
  BY <1>1, Going DEF Alone
<1>3. ThreadShape(task[t])
  BY DEF Shape
<1>4. /\ DOMAIN tk = TaskFields /\ tk.mask = m /\ tk.own = m
      /\ tk.pc = <<task[t].pc[1], task[t].pc[2] + 1>>
      /\ \A f \in TaskFields \ {"pc", "mask", "own"} : tk[f] = task[t][f]
  BY OnTheNext DEF TaskFields
<1> HIDE DEF tk
<1>5. ThreadShape(tk)
  BY <1>3, <1>4 DEF ThreadShape, IsPlace, TaskFields
<1>6. Op(t) \in Masking /\ Op(t) \notin Final /\ UNCHANGED proc
  BY DEF DoSigmask, Masking, Final
<1> QED  BY <1>2, <1>4, <1>5, <1>6, NoProcess DEF Masks, Next1, TaskFields

(* pause, sleep, sigsuspend and read; a read that fails at once goes on.   *)
LEMMA SleepHalts ==
  ASSUME Shape, NEW t \in Tasks, task[t].st = "run", DoSleep(t)
  PROVE  Halts(t) \/ Moves(t)
<1>1. Op(t) \in Waits /\ UNCHANGED proc
  BY DEF DoSleep, Waits
<1>2. ThreadShape(task[t])
  BY DEF Shape
<1>3. ASSUME NEW tk, Goes(t, tk), DOMAIN tk = TaskFields,
             tk.st \in {"pause", "sleep", "read", "suspend"},
             \A f \in {"of", "pc", "own", "frames"} : tk[f] = task[t][f],
             tk.st # "suspend" => tk.mask = task[t].mask
      PROVE  Halts(t)
  <2>1. Alone(t) /\ task'[t] = tk
    BY <1>3, Going DEF Alone
  <2>2. ThreadShape(tk)
    BY <1>2, <1>3 DEF ThreadShape, IsPlace, TaskFields
  <2> QED  BY <1>1, <1>3, <2>1, <2>2, NoProcess DEF Halts
<1>4. CASE Op(t) \in {"pause", "sleep"}
  <2> DEFINE tk == [task[t] EXCEPT !.st = Op(t)]
  <2>1. Goes(t, tk)
    BY <1>4 DEF DoSleep
  <2>2. /\ DOMAIN tk = TaskFields /\ tk.st \in {"pause", "sleep"}
        /\ \A f \in {"of", "pc", "own", "frames", "mask"} : tk[f] = task[t][f]
    BY <1>2, <1>4 DEF ThreadShape, TaskFields
  <2> HIDE DEF tk
  <2> QED  BY <1>3, <2>1, <2>2
<1>5. CASE Op(t) = "sigsuspend"
  <2> DEFINE tk == [task[t] EXCEPT !.st = "suspend", !.mask = Arg(t)]
  <2>1. Goes(t, tk)
    BY <1>5 DEF DoSleep
  <2>2. /\ DOMAIN tk = TaskFields /\ tk.st = "suspend"
        /\ \A f \in {"of", "pc", "own", "frames"} : tk[f] = task[t][f]
    BY <1>2 DEF ThreadShape, TaskFields
  <2> HIDE DEF tk
  <2> QED  BY <1>3, <2>1, <2>2
<1>6. CASE Op(t) = "read" /\ ~Lost(t)
  <2> DEFINE tk == [task[t] EXCEPT !.st = "read"]
  <2>1. Goes(t, tk)
    BY <1>6 DEF DoSleep
  <2>2. /\ DOMAIN tk = TaskFields /\ tk.st = "read"
        /\ \A f \in {"of", "pc", "own", "frames", "mask"} : tk[f] = task[t][f]
    BY <1>2 DEF ThreadShape, TaskFields
  <2> HIDE DEF tk
  <2> QED  BY <1>3, <2>1, <2>2
<1>7. CASE Op(t) = "read" /\ Lost(t)
  <2>1. Goes(t, Returns(t, -1))
    BY <1>7 DEF DoSleep
  <2> QED  BY <1>1, <1>7, <2>1, LooksMoves
<1> QED  BY <1>4, <1>5, <1>6, <1>7 DEF DoSleep

(* The end of a handler.                                                   *)
LEMMA ReturnResumes ==
  ASSUME Shape, NEW t \in Tasks, task[t].st = "run", task[t].frames # <<>>, DoReturn(t)
  PROVE  Resumes(t)
<1> DEFINE f == Last(task[t].frames)
           tk == [task[t] EXCEPT !.pc = f.pc, !.mask = f.mask, !.r = f.r, !.frames = Front(@)]
<1>1. Alone(t) /\ task'[t] = tk
  BY Going DEF DoReturn, Alone
<1>2. ThreadShape(task[t])
  BY DEF Shape
<1>3. /\ DOMAIN tk = TaskFields /\ tk.pc = f.pc /\ tk.mask = f.mask
      /\ tk.frames = Front(task[t].frames)
      /\ tk.st = "run" /\ tk.of = task[t].of /\ tk.own = task[t].own
  BY <1>2 DEF ThreadShape, TaskFields
<1> HIDE DEF tk
<1>4. ThreadShape(tk)
  <2>1. IsSeq(task[t].frames) /\ \A k \in DOMAIN task[t].frames : IsPlace(task[t].frames[k].pc)
    BY <1>2 DEF ThreadShape
  <2>2. DOMAIN task[t].frames = 1..Len(task[t].frames) /\ Len(task[t].frames) \in Nat
    BY <2>1 DEF IsSeq
  <2>3. /\ IsSeq(Front(task[t].frames)) /\ Len(task[t].frames) >= 1
        /\ DOMAIN Front(task[t].frames) = 1..(Len(task[t].frames) - 1)
        /\ \A k \in 1..(Len(task[t].frames) - 1) : Front(task[t].frames)[k] = task[t].frames[k]
        /\ f = task[t].frames[Len(task[t].frames)]
    BY <2>1, WithoutTop
  <2>4. Len(task[t].frames) \in DOMAIN task[t].frames
    BY <2>2, <2>3
  <2>5. \A k \in 1..(Len(task[t].frames) - 1) : k \in DOMAIN task[t].frames
    BY <2>2
  <2>6. IsPlace(f.pc)
    BY <2>1, <2>3, <2>4
  <2>7. \A k \in DOMAIN Front(task[t].frames) : IsPlace(Front(task[t].frames)[k].pc)
    BY <2>1, <2>3, <2>5
  <2>8. IsPlace(tk.pc) /\ DOMAIN tk = TaskFields
    BY <1>3, <2>6
  <2>9. IsSeq(tk.frames) /\ \A k \in DOMAIN tk.frames : IsPlace(tk.frames[k].pc)
    BY <1>3, <2>3, <2>7
  <2> QED  BY <2>8, <2>9 DEF ThreadShape
<1>5. Op(t) = "return" /\ UNCHANGED proc
  BY DEF DoReturn
<1> QED  BY <1>1, <1>3, <1>4, <1>5, NoProcess DEF Resumes

(* The process of t changes in what the proofs look at, the others do not. *)
OthersAlike(t) ==
  /\ DOMAIN proc' = Tasks
  /\ \A q \in Tasks : /\ ProcShape(proc'[q]) /\ proc'[q].prog = proc[q].prog
                      /\ \A v \in Flags : proc'[q].mem[v] = proc[q].mem[v]
                      /\ q # task[t].of => /\ proc'[q].act = proc[q].act /\ proc'[q].jmp = proc[q].jmp
                                           /\ proc'[q].exits = proc[q].exits

(* setjmp.                                                                 *)
Places(t) ==
  /\ Op(t) = "setjmp" /\ Steady(t) /\ task'[t].mask = task[t].mask /\ Next1(t) /\ OthersAlike(t)
  /\ Me(t)'.act = Me(t).act /\ Me(t)'.exits = Me(t).exits
  /\ \A b \in {1, 2} :
       IF b = Arg(t) THEN /\ Me(t)'.jmp[b].set /\ Me(t)'.jmp[b].pc = task'[t].pc
                          /\ Me(t)'.jmp[b].saved = Ins(t)[3] /\ Me(t)'.jmp[b].mask = task[t].mask
       ELSE Me(t)'.jmp[b] = Me(t).jmp[b]

(* longjmp.                                                                *)
Leaps(t) ==
  LET j == Me(t).jmp[Arg(t)] IN
  /\ Op(t) = "longjmp" /\ Alone(t) /\ ThreadShape(task'[t]) /\ task'[t].st = "run" /\ j.set
  /\ task'[t].of = task[t].of /\ task'[t].own = task[t].own /\ task'[t].frames = <<>>
  /\ task'[t].pc = j.pc /\ task'[t].mask = IF j.saved THEN j.mask ELSE task[t].mask
  /\ Alike /\ OthersAlike(t)

(* signal and sigaction, and the action that is read from a variable.      *)
Signs(t) ==
  /\ Op(t) \in {"signal", "sigaction", "resignal"}
  /\ Steady(t) /\ task'[t].mask = task[t].mask /\ Next1(t) /\ OthersAlike(t)
  /\ Me(t)'.jmp = Me(t).jmp /\ Me(t)'.exits = Me(t).exits
  /\ \A s \in Sigs : \/ Me(t)'.act[s] = Me(t).act[s]
                     \/ Op(t) = "resignal" \/ Me(t)'.act[s].h = Ins(t)[3]

(* atexit.                                                                 *)
Adds(t) ==
  /\ Op(t) = "atexit" /\ Steady(t) /\ task'[t].mask = task[t].mask /\ Next1(t) /\ OthersAlike(t)
  /\ Me(t)'.jmp = Me(t).jmp /\ Me(t)'.act = Me(t).act
  /\ Me(t)'.exits = Append(Me(t).exits, Arg(t))

(* exit calls the function that was registered last.                       *)
CallsBack(t) ==
  /\ Op(t) = "exit" /\ Alone(t) /\ ThreadShape(task'[t]) /\ task'[t].st = "run" /\ OthersAlike(t)
  /\ \A f \in {"of", "own", "mask"} : task'[t][f] = task[t][f]
  /\ Me(t).exits # <<>> /\ task'[t].pc = <<Last(Me(t).exits), 1>>
  /\ \E e : /\ task'[t].frames = Append(task[t].frames, e)
            /\ e.sig = "" /\ e.pc = task[t].pc /\ e.mask = task[t].mask
  /\ Me(t)'.jmp = Me(t).jmp /\ Me(t)'.act = Me(t).act
  /\ Me(t)'.exits = Front(Me(t).exits)

(* A step that gives the process of t another record.                      *)
LEMMA OneChanged ==
  ASSUME Shape, NEW t \in Tasks, task[t].of \in Tasks, NEW p, Holds(t, p), ProcShape(p),
         p.prog = Me(t).prog, \A v \in Flags : p.mem[v] = Me(t).mem[v],
         task'[t].of = task[t].of
  PROVE  OthersAlike(t) /\ Me(t)' = p
<1>1. /\ DOMAIN proc' = Tasks /\ proc'[task[t].of] = p
      /\ \A q \in Tasks : q # task[t].of => proc'[q] = proc[q]
  BY Holding
<1>2. \A q \in Tasks : ProcShape(proc[q])
  BY DEF Shape
<1>3. OthersAlike(t)
  BY <1>1, <1>2 DEF OthersAlike, Me
<1> QED  BY <1>1, <1>3 DEF Me

(* A step to the next call of the block, whatever it does to the process.  *)
LEMMA StepsOn ==
  ASSUME Shape, NEW t \in Tasks, task[t].st = "run", Op(t) \notin Final,
         Goes(t, On(t)) \/ \E r : Goes(t, Returns(t, r))
  PROVE  Steady(t) /\ task'[t].mask = task[t].mask /\ Next1(t)
<1>1. ThreadShape(task[t])
  BY DEF Shape
<1>2. CASE Goes(t, On(t))
  <2>1. Alone(t) /\ task'[t] = On(t)
    BY <1>2, Going DEF Alone
  <2>2. ThreadShape(On(t))
    BY <1>1, OnTheNext DEF ThreadShape, IsPlace, TaskFields
  <2> QED  BY <2>1, <2>2, OnTheNext DEF Steady, Next1, TaskFields
<1>3. ASSUME NEW r, Goes(t, Returns(t, r))
      PROVE  Steady(t) /\ task'[t].mask = task[t].mask /\ Next1(t)
  <2>1. Alone(t) /\ task'[t] = Returns(t, r)
    BY <1>3, Going DEF Alone
  <2>2. ThreadShape(Returns(t, r))
    BY <1>1, OnTheNext DEF ThreadShape, IsPlace, TaskFields
  <2> QED  BY <2>1, <2>2, OnTheNext DEF Steady, Next1, TaskFields
<1> QED  BY <1>2, <1>3

(* setjmp.                                                                 *)
LEMMA SetjmpPlaces ==
  ASSUME Shape, NEW t \in Tasks, task[t].of \in Tasks, task[t].st = "run", DoSetjmp(t)
  PROVE  Places(t)
<1> DEFINE j == [set |-> TRUE, pc |-> On(t).pc, saved |-> Ins(t)[3], mask |-> task[t].mask,
                 mem |-> Me(t).mem]
           p == [Me(t) EXCEPT !.jmp[Arg(t)] = j]
<1>1. Holds(t, p) /\ Goes(t, Returns(t, 0)) /\ Op(t) = "setjmp" /\ Op(t) \notin Final
  BY DEF DoSetjmp, Final
<1>2. Steady(t) /\ task'[t].mask = task[t].mask /\ Next1(t)
  BY <1>1, StepsOn
<1>3. ProcShape(Me(t))
  BY DEF Shape, Me
<1>4. /\ DOMAIN p = ProcFields /\ DOMAIN p.jmp = {1, 2}
      /\ \A f \in ProcFields \ {"jmp"} : p[f] = Me(t)[f]
      /\ \A b \in {1, 2} : p.jmp[b] = IF b = Arg(t) THEN j ELSE Me(t).jmp[b]
  BY <1>3 DEF ProcShape, ProcFields
<1>5. j.set /\ j.pc = task'[t].pc /\ j.saved = Ins(t)[3] /\ j.mask = task[t].mask /\ IsPlace(j.pc)
  BY <1>2, OnTheNext DEF Next1, IsPlace
<1> HIDE DEF j, p
<1>6. ProcShape(p)
  BY <1>3, <1>4, <1>5 DEF ProcShape, ProcFields
<1>7. OthersAlike(t) /\ Me(t)' = p
  BY <1>1, <1>2, <1>4, <1>6, OneChanged DEF Steady, ProcFields
<1> QED  BY <1>1, <1>2, <1>4, <1>5, <1>7 DEF Places, ProcFields

(* longjmp: x and y are no flags.                                          *)
LEMMA LongjmpLeaps ==
  ASSUME Shape, NEW t \in Tasks, task[t].of \in Tasks, task[t].st = "run", Arg(t) \in {1, 2}, DoLongjmp(t)
  PROVE  Leaps(t)
<1> DEFINE j == Me(t).jmp[Arg(t)]
           tk == [task[t] EXCEPT !.pc = j.pc, !.r = Ins(t)[3], !.frames = <<>>,
                                 !.mask = IF j.saved THEN j.mask ELSE @]
<1>1. Op(t) = "longjmp" /\ j.set /\ Goes(t, tk)
  BY DEF DoLongjmp
<1>2. Alone(t) /\ task'[t] = tk
  BY <1>1, Going DEF Alone
<1>3. ThreadShape(task[t]) /\ ProcShape(Me(t))
  BY DEF Shape, Me
<1>4. /\ DOMAIN tk = TaskFields /\ tk.pc = j.pc /\ tk.frames = <<>>
      /\ tk.mask = (IF j.saved THEN j.mask ELSE task[t].mask)
      /\ tk.st = "run" /\ tk.of = task[t].of /\ tk.own = task[t].own
  BY <1>3 DEF ThreadShape, TaskFields
<1>5. IsPlace(j.pc)
  BY <1>1, <1>3 DEF ProcShape
<1> HIDE DEF tk
<1>6. ThreadShape(tk)
  BY <1>4, <1>5, EmptyIsSeq DEF ThreadShape
<1>7. PICK v, w : Holds(t, [Me(t) EXCEPT !.mem["x"] = v, !.mem["y"] = w])
  BY DEF DoLongjmp
<1> DEFINE p == [Me(t) EXCEPT !.mem["x"] = v, !.mem["y"] = w]
<1>8. /\ DOMAIN p = ProcFields /\ DOMAIN p.mem = Vars
      /\ \A f \in ProcFields \ {"mem"} : p[f] = Me(t)[f]
      /\ \A z \in Flags : p.mem[z] = Me(t).mem[z]
  BY <1>3 DEF ProcShape, ProcFields, Flags
<1> HIDE DEF p
<1>9. ProcShape(p)
  BY <1>3, <1>8 DEF ProcShape, ProcFields
<1>10. Holds(t, p)
  BY <1>7 DEF p
<1>11. OthersAlike(t) /\ Me(t)' = p
  BY <1>2, <1>4, <1>8, <1>9, <1>10, OneChanged DEF ProcFields
<1>12. Alike
  BY <1>8, <1>9, <1>10, OneProcess DEF ProcFields
<1> QED  BY <1>1, <1>2, <1>4, <1>6, <1>11, <1>12 DEF Leaps

(* signal, sigaction and the action read from a variable.                  *)
LEMMA SignalSigns ==
  ASSUME Shape, NEW t \in Tasks, task[t].of \in Tasks, task[t].st = "run", DoSignal(t)
  PROVE  Signs(t)
<1>1. Op(t) \in {"signal", "sigaction", "resignal"} /\ Op(t) \notin Final
  BY DEF DoSignal, Final
<1>2. PICK a : /\ Holds(t, [Me(t) EXCEPT !.act[Arg(t)] = a])
               /\ Op(t) = "resignal" \/ a.h = Ins(t)[3]
  <2>1. CASE Op(t) = "signal"
    <3> DEFINE a == [h |-> Ins(t)[3], mask |-> {}, flags |-> {"RESTART"}]
    <3>1. Holds(t, [Me(t) EXCEPT !.act[Arg(t)] = a]) /\ a.h = Ins(t)[3]
      BY <2>1 DEF DoSignal
    <3> HIDE DEF a
    <3> QED  BY <3>1
  <2>2. CASE Op(t) = "resignal"
    BY <2>2 DEF DoSignal
  <2>3. CASE Op(t) = "sigaction"
    <3>1. PICK m, f : Holds(t, [Me(t) EXCEPT !.act[Arg(t)] = [h |-> Ins(t)[3], mask |-> m, flags |-> f]])
      BY <2>3 DEF DoSignal
    <3> DEFINE a == [h |-> Ins(t)[3], mask |-> m, flags |-> f]
    <3>2. Holds(t, [Me(t) EXCEPT !.act[Arg(t)] = a]) /\ a.h = Ins(t)[3]
      BY <3>1
    <3> HIDE DEF a
    <3> QED  BY <3>2
  <2> QED  BY <1>1, <2>1, <2>2, <2>3
<1>3. Goes(t, On(t)) \/ \E r : Goes(t, Returns(t, r))
  BY DEF DoSignal
<1>4. Steady(t) /\ task'[t].mask = task[t].mask /\ Next1(t)
  BY <1>1, <1>3, StepsOn
<1> DEFINE p == [Me(t) EXCEPT !.act[Arg(t)] = a]
<1>5. ProcShape(Me(t))
  BY DEF Shape, Me
<1>6. /\ DOMAIN p = ProcFields /\ DOMAIN p.act = Sigs
      /\ \A f \in ProcFields \ {"act"} : p[f] = Me(t)[f]
      /\ \A s \in Sigs : p.act[s] = IF s = Arg(t) THEN a ELSE Me(t).act[s]
  BY <1>5 DEF ProcShape, ProcFields
<1>7. Holds(t, p)
  BY <1>2
<1> HIDE DEF p
<1>8. ProcShape(p)
  BY <1>5, <1>6 DEF ProcShape, ProcFields
<1>9. OthersAlike(t) /\ Me(t)' = p
  BY <1>4, <1>6, <1>7, <1>8, OneChanged DEF Steady, ProcFields
<1>10. \A s \in Sigs : p.act[s] = Me(t).act[s] \/ Op(t) = "resignal" \/ p.act[s].h = Ins(t)[3]
  BY <1>2, <1>6
<1> QED  BY <1>1, <1>4, <1>6, <1>9, <1>10 DEF Signs, ProcFields

(* atexit.                                                                 *)
LEMMA AtexitAdds ==
  ASSUME Shape, NEW t \in Tasks, task[t].of \in Tasks, task[t].st = "run", DoAtexit(t)
  PROVE  Adds(t)
<1> DEFINE p == [Me(t) EXCEPT !.exits = Append(@, Arg(t))]
<1>1. Op(t) = "atexit" /\ Op(t) \notin Final /\ Holds(t, p) /\ Goes(t, On(t))
  BY DEF DoAtexit, Final
<1>2. Steady(t) /\ task'[t].mask = task[t].mask /\ Next1(t)
  BY <1>1, StepsOn
<1>3. ProcShape(Me(t))
  BY DEF Shape, Me
<1>4. /\ DOMAIN p = ProcFields /\ p.exits = Append(Me(t).exits, Arg(t))
      /\ \A f \in ProcFields \ {"exits"} : p[f] = Me(t)[f]
  BY <1>3 DEF ProcShape, ProcFields
<1> HIDE DEF p
<1>5. IsSeq(Append(Me(t).exits, Arg(t)))
  BY <1>3, OnTop DEF ProcShape
<1>6. ProcShape(p)
  BY <1>3, <1>4, <1>5 DEF ProcShape, ProcFields
<1>7. OthersAlike(t) /\ Me(t)' = p
  BY <1>1, <1>2, <1>4, <1>6, OneChanged DEF Steady, ProcFields
<1> QED  BY <1>1, <1>2, <1>4, <1>7 DEF Adds, ProcFields

(* What a handler, or a function registered with atexit, puts on the stack. *)
LEMMA Pushing ==
  ASSUME Shape, NEW t \in Tasks, NEW tk, NEW e, DOMAIN tk = TaskFields, IsPlace(tk.pc), IsPlace(e.pc),
         tk.frames = Append(task[t].frames, e)
  PROVE  ThreadShape(tk)
<1> DEFINE f == task[t].frames
<1>1. IsSeq(f) /\ \A k \in DOMAIN f : IsPlace(f[k].pc)
  BY DEF Shape, ThreadShape
<1>2. /\ IsSeq(Append(f, e)) /\ DOMAIN Append(f, e) = 1..(Len(f) + 1)
      /\ \A k \in 1..Len(f) : Append(f, e)[k] = f[k]
      /\ Append(f, e)[Len(f) + 1] = e
  BY <1>1, OnTop
<1>3. DOMAIN f = 1..Len(f) /\ Len(f) \in Nat
  BY <1>1 DEF IsSeq
<1>4. \A k \in 1..(Len(f) + 1) : k \in 1..Len(f) \/ k = Len(f) + 1
  BY <1>3
<1>5. \A k \in DOMAIN Append(f, e) : IsPlace(Append(f, e)[k].pc)
  BY <1>1, <1>2, <1>3, <1>4
<1>6. IsSeq(tk.frames) /\ \A k \in DOMAIN tk.frames : IsPlace(tk.frames[k].pc)
  BY <1>2, <1>5
<1> QED  BY <1>6 DEF ThreadShape

(* exit with a function left to call.                                      *)
LEMMA ExitCallsBack ==
  ASSUME Shape, NEW t \in Tasks, task[t].of \in Tasks, task[t].st = "run",
         Op(t) = "exit", Me(t).exits # <<>>, Holds(t, [Me(t) EXCEPT !.exits = Front(@)]),
         Goes(t, [task[t] EXCEPT !.pc = <<Last(Me(t).exits), 1>>,
           !.frames = Append(@, [sig |-> "", pc |-> task[t].pc, r |-> 0, mask |-> task[t].mask])])
  PROVE  CallsBack(t)
<1> DEFINE e == [sig |-> "", pc |-> task[t].pc, r |-> 0, mask |-> task[t].mask]
           tk == [task[t] EXCEPT !.pc = <<Last(Me(t).exits), 1>>, !.frames = Append(@, e)]
           p == [Me(t) EXCEPT !.exits = Front(@)]
<1>1. Alone(t) /\ task'[t] = tk
  BY Going DEF Alone
<1>2. ThreadShape(task[t]) /\ ProcShape(Me(t))
  BY DEF Shape, Me
<1>3. /\ DOMAIN tk = TaskFields /\ tk.pc = <<Last(Me(t).exits), 1>>
      /\ tk.frames = Append(task[t].frames, e)
      /\ \A f \in TaskFields \ {"pc", "frames"} : tk[f] = task[t][f]
  BY <1>2 DEF ThreadShape, TaskFields
<1>4. e.sig = "" /\ e.pc = task[t].pc /\ e.mask = task[t].mask
  OBVIOUS
<1>5. /\ DOMAIN p = ProcFields /\ p.exits = Front(Me(t).exits)
      /\ \A f \in ProcFields \ {"exits"} : p[f] = Me(t)[f]
  BY <1>2 DEF ProcShape, ProcFields
<1>6. Holds(t, p)
  OBVIOUS
<1> HIDE DEF e, tk, p
<1>7. IsPlace(tk.pc) /\ IsPlace(e.pc)
  <2>1. IsPlace(<<Last(Me(t).exits), 1>>)
    BY DEF IsPlace
  <2> QED  BY <1>2, <1>3, <1>4, <2>1 DEF ThreadShape
<1>8. ThreadShape(tk)
  BY <1>3, <1>7, Pushing
<1>9. IsSeq(Front(Me(t).exits))
  BY <1>2, WithoutTop DEF ProcShape
<1>10. ProcShape(p)
  BY <1>2, <1>5, <1>9 DEF ProcShape, ProcFields
<1>11. OthersAlike(t) /\ Me(t)' = p
  BY <1>1, <1>3, <1>5, <1>6, <1>10, OneChanged DEF ProcFields, TaskFields
<1>12. \E x : /\ task'[t].frames = Append(task[t].frames, x)
              /\ x.sig = "" /\ x.pc = task[t].pc /\ x.mask = task[t].mask
  BY <1>1, <1>3, <1>4
<1> QED  BY <1>1, <1>3, <1>5, <1>8, <1>11, <1>12 DEF CallsBack, ProcFields, TaskFields

(* A handler is called on top of what it interrupts.                       *)
Interrupts(t, s) ==
  /\ Me(t).act[s].h \in DOMAIN Code[Me(t).prog]
  /\ Alone(t) /\ ThreadShape(task'[t]) /\ task'[t].st = "run" /\ OthersAlike(t)
  /\ task'[t].of = task[t].of /\ task'[t].own = task[t].own
  /\ task'[t].pc = <<Me(t).act[s].h, 1>>
  /\ \E e : /\ task'[t].frames = Append(task[t].frames, e)
            /\ e.sig = s
            /\ \/ e.pc = task[t].pc
               \/ task[t].st # "run" /\ e.pc = <<task[t].pc[1], task[t].pc[2] + 1>>
            /\ e.mask = IF task[t].st = "suspend" THEN task[t].own ELSE task[t].mask
  /\ Me(t)'.jmp = Me(t).jmp /\ Me(t)'.exits = Me(t).exits
  /\ \A z \in Sigs : Me(t)'.act[z] = Me(t).act[z] \/ Me(t)'.act[z].h = "DFL"

(* Threads end: t alone, or all of its process.                            *)
Finishes(t) ==
  /\ DOMAIN task' = Tasks /\ task'[t].st = "gone"
  /\ \A u \in Tasks : \/ task'[u] = task[u]
                      \/ /\ task'[u].st = "gone" /\ task'[u].of = task[u].of /\ task[u].of = task[t].of
                         /\ ThreadShape(task'[u])
  /\ Alike /\ OthersAlike(t)

(* Nothing happens to the threads.                                         *)
Idles == task' = task /\ Alike /\ \A q \in Tasks, v \in Flags : proc'[q].mem[v] = proc[q].mem[v]

(* The end of a process.                                                   *)
LEMMA DiesFinishes ==
  ASSUME Shape, NEW t \in Tasks, task[t].of \in Tasks, NEW status, Dies(task[t].of, status)
  PROVE  Finishes(t)
<1>1. \A u \in Tasks : ThreadShape(task[u]) /\ ProcShape(proc[u])
  BY DEF Shape
<1>2. DOMAIN task' = Tasks /\ DOMAIN proc' = Tasks
  BY DEF Dies
<1>3. ASSUME NEW u \in Tasks, task[u].of = task[t].of
      PROVE  task'[u].st = "gone" /\ task'[u].of = task[u].of /\ ThreadShape(task'[u])
  <2>1. task'[u] = [task[u] EXCEPT !.st = "gone"]
    BY <1>3 DEF Dies
  <2>2. DOMAIN task'[u] = TaskFields /\ \A f \in TaskFields \ {"st"} : task'[u][f] = task[u][f]
    BY <1>1, <2>1 DEF ThreadShape, TaskFields
  <2>3. task'[u].st = "gone"
    BY <1>1, <2>1 DEF ThreadShape, TaskFields
  <2> QED  BY <1>1, <2>2, <2>3 DEF ThreadShape, TaskFields
<1>4. \A u \in Tasks : task[u].of # task[t].of => task'[u] = task[u]
  BY DEF Dies
<1>5. ASSUME NEW q \in Tasks
      PROVE  /\ DOMAIN proc'[q] = ProcFields
             /\ \A f \in ProcFields \ {"parent", "st", "status", "stopped", "pend", "clock", "buf"} :
                  proc'[q][f] = proc[q][f]
  <2>1. \/ proc'[q] = proc[q]
        \/ \E a, b, c, d : proc'[q] = [proc[q] EXCEPT !.parent = a, !.st = b, !.pend = c, !.stopped = d]
        \/ \E a : proc'[q] = [proc[q] EXCEPT !.status = status, !.pend = {}, !.clock = FALSE,
                                             !.buf = <<>>, !.st = a]
    <3>1. CASE q = task[t].of
      <4>1. \E a : proc'[q] = [proc[q] EXCEPT !.status = status, !.pend = {}, !.clock = FALSE,
                                              !.buf = <<>>, !.st = a]
        BY <3>1 DEF Dies
      <4> QED  BY <4>1
    <3>2. CASE q # task[t].of
      <4>1. CASE proc[q].parent = task[t].of /\ proc[q].st # "unborn"
        <5>1. \E a, b, c, d : proc'[q] = [proc[q] EXCEPT !.parent = a, !.st = b, !.pend = c, !.stopped = d]
          BY <3>2, <4>1 DEF Dies
        <5> QED  BY <5>1
      <4>2. CASE ~(proc[q].parent = task[t].of /\ proc[q].st # "unborn")
        <5>1. proc'[q] = proc[q]
          BY <3>2, <4>2 DEF Dies
        <5> QED  BY <5>1
      <4> QED  BY <4>1, <4>2
    <3> QED  BY <3>1, <3>2
  <2>2. DOMAIN proc[q] = ProcFields
    BY <1>1 DEF ProcShape
  <2>3. CASE \E a, b, c, d : proc'[q] = [proc[q] EXCEPT !.parent = a, !.st = b, !.pend = c, !.stopped = d]
    BY <2>2, <2>3 DEF ProcFields
  <2>4. CASE \E a : proc'[q] = [proc[q] EXCEPT !.status = status, !.pend = {}, !.clock = FALSE,
                                             !.buf = <<>>, !.st = a]
    BY <2>2, <2>4 DEF ProcFields
  <2> QED  BY <2>1, <2>2, <2>3, <2>4
<1>6. \A q \in Tasks : ProcShape(proc'[q])
  BY <1>1, <1>5 DEF ProcShape, ProcFields
<1>7. Alike /\ OthersAlike(t)
  BY <1>2, <1>5, <1>6 DEF Alike, OthersAlike, ProcFields
<1>8. \A u \in Tasks : \/ task'[u] = task[u]
                      \/ /\ task'[u].st = "gone" /\ task'[u].of = task[u].of /\ task[u].of = task[t].of
                         /\ ThreadShape(task'[u])
  BY <1>3, <1>4
<1>9. task'[t].st = "gone"
  BY <1>3
<1> QED  BY <1>2, <1>7, <1>8, <1>9 DEF Finishes

(* fork makes thread n, the first of a process with the memory of t's.     *)
Copied(t, n) ==
  /\ task'[n].st = "run" /\ ThreadShape(task'[n])
  /\ \A f \in {"pc", "mask", "own", "frames"} : task'[n][f] = task'[t][f]
Forks(t, n) ==
  /\ Op(t) = "fork" /\ n \in Tasks /\ ~Born(n)
  /\ DOMAIN task' = Tasks /\ \A u \in Tasks : u # t /\ u # n => task'[u] = task[u]
  /\ ThreadShape(task'[t]) /\ task'[t].st = "run" /\ Next1(t)
  /\ \A f \in {"of", "mask", "own", "frames"} : task'[t][f] = task[t][f]
  /\ Copied(t, n) /\ task'[n].of = n /\ task'[n].r = 0
  /\ DOMAIN proc' = Tasks /\ \A q \in Tasks : q # n => proc'[q] = proc[q]
  /\ ProcShape(proc'[n]) /\ proc'[n].n = 0
  /\ \A f \in {"prog", "act", "jmp", "exits", "mem", "buf", "fd"} : proc'[n][f] = Me(t)[f]

(* pthread_create makes thread n of the same process.                      *)
Creates(t, n) ==
  /\ Op(t) = "thread" /\ n \in Tasks /\ ~Born(n)
  /\ DOMAIN task' = Tasks /\ \A u \in Tasks : u # t /\ u # n => task'[u] = task[u]
  /\ ThreadShape(task'[t]) /\ task'[t].st = "run" /\ Next1(t)
  /\ \A f \in {"of", "mask", "own", "frames"} : task'[t][f] = task[t][f]
  /\ ThreadShape(task'[n]) /\ task'[n].st = "run" /\ task'[n].of = task[t].of
  /\ task'[n].pc = <<Arg(t), 1>> /\ task'[n].frames = <<>>
  /\ task'[n].mask = {} /\ task'[n].own = {}
  /\ proc' = proc

(* exec begins another program in the same process.                        *)
Begins(t) ==
  /\ Op(t) = "exec" /\ Alone(t) /\ ThreadShape(task'[t]) /\ task'[t].st = "run"
  /\ \A f \in {"of", "mask", "own"} : task'[t][f] = task[t][f]
  /\ task'[t].pc = <<"main", 1>> /\ task'[t].frames = <<>>
  /\ DOMAIN proc' = Tasks /\ \A q \in Tasks : q # task[t].of => proc'[q] = proc[q]
  /\ ProcShape(Me(t)') /\ Me(t)'.prog = Arg(t) /\ Me(t)'.exits = <<>> /\ Me(t)'.buf = <<>>
  /\ \A s \in Sigs : Me(t)'.act[s].h = "DFL"
  /\ \A b \in {1, 2} : ~Me(t)'.jmp[b].set
  /\ \A v \in Flags : Me(t)'.mem[v] = 0

(* The new task is one that was not used.                                  *)
LEMMA NewIsFree ==
  ASSUME Free # {}
  PROVE  New \in Tasks /\ ~Born(New)
<1>1. Free \subseteq Nat /\ Free \subseteq Tasks
  BY TasksAssumption DEF Free
<1>2. PICK n \in Free : \A u \in Free : ~(<<u, n>> \in OpToRel(<, Nat))
  BY <1>1, WFMin, NatLessThanWellFounded
<1>3. \A u \in Free : ~(u < n)
  BY <1>1, <1>2 DEF OpToRel
<1>4. n \in Free /\ \A u \in Free : n <= u
  BY <1>1, <1>3
<1>5. New \in Free
  BY <1>4 DEF New
<1> QED  BY <1>1, <1>5 DEF Free, Born

(* The record of a program at its start.                                   *)
LEMMA ProgramAtStart ==
  ASSUME NEW p, NEW parent, NEW st
  PROVE  /\ ProcShape(Program(p, parent, st)) /\ Program(p, parent, st).prog = p
         /\ Program(p, parent, st).exits = <<>> /\ Program(p, parent, st).buf = <<>>
         /\ Program(p, parent, st).n = 0
         /\ \A s \in Sigs : Program(p, parent, st).act[s].h = "DFL"
         /\ \A b \in {1, 2} : ~Program(p, parent, st).jmp[b].set
         /\ \A v \in Flags : Program(p, parent, st).mem[v] = 0
<1> DEFINE q == Program(p, parent, st)
<1>1. /\ DOMAIN q = ProcFields /\ q.prog = p /\ q.exits = <<>> /\ q.buf = <<>> /\ q.n = 0
      /\ q.act = [s \in Sigs |-> Default] /\ q.jmp = [b \in {1, 2} |-> NoJump]
      /\ q.mem = [v \in Vars |-> IF v = "func" THEN "DFL" ELSE 0]
  BY DEF Program, ProcFields
<1> HIDE DEF q
<1>2. /\ DOMAIN q.act = Sigs /\ \A s \in Sigs : q.act[s].h = "DFL"
  BY <1>1 DEF Default
<1>3. DOMAIN q.jmp = {1, 2} /\ \A b \in {1, 2} : ~q.jmp[b].set
  BY <1>1 DEF NoJump
<1>4. DOMAIN q.mem = Vars /\ \A v \in Flags : q.mem[v] = 0
  BY <1>1 DEF Flags, Vars
<1>5. ProcShape(q)
  BY <1>1, <1>2, <1>3, <1>4, EmptyIsSeq DEF ProcShape
<1> QED  BY <1>1, <1>2, <1>3, <1>4, <1>5 DEF q

(* The record of a thread at its start.                                    *)
LEMMA ThreadAtStart ==
  ASSUME NEW p, NEW block, NEW arg
  PROVE  /\ ThreadShape(Thread(p, block, arg)) /\ Thread(p, block, arg).st = "run"
         /\ Thread(p, block, arg).of = p /\ Thread(p, block, arg).pc = <<block, 1>>
         /\ Thread(p, block, arg).mask = {} /\ Thread(p, block, arg).own = {}
         /\ Thread(p, block, arg).frames = <<>>
<1> DEFINE tk == Thread(p, block, arg)
<1>1. /\ DOMAIN tk = TaskFields /\ tk.st = "run" /\ tk.of = p /\ tk.pc = <<block, 1>>
      /\ tk.mask = {} /\ tk.own = {} /\ tk.frames = <<>>
  BY DEF Thread, TaskFields
<1> HIDE DEF tk
<1>2. IsPlace(tk.pc)
  BY <1>1 DEF IsPlace
<1>3. ThreadShape(tk)
  BY <1>1, <1>2, EmptyIsSeq DEF ThreadShape
<1> QED  BY <1>1, <1>3 DEF tk

(* A signal with a handler calls it; another changes no thread or ends     *)
(* the process.                                                            *)
LEMMA DeliverForms ==
  ASSUME Shape, NEW t \in Tasks, NEW s \in Sigs, task[t].of \in Tasks, Deliver(t, s)
  PROVE  Interrupts(t, s) \/ Finishes(t) \/ Idles
<1> DEFINE p == Me(t)
           a == p.act[s]
           rest == [p EXCEPT !.pend = @ \ {s}]
<1>1. ThreadShape(task[t]) /\ ProcShape(p)
  BY DEF Shape, Me
<1>2. /\ DOMAIN rest = ProcFields
      /\ \A f \in ProcFields \ {"pend"} : rest[f] = p[f]
  BY <1>1 DEF ProcShape, ProcFields
<1>3. ASSUME NEW w, Holds(t, w), UNCHANGED task, DOMAIN w = ProcFields,
             \A f \in ProcFields \ {"pend", "stopped"} : w[f] = p[f]
      PROVE  Idles
  <2>1. ProcShape(w)
    BY <1>1, <1>3 DEF ProcShape, ProcFields
  <2>2. Alike
    BY <1>3, <2>1, OneProcess DEF ProcFields
  <2>3. OthersAlike(t)
    BY <1>3, <2>1, OneChanged DEF ProcFields
  <2> QED  BY <1>3, <2>2, <2>3 DEF Idles, OthersAlike
<1>4. CASE a.h = "IGN" /\ Holds(t, rest) /\ UNCHANGED task
  <2> HIDE DEF rest
  <2> QED  BY <1>2, <1>3, <1>4
<1>5. CASE Dies(task[t].of, Number[s])
  BY <1>5, DiesFinishes
<1>6. CASE Holds(t, [rest EXCEPT !.stopped = ~Lost(t)]) /\ UNCHANGED task
  <2> DEFINE w == [rest EXCEPT !.stopped = ~Lost(t)]
  <2>1. /\ DOMAIN w = ProcFields
        /\ \A f \in ProcFields \ {"pend", "stopped"} : w[f] = p[f]
    BY <1>2 DEF ProcFields
  <2>2. Holds(t, w)
    BY <1>6
  <2> HIDE DEF w
  <2> QED  BY <1>3, <1>6, <2>1, <2>2
<1>7. CASE /\ a.h \in DOMAIN Code[p.prog]
           /\ Holds(t, [rest EXCEPT !.act[s] = IF "RESETHAND" \in a.flags THEN Default ELSE @])
           /\ LET c == Context(t, a.flags)
              IN Goes(t, [task[t] EXCEPT
                   !.st = "run", !.pc = <<a.h, 1>>,
                   !.mask = @ \cup a.mask \cup
                              (IF "NODEFER" \in a.flags THEN {} ELSE {s}),
                   !.frames = Append(@, [sig |-> s, pc |-> c.pc, r |-> c.r, mask |-> c.mask])])
  <2> DEFINE c == Context(t, a.flags)
             e == [sig |-> s, pc |-> c.pc, r |-> c.r, mask |-> c.mask]
  <2>1. PICK m : Goes(t, [task[t] EXCEPT !.st = "run", !.pc = <<a.h, 1>>, !.mask = m, !.frames = Append(@, e)])
    BY <1>7
  <2> DEFINE tk == [task[t] EXCEPT !.st = "run", !.pc = <<a.h, 1>>, !.mask = m, !.frames = Append(@, e)]
             w == [rest EXCEPT !.act[s] = IF "RESETHAND" \in a.flags THEN Default ELSE @]
  <2>2. Alone(t) /\ task'[t] = tk
    BY <2>1, Going DEF Alone
  <2>3. /\ DOMAIN tk = TaskFields /\ tk.st = "run" /\ tk.pc = <<a.h, 1>>
        /\ tk.frames = Append(task[t].frames, e)
        /\ tk.of = task[t].of /\ tk.own = task[t].own
    BY <1>1 DEF ThreadShape, TaskFields
  <2>4. /\ e.sig = s
        /\ e.pc = task[t].pc \/ (task[t].st # "run" /\ e.pc = On(t).pc)
        /\ e.mask = IF task[t].st = "suspend" THEN task[t].own ELSE task[t].mask
    BY DEF Context
  <2>5. On(t).pc = <<task[t].pc[1], task[t].pc[2] + 1>>
    BY OnTheNext
  <2>6. /\ DOMAIN w = ProcFields /\ DOMAIN w.act = Sigs
        /\ \A f \in ProcFields \ {"pend", "act"} : w[f] = p[f]
        /\ \A z \in Sigs : w.act[z] = p.act[z] \/ w.act[z].h = "DFL"
    BY <1>1, <1>2 DEF ProcShape, ProcFields, Default
  <2>7. Holds(t, w)
    BY <1>7
  <2> HIDE DEF e, tk, w
  <2>8. IsPlace(e.pc)
    BY <1>1, <2>4, <2>5 DEF ThreadShape, IsPlace
  <2>9. IsPlace(tk.pc)
    BY <2>3 DEF IsPlace
  <2>10. ThreadShape(tk)
    BY <2>3, <2>8, <2>9, Pushing
  <2>11. ProcShape(w)
    BY <1>1, <2>6 DEF ProcShape, ProcFields
  <2>12. OthersAlike(t) /\ Me(t)' = w
    BY <2>2, <2>3, <2>6, <2>7, <2>11, OneChanged DEF ProcFields
  <2>13. \E x : /\ task'[t].frames = Append(task[t].frames, x)
                /\ x.sig = s
                /\ \/ x.pc = task[t].pc
                   \/ task[t].st # "run" /\ x.pc = <<task[t].pc[1], task[t].pc[2] + 1>>
                /\ x.mask = IF task[t].st = "suspend" THEN task[t].own ELSE task[t].mask
    BY <2>2, <2>3, <2>4, <2>5
  <2> QED  BY <1>7, <2>2, <2>3, <2>6, <2>10, <2>12, <2>13 DEF Interrupts, ProcFields
<1> QED  BY <1>4, <1>5, <1>6, <1>7 DEF Deliver

(* A fork that works.                                                      *)
LEMMA ForkForks ==
  ASSUME Shape, NEW t \in Tasks, task[t].of \in Tasks, task[t].st = "run", Op(t) = "fork", Free # {},
         task' = [task EXCEPT ![t] = Returns(t, New), ![New] = [Returns(t, 0) EXCEPT !.of = New]],
         proc' = [proc EXCEPT ![New] = [Me(t) EXCEPT !.parent = task[t].of, !.n = 0,
                                                     !.pend = {}, !.clock = FALSE]]
  PROVE  Forks(t, New)
<1>1. New \in Tasks /\ ~Born(New)
  BY NewIsFree
<1>2. t # New
  BY <1>1 DEF Born
<1> DEFINE tk == Returns(t, New)
           child == [Returns(t, 0) EXCEPT !.of = New]
           p == [Me(t) EXCEPT !.parent = task[t].of, !.n = 0, !.pend = {}, !.clock = FALSE]
<1>3. ThreadShape(task[t]) /\ ProcShape(Me(t)) /\ DOMAIN task = Tasks /\ DOMAIN proc = Tasks
  BY DEF Shape, Me
<1>4. /\ tk.pc = <<task[t].pc[1], task[t].pc[2] + 1>> /\ DOMAIN tk = TaskFields
      /\ \A f \in TaskFields \ {"pc", "r"} : tk[f] = task[t][f]
  BY OnTheNext
<1>5. /\ child.pc = <<task[t].pc[1], task[t].pc[2] + 1>> /\ DOMAIN child = TaskFields
      /\ child.of = New /\ child.r = 0
      /\ \A f \in TaskFields \ {"pc", "r", "of"} : child[f] = task[t][f]
  BY OnTheNext DEF TaskFields
<1>6. /\ DOMAIN p = ProcFields /\ p.n = 0
      /\ \A f \in ProcFields \ {"parent", "n", "pend", "clock"} : p[f] = Me(t)[f]
  BY <1>3 DEF ProcShape, ProcFields
<1>7. /\ DOMAIN task' = Tasks /\ task'[t] = tk /\ task'[New] = child
      /\ \A u \in Tasks : u # t /\ u # New => task'[u] = task[u]
  BY <1>1, <1>2, <1>3
<1>8. /\ DOMAIN proc' = Tasks /\ proc'[New] = p
      /\ \A q \in Tasks : q # New => proc'[q] = proc[q]
  BY <1>1, <1>3
<1> HIDE DEF tk, child, p
<1>9. ThreadShape(tk) /\ ThreadShape(child)
  BY <1>3, <1>4, <1>5 DEF ThreadShape, IsPlace, TaskFields
<1>10. ProcShape(p)
  BY <1>3, <1>6 DEF ProcShape, ProcFields
<1>11. Op(t) \notin Final
  BY DEF Final
<1> QED  BY <1>1, <1>4, <1>5, <1>6, <1>7, <1>8, <1>9, <1>10, <1>11
         DEF Forks, Copied, Next1, TaskFields, ProcFields

(* A thread that is created.                                               *)
LEMMA CreateCreates ==
  ASSUME Shape, NEW t \in Tasks, task[t].st = "run", Op(t) = "thread", Free # {},
         task' = [task EXCEPT ![t] = Returns(t, New), ![New] = Thread(task[t].of, Arg(t), Ins(t)[3])],
         UNCHANGED proc
  PROVE  Creates(t, New)
<1>1. New \in Tasks /\ ~Born(New)
  BY NewIsFree
<1>2. t # New
  BY <1>1 DEF Born
<1> DEFINE tk == Returns(t, New)
           new == Thread(task[t].of, Arg(t), Ins(t)[3])
<1>3. ThreadShape(task[t]) /\ DOMAIN task = Tasks
  BY DEF Shape
<1>4. /\ tk.pc = <<task[t].pc[1], task[t].pc[2] + 1>> /\ DOMAIN tk = TaskFields
      /\ \A f \in TaskFields \ {"pc", "r"} : tk[f] = task[t][f]
  BY OnTheNext
<1>5. /\ ThreadShape(new) /\ new.st = "run" /\ new.of = task[t].of /\ new.pc = <<Arg(t), 1>>
      /\ new.mask = {} /\ new.own = {} /\ new.frames = <<>>
  BY ThreadAtStart
<1>6. /\ DOMAIN task' = Tasks /\ task'[t] = tk /\ task'[New] = new
      /\ \A u \in Tasks : u # t /\ u # New => task'[u] = task[u]
  BY <1>1, <1>2, <1>3
<1> HIDE DEF tk, new
<1>7. ThreadShape(tk)
  BY <1>3, <1>4 DEF ThreadShape, IsPlace, TaskFields
<1>8. Op(t) \notin Final
  BY DEF Final
<1> QED  BY <1>1, <1>4, <1>5, <1>6, <1>7, <1>8 DEF Creates, Next1, TaskFields

(* An exec of a file that is there.                                        *)
LEMMA ExecBegins ==
  ASSUME Shape, NEW t \in Tasks, task[t].of \in Tasks, NEW arg, Op(t) = "exec",
         Holds(t, [Program(Arg(t), Me(t).parent, "live") EXCEPT !.n = Me(t).n,
                     !.mem["pid"] = Me(t).mem["pid"], !.fd = Me(t).fd, !.sid = Me(t).sid]),
         Goes(t, [Thread(task[t].of, "main", arg) EXCEPT !.mask = task[t].mask, !.own = task[t].own])
  PROVE  Begins(t)
<1> DEFINE p0 == Program(Arg(t), Me(t).parent, "live")
           p == [p0 EXCEPT !.n = Me(t).n, !.mem["pid"] = Me(t).mem["pid"], !.fd = Me(t).fd, !.sid = Me(t).sid]
           tk0 == Thread(task[t].of, "main", arg)
           tk == [tk0 EXCEPT !.mask = task[t].mask, !.own = task[t].own]
<1>1. /\ ProcShape(p0) /\ p0.prog = Arg(t) /\ p0.exits = <<>> /\ p0.buf = <<>>
      /\ \A s \in Sigs : p0.act[s].h = "DFL"
      /\ \A b \in {1, 2} : ~p0.jmp[b].set
      /\ \A v \in Flags : p0.mem[v] = 0
  BY ProgramAtStart
<1>2. /\ ThreadShape(tk0) /\ tk0.st = "run" /\ tk0.of = task[t].of /\ tk0.pc = <<"main", 1>>
      /\ tk0.frames = <<>>
  BY ThreadAtStart
<1>3. Holds(t, p) /\ Goes(t, tk)
  OBVIOUS
<1> HIDE DEF p0, tk0
<1>4. /\ DOMAIN p = ProcFields /\ DOMAIN p.mem = Vars
      /\ \A f \in ProcFields \ {"n", "mem", "fd", "sid"} : p[f] = p0[f]
      /\ \A v \in Flags : p.mem[v] = p0.mem[v]
  BY <1>1 DEF ProcShape, ProcFields, Flags
<1>5. /\ DOMAIN tk = TaskFields /\ tk.mask = task[t].mask /\ tk.own = task[t].own
      /\ \A f \in TaskFields \ {"mask", "own"} : tk[f] = tk0[f]
  BY <1>2 DEF ThreadShape, TaskFields
<1> HIDE DEF p, tk
<1>6. ProcShape(p)
  BY <1>1, <1>4 DEF ProcShape, ProcFields
<1>7. ThreadShape(tk)
  BY <1>2, <1>5 DEF ThreadShape, TaskFields
<1>8. Alone(t) /\ task'[t] = tk
  BY <1>3, Going DEF Alone
<1>9. /\ DOMAIN proc' = Tasks /\ proc'[task[t].of] = p
      /\ \A q \in Tasks : q # task[t].of => proc'[q] = proc[q]
  BY <1>3, Holding
<1>10. Me(t)' = p
  BY <1>2, <1>5, <1>8, <1>9 DEF Me, TaskFields
<1> QED  BY <1>1, <1>2, <1>4, <1>5, <1>6, <1>7, <1>8, <1>9, <1>10 DEF Begins, ProcFields, TaskFields

(* The calls by their forms.                                               *)
Calls(t) ==
  \/ Moves(t) \/ Aborts(t) \/ Masks(t) \/ Halts(t) \/ Resumes(t) \/ Places(t) \/ Leaps(t)
  \/ Signs(t) \/ Adds(t) \/ CallsBack(t) \/ Begins(t)
  \/ (\E n \in Tasks : Forks(t, n)) \/ (\E n \in Tasks : Creates(t, n)) \/ Finishes(t)

(* Each call has one of the forms, if a return has where to return to and  *)
(* a jump where to jump to.                                                *)
LEMMA StepForms ==
  ASSUME Shape, NEW t \in Tasks, task[t].of \in Tasks, Step(t),
         Op(t) = "return" => task[t].frames # <<>>,
         Op(t) = "longjmp" => Arg(t) \in {1, 2}
  PROVE  Calls(t)
<1>1. task[t].st = "run"
  BY DEF Step, Runs
<1>2. CASE Printf(t) \/ DoWrite(t) \/ DoFlush(t)
  BY <1>1, <1>2, OutputMoves DEF Calls
<1>3. CASE DoStore(t) \/ DoOverwritten(t)
  BY <1>1, <1>3, StoreMoves DEF Calls
<1>4. CASE DoBranch(t)
  BY <1>1, <1>4, BranchMoves DEF Calls
<1>5. CASE DoReturn(t)
  BY <1>1, <1>5, ReturnResumes DEF Calls, DoReturn
<1>6. CASE DoSetjmp(t)
  BY <1>1, <1>6, SetjmpPlaces DEF Calls
<1>7. CASE DoLongjmp(t)
  BY <1>1, <1>7, LongjmpLeaps, Zenon DEF Calls, DoLongjmp
<1>8. CASE DoSignal(t)
  BY <1>1, <1>8, SignalSigns DEF Calls
<1>9. CASE DoSigmask(t)
  BY <1>1, <1>9, SigmaskMasks DEF Calls
<1>10. CASE DoSigpending(t)
  BY <1>1, <1>10, LooksMoves DEF Calls, DoSigpending
<1>11. CASE DoKill(t)
  BY <1>1, <1>11, KillMoves DEF Calls
<1>12. CASE DoDivideByZero(t) \/ DoAlarm(t) \/ DoDetach(t)
  BY <1>1, <1>12, FieldMoves DEF Calls
<1>13. CASE DoBusyWait(t)
  BY <1>1, <1>13, LooksMoves DEF Calls, DoBusyWait
<1>14. CASE DoSleep(t)
  BY <1>1, <1>14, SleepHalts DEF Calls
<1>15. CASE DoFork(t)
  <2>1. CASE Goes(t, Returns(t, -1)) /\ UNCHANGED proc
    BY <1>1, <1>15, <2>1, LooksMoves DEF Calls, DoFork
  <2>2. CASE ~(Goes(t, Returns(t, -1)) /\ UNCHANGED proc)
    <3>1. Forks(t, New)
      BY <1>1, <1>15, <2>2, ForkForks DEF DoFork
    <3>2. New \in Tasks
      BY <3>1 DEF Forks
    <3> QED  BY <3>1, <3>2 DEF Calls
  <2> QED  BY <2>1, <2>2
<1>16. CASE DoExec(t)
  <2>1. CASE present
    <3>1. Begins(t)
      BY <1>16, <2>1, ExecBegins DEF DoExec
    <3> QED  BY <3>1 DEF Calls
  <2>2. CASE ~present
    BY <1>1, <1>16, <2>2, LooksMoves DEF Calls, DoExec
  <2> QED  BY <2>1, <2>2
<1>17. CASE DoCreate(t)
  <2>1. CASE Goes(t, Returns(t, -1))
    BY <1>1, <1>17, <2>1, LooksMoves DEF Calls, DoCreate
  <2>2. CASE ~Goes(t, Returns(t, -1))
    <3>1. Creates(t, New)
      BY <1>1, <1>17, <2>2, CreateCreates DEF DoCreate
    <3>2. New \in Tasks
      BY <3>1 DEF Creates
    <3> QED  BY <3>1, <3>2 DEF Calls
  <2> QED  BY <2>1, <2>2
<1>18. CASE DoJoin(t)
  BY <1>1, <1>18, LooksMoves DEF Calls, DoJoin
<1>19. CASE DoWait(t)
  BY <1>1, <1>19, WaitMoves DEF Calls
<1>20. CASE DoAtexit(t)
  BY <1>1, <1>20, AtexitAdds DEF Calls
<1>21. CASE DoExit(t)
  <2>1. CASE Op(t) = "exit" /\ Me(t).exits # <<>>
    <3>1. CallsBack(t)
      BY <1>1, <1>21, <2>1, ExitCallsBack DEF DoExit
    <3> QED  BY <3>1 DEF Calls
  <2>2. CASE Op(t) = "pthread_exit" /\ Others(t) # {}
    <3> DEFINE tk == [task[t] EXCEPT !.st = "gone"]
    <3>1. Goes(t, tk) /\ UNCHANGED proc
      BY <1>21, <2>2 DEF DoExit
    <3>2. Alone(t) /\ task'[t] = tk
      BY <3>1, Going DEF Alone
    <3>3. ThreadShape(task[t])
      BY DEF Shape
    <3>4. /\ DOMAIN tk = TaskFields /\ tk.st = "gone"
          /\ \A f \in TaskFields \ {"st"} : tk[f] = task[t][f]
      BY <3>3 DEF ThreadShape, TaskFields
    <3> HIDE DEF tk
    <3>5. ThreadShape(tk)
      BY <3>3, <3>4 DEF ThreadShape, TaskFields
    <3>6. Alike /\ OthersAlike(t)
      BY <3>1 DEF Shape, Alike, OthersAlike
    <3>7. Finishes(t)
      BY <3>2, <3>4, <3>5, <3>6 DEF Finishes, Alone, TaskFields
    <3> QED  BY <3>7 DEF Calls
  <2>3. CASE \E status : Dies(task[t].of, status)
    BY <2>3, DiesFinishes DEF Calls
  <2> QED  BY <1>21, <2>1, <2>2, <2>3 DEF DoExit
<1> QED
  BY <1>2, <1>3, <1>4, <1>5, <1>6, <1>7, <1>8, <1>9, <1>10, <1>11, <1>12, <1>13, <1>14, <1>15,
     <1>16, <1>17, <1>18, <1>19, <1>20, <1>21 DEF Step

-----------------------------------------------------------------------------
(* What the rules say of the blocks of a program.                          *)

(* The blocks reached contain those they are reached from, and what those  *)
(* jump to.                                                                *)
LEMMA ReachedIsClosed ==
  ASSUME NEW p, NEW from, from \subseteq DOMAIN Code[p]
  PROVE  /\ from \subseteq Reached(p, from) /\ Reached(p, from) \subseteq DOMAIN Code[p]
         /\ \A c \in Reached(p, from) : \A k \in DOMAIN Code[p][c] : \A d \in DOMAIN Code[p] :
              d \in JumpTo(Code[p][c][k]) => d \in Reached(p, from)
  BY DEF Reached, Closed

(* The same for what runs inside of handlers and for what does not.        *)
LEMMA Levels ==
  ASSUME Rules, NEW p \in Programs, NEW n
  PROVE  /\ Level(p, n) \subseteq DOMAIN Code[p] /\ "main" \in Outer(p)
         /\ \A c \in Level(p, n) : \A k \in DOMAIN Code[p][c] :
              JumpTo(Code[p][c][k]) \subseteq Level(p, n)
<1>1. Registered(p) \subseteq DOMAIN Code[p] /\ Begun(p) \subseteq DOMAIN Code[p]
  BY DEF Registered, Begun
<1>2. WellMade(p)
  BY DEF Rules
<1>3. "main" \in Begun(p)
  BY <1>2 DEF WellMade, Begun
<1>4. \A c \in DOMAIN Code[p] : \A k \in DOMAIN Code[p][c] : JumpTo(Code[p][c][k]) \subseteq DOMAIN Code[p]
  BY <1>2 DEF WellMade
<1>5. Inside(p) \subseteq DOMAIN Code[p] /\ Outer(p) \subseteq DOMAIN Code[p] /\ "main" \in Outer(p)
  BY <1>1, <1>3, ReachedIsClosed DEF Inside, Outer
<1>6. /\ \A c \in Inside(p) : \A k \in DOMAIN Code[p][c] : JumpTo(Code[p][c][k]) \subseteq Inside(p)
      /\ \A c \in Outer(p) : \A k \in DOMAIN Code[p][c] : JumpTo(Code[p][c][k]) \subseteq Outer(p)
  BY <1>1, <1>4, <1>5, ReachedIsClosed DEF Inside, Outer
<1> QED  BY <1>5, <1>6 DEF Level

(* Where what a call registers or begins belongs to.                       *)
LEMMA Registering ==
  ASSUME Rules, NEW p \in Programs, NEW c \in DOMAIN Code[p], NEW k \in DOMAIN Code[p][c]
  PROVE  LET i == Code[p][c][k] IN
         /\ i[1] \in {"signal", "sigaction"} /\ i[3] \in DOMAIN Code[p] => i[3] \in Inside(p)
         /\ i[1] = "atexit" => i[2] \in Inside(p)
         /\ i[1] = "resignal" => DOMAIN Code[p] \subseteq Inside(p)
         /\ i[1] = "thread" => i[2] \in Outer(p)
<1> DEFINE i == Code[p][c][k]
<1>1. Registered(p) \subseteq DOMAIN Code[p] /\ Begun(p) \subseteq DOMAIN Code[p]
  BY DEF Registered, Begun
<1>2. Registered(p) \subseteq Inside(p) /\ Begun(p) \subseteq Outer(p)
  BY <1>1, ReachedIsClosed DEF Inside, Outer
<1>3. i[1] \in {"atexit", "thread"} => i[2] \in DOMAIN Code[p]
  BY DEF Rules, WellMade
<1>4. \A d \in DOMAIN Code[p] : d \in Registers(i) => d \in Registered(p)
  BY DEF Registered
<1>5. i[1] \in {"signal", "sigaction"} /\ i[3] \in DOMAIN Code[p] => i[3] \in Inside(p)
  BY <1>2, <1>4 DEF Registers
<1>6. i[1] = "atexit" => i[2] \in Inside(p)
  BY <1>2, <1>3, <1>4 DEF Registers
<1>7. i[1] = "resignal" => DOMAIN Code[p] \subseteq Inside(p)
  BY <1>2 DEF Registered, Has
<1>8. i[1] = "thread" => i[2] \in Outer(p)
  BY <1>2, <1>3 DEF Begun
<1> QED  BY <1>5, <1>6, <1>7, <1>8

(* A block starts with a call, and a call that does not end it is followed *)
(* by another.                                                             *)
LEMMA Places1 ==
  ASSUME Rules, NEW p \in Programs
  PROVE  /\ \A c \in DOMAIN Code[p] : Place(p, <<c, 1>>)
         /\ \A pc : Place(p, pc) /\ Instruction(p, pc)[1] \notin Final
                      => Place(p, <<pc[1], pc[2] + 1>>)
  BY DEF Rules, WellMade, Place, Instruction

-----------------------------------------------------------------------------
(* The control of the programs: the first of the three invariants.         *)

(* A step of t in its process.                                             *)
Inner(t) ==
  /\ Alone(t) /\ ThreadShape(task'[t]) /\ task'[t].of = task[t].of
  /\ task'[t].st \in {"run", "pause", "sleep", "read", "suspend"}
  /\ DOMAIN proc' = Tasks
  /\ \A q \in Tasks : /\ ProcShape(proc'[q]) /\ proc'[q].prog = proc[q].prog
                      /\ q # task[t].of => /\ proc'[q].act = proc[q].act /\ proc'[q].jmp = proc[q].jmp
                                           /\ proc'[q].exits = proc[q].exits

(* Such a step keeps the records what they are.                            *)
LEMMA InnerShape ==
  ASSUME Shape, NEW t \in Tasks, Inner(t)
  PROVE  Shape'
<1>1. DOMAIN task' = Tasks /\ DOMAIN proc' = Tasks
  BY DEF Inner, Alone
<1>2. \A u \in Tasks : ThreadShape(task'[u])
  BY DEF Inner, Alone, Shape
<1>3. \A u \in Tasks : ProcShape(proc'[u])
  BY DEF Inner
<1>4. \A u \in Tasks : ThreadShape(task[u])' /\ ProcShape(proc[u])'
  BY <1>2, <1>3 DEF ThreadShape, ProcShape
<1> QED  BY <1>1, <1>4 DEF Shape

(* Nor does it change which threads a process has.                         *)
LEMMA InnerBelongs ==
  ASSUME Belongs, NEW t \in Tasks, Alive(t), Inner(t)
  PROVE  Belongs'
<1>1. \A u \in Tasks : task'[u].of = task[u].of /\ (Born(u)' <=> Born(u)) /\ (Alive(u)' <=> Alive(u))
  BY DEF Inner, Alone, Alive, Born
<1>2. \A q \in Tasks : proc'[q].prog = proc[q].prog
  BY DEF Inner
<1>3. \A u \in Tasks : Alive(u) => Born(u)
  BY DEF Alive, Born
<1>4. \A u \in Tasks : Born(u) => Me(u)'.prog = Me(u).prog
  BY <1>1, <1>2 DEF Belongs, Me
<1> QED  BY <1>1, <1>3, <1>4 DEF Belongs

(* What the invariant says of a thread that is alive.                      *)
LEMMA WhereItIs ==
  ASSUME ControlInv, NEW t \in Tasks, Alive(t)
  PROVE  /\ task[t].of \in Tasks /\ Me(t).prog \in Programs /\ ThreadShape(task[t]) /\ ProcShape(Me(t))
         /\ Controlled(Me(t).prog, task[t]) /\ Ready(Me(t)) /\ Shape
         /\ task[t].pc[1] \in DOMAIN Code[Me(t).prog]
         /\ task[t].pc[2] \in DOMAIN Code[Me(t).prog][task[t].pc[1]]
         /\ Ins(t) = Instruction(Me(t).prog, task[t].pc)
         /\ Len(task[t].frames) \in Nat /\ DOMAIN task[t].frames = 1..Len(task[t].frames)
<1>1. task[t].of \in Tasks
  BY DEF ControlInv, Belongs, Alive, Born
<1>2. ThreadShape(task[t]) /\ ProcShape(Me(t)) /\ Shape
  BY <1>1 DEF ControlInv, Shape, Me
<1>3. Controlled(Me(t).prog, task[t]) /\ Ready(Me(t))
  BY DEF ControlInv
<1>4. IsSeq(task[t].frames)
  BY <1>2 DEF ThreadShape
<1> QED  BY <1>1, <1>2, <1>3, <1>4, SeqOfItsElements, Zenon
         DEF Controlled, Ready, Place, Ins, Instruction, IsSeq

(* A step of t in its process keeps the invariant, if t goes on with what  *)
(* it may and its process is ready for it.                                 *)
LEMMA ControlStep ==
  ASSUME ControlInv, NEW t \in Tasks, Alive(t), Inner(t), main' = main,
         Controlled(Me(t).prog, task'[t]), Ready(proc'[task[t].of])
  PROVE  ControlInv'
<1>1. Shape' /\ Belongs'
  BY InnerShape, InnerBelongs DEF ControlInv
<1>2. \A u \in Tasks : u # t => task'[u] = task[u]
  BY DEF Inner, Alone
<1>3. \A u \in Tasks : Alive(u)' => Alive(u)
  BY <1>2 DEF Alive
<1>4. task'[t].of = task[t].of
  BY DEF Inner
<1>5. \A q \in Tasks : /\ proc'[q].prog = proc[q].prog
                       /\ q # task[t].of => /\ proc'[q].act = proc[q].act /\ proc'[q].jmp = proc[q].jmp
                                            /\ proc'[q].exits = proc[q].exits
  BY DEF Inner
<1>6. ASSUME NEW u \in Tasks, Alive(u)'
      PROVE  Controlled(proc'[task'[u].of].prog, task'[u]) /\ Ready(proc'[task'[u].of])
  <2>1. Alive(u) /\ task[u].of \in Tasks /\ Controlled(Me(u).prog, task[u]) /\ Ready(Me(u))
    BY <1>3, <1>6, WhereItIs
  <2>2. CASE u = t
    BY <1>4, <1>5, <2>1, <2>2 DEF Me
  <2>3. CASE u # t
    <3>1. task'[u] = task[u] /\ proc'[task[u].of].prog = Me(u).prog
      BY <1>2, <1>5, <2>1, <2>3 DEF Me
    <3>2. Ready(proc'[task[u].of])
      <4>1. CASE task[u].of = task[t].of
        BY <4>1
      <4>2. CASE task[u].of # task[t].of
        BY <1>5, <2>1, <3>1, <4>2, Zenon DEF Ready, Me
      <4> QED  BY <4>1, <4>2
    <3> QED  BY <2>1, <3>1, <3>2
  <2> QED  BY <2>2, <2>3
<1>7. \A u \in Tasks : Alive(u)' => (Controlled(Me(u).prog, task[u]) /\ Ready(Me(u)))'
  BY <1>6, Zenon DEF Controlled, Ready, Me
<1>8. main' \in Programs
  BY DEF ControlInv
<1> QED  BY <1>1, <1>7, <1>8 DEF ControlInv

(* The next call, or a block that this one jumps to, is at the same level. *)
LEMMA SameLevel ==
  ASSUME Rules, ControlInv, NEW t \in Tasks, Alive(t), task'[t].st = "run",
         task'[t].frames = task[t].frames, GoesOn(t) \/ Next1(t)
  PROVE  /\ Controlled(Me(t).prog, task'[t]) /\ Place(Me(t).prog, task'[t].pc)
         /\ task'[t].pc[1] \in Level(Me(t).prog, Len(task[t].frames))
<1> DEFINE p == Me(t).prog
           n == Len(task[t].frames)
<1>1. /\ p \in Programs /\ Controlled(p, task[t]) /\ Ins(t) = Instruction(p, task[t].pc)
      /\ Place(p, task[t].pc) /\ task[t].pc[1] \in Level(p, n)
  BY WhereItIs DEF Controlled
<1>2. CASE task'[t].pc = <<task[t].pc[1], task[t].pc[2] + 1>> /\ Op(t) \notin Final
  <2>1. Place(p, task'[t].pc) /\ task'[t].pc[1] = task[t].pc[1]
    BY <1>1, <1>2, Places1 DEF Op
  <2> QED  BY <1>1, <2>1 DEF Controlled
<1>3. ASSUME NEW d \in JumpTo(Ins(t)), task'[t].pc = <<d, 1>>
      PROVE  Place(p, task'[t].pc) /\ task'[t].pc[1] \in Level(p, n)
  <2>1. d \in Level(p, n) /\ d \in DOMAIN Code[p]
    BY <1>1, Levels DEF Place, Instruction
  <2> QED  BY <1>1, <1>3, <2>1, Places1
<1>4. Place(p, task'[t].pc) /\ task'[t].pc[1] \in Level(p, n)
  BY <1>1, <1>2, <1>3 DEF GoesOn, Next1, Controlled
<1> QED  BY <1>1, <1>4 DEF Controlled

(* A call that changes nothing of its process but what no other looks at.  *)
LEMMA ControlMoves ==
  ASSUME Rules, ControlInv, NEW t \in Tasks, Alive(t), main' = main,
         Moves(t) \/ Aborts(t) \/ Masks(t)
  PROVE  ControlInv'
<1>1. /\ Alone(t) /\ ThreadShape(task'[t]) /\ task'[t].st = "run" /\ task'[t].of = task[t].of
      /\ task'[t].frames = task[t].frames /\ Alike /\ (GoesOn(t) \/ Next1(t))
  BY DEF Moves, Aborts, Masks, Steady
<1>2. Inner(t)
  BY <1>1 DEF Inner, Alike
<1>3. Controlled(Me(t).prog, task'[t])
  BY <1>1, SameLevel, SMTT(20)
<1>4. Ready(proc'[task[t].of])
  BY <1>1, WhereItIs DEF Alike, Ready, Me
<1> QED  BY <1>2, <1>3, <1>4, ControlStep

(* A call that waits.                                                      *)
LEMMA ControlHalts ==
  ASSUME ControlInv, NEW t \in Tasks, Alive(t), main' = main, Halts(t)
  PROVE  ControlInv'
<1>1. Inner(t)
  BY DEF Halts, Inner, Alike
<1>2. /\ Controlled(Me(t).prog, task[t]) /\ Instruction(Me(t).prog, task[t].pc)[1] \in Waits
      /\ task'[t].pc = task[t].pc /\ task'[t].frames = task[t].frames
  BY WhereItIs DEF Halts, Op
<1>3. Controlled(Me(t).prog, task'[t])
  BY <1>2 DEF Controlled
<1>4. Ready(proc'[task[t].of])
  BY WhereItIs, Zenon DEF Halts, Alike, Ready, Me
<1> QED  BY <1>1, <1>3, <1>4, ControlStep

(* What runs inside returns to what it interrupted; nothing outside of a   *)
(* handler returns.                                                        *)
LEMMA ReturnsInside ==
  ASSUME Rules, ControlInv, NEW t \in Tasks, Alive(t), Op(t) \in {"return", "ifsig"}
  PROVE  task[t].frames # <<>> /\ Len(task[t].frames) >= 1
<1> DEFINE p == Me(t).prog
<1>1. /\ p \in Programs /\ Controlled(p, task[t]) /\ ThreadShape(task[t])
      /\ task[t].pc[2] \in DOMAIN Code[p][task[t].pc[1]]
      /\ Ins(t) = Code[p][task[t].pc[1]][task[t].pc[2]]
  BY WhereItIs DEF Instruction
<1>2. \A c \in Outer(p) : \A k \in DOMAIN Code[p][c] : Code[p][c][k][1] \notin {"return", "ifsig"}
  BY <1>1 DEF Rules, Mannered
<1>3. task[t].pc[1] \notin Outer(p)
  BY <1>1, <1>2 DEF Op
<1>4. Len(task[t].frames) # 0
  BY <1>1, <1>3 DEF Controlled, Level
<1> QED  BY <1>1, <1>4, NoElements DEF ThreadShape, IsSeq

(* The end of a handler, or of a function registered with atexit.          *)
LEMMA ControlResumes ==
  ASSUME Rules, ControlInv, NEW t \in Tasks, Alive(t), main' = main, Resumes(t)
  PROVE  ControlInv'
<1> DEFINE p == Me(t).prog
           f == task[t].frames
<1>1. Inner(t)
  BY DEF Resumes, Inner, Alike
<1>2. Op(t) = "return"
  BY DEF Resumes
<1>3. f # <<>> /\ Len(f) >= 1
  BY <1>2, ReturnsInside
<1>4. IsSeq(f) /\ Controlled(p, task[t]) /\ Len(f) \in Nat /\ DOMAIN f = 1..Len(f)
  BY WhereItIs DEF ThreadShape
<1>5. /\ Len(Front(f)) = Len(f) - 1 /\ DOMAIN Front(f) = 1..(Len(f) - 1)
      /\ \A k \in 1..(Len(f) - 1) : Front(f)[k] = f[k]
      /\ Last(f) = f[Len(f)]
  BY <1>3, <1>4, WithoutTop
<1>6. \A k \in DOMAIN f : Place(p, f[k].pc) /\ f[k].pc[1] \in Level(p, k - 1)
  BY <1>4 DEF Controlled
<1>7. Place(p, Last(f).pc) /\ Last(f).pc[1] \in Level(p, Len(Front(f)))
  <2>1. Len(f) \in DOMAIN f
    BY <1>3, <1>4
  <2> QED  BY <1>5, <1>6, <2>1
<1>8. \A k \in DOMAIN Front(f) : Place(p, Front(f)[k].pc) /\ Front(f)[k].pc[1] \in Level(p, k - 1)
  <2>1. \A k \in 1..(Len(f) - 1) : k \in DOMAIN f
    BY <1>4
  <2> QED  BY <1>5, <1>6, <2>1
<1>9. Controlled(p, task'[t])
  <2>1. task'[t].pc = Last(f).pc /\ task'[t].frames = Front(f) /\ task'[t].st = "run"
    BY DEF Resumes
  <2> QED  BY <1>7, <1>8, <2>1 DEF Controlled
<1>10. Ready(proc'[task[t].of])
  BY WhereItIs, Zenon DEF Resumes, Alike, Ready, Me
<1> QED  BY <1>1, <1>9, <1>10, ControlStep

(* No place is kept inside of a handler, nor is the mask set or another    *)
(* program begun there.                                                    *)
LEMMA OutsideOnly ==
  ASSUME Rules, ControlInv, NEW t \in Tasks, Alive(t), Op(t) \in Masking \cup {"setjmp", "exec"}
  PROVE  task[t].frames = <<>> /\ Len(task[t].frames) = 0
<1> DEFINE p == Me(t).prog
<1>1. /\ p \in Programs /\ Controlled(p, task[t]) /\ ThreadShape(task[t])
      /\ task[t].pc[2] \in DOMAIN Code[p][task[t].pc[1]]
      /\ Ins(t) = Code[p][task[t].pc[1]][task[t].pc[2]]
  BY WhereItIs DEF Instruction
<1>2. \A c \in Inside(p) : \A k \in DOMAIN Code[p][c] : Code[p][c][k][1] \notin Masking \cup {"setjmp", "exec"}
  BY <1>1 DEF Rules, Mannered
<1>3. task[t].pc[1] \notin Inside(p)
  BY <1>1, <1>2 DEF Op
<1>4. Len(task[t].frames) = 0
  BY <1>1, <1>3 DEF Controlled, Level
<1> QED  BY <1>1, <1>4, NoElements DEF ThreadShape

(* setjmp keeps a place outside of the handlers.                           *)
LEMMA ControlPlaces ==
  ASSUME Rules, ControlInv, NEW t \in Tasks, Alive(t), main' = main, Places(t)
  PROVE  ControlInv'
<1> DEFINE p == Me(t).prog
           q == proc'[task[t].of]
<1>1. /\ Alone(t) /\ ThreadShape(task'[t]) /\ task'[t].st = "run" /\ task'[t].of = task[t].of
      /\ task'[t].frames = task[t].frames /\ Next1(t) /\ OthersAlike(t) /\ Op(t) = "setjmp"
      /\ q.act = Me(t).act /\ q.exits = Me(t).exits
      /\ \A b \in {1, 2} : q.jmp[b].pc = task'[t].pc \/ q.jmp[b] = Me(t).jmp[b]
  BY DEF Places, Steady, Me
<1>2. Inner(t)
  BY <1>1 DEF Inner, OthersAlike
<1>3. /\ Controlled(p, task'[t]) /\ Place(p, task'[t].pc)
      /\ task'[t].pc[1] \in Level(p, Len(task[t].frames))
  BY <1>1, SameLevel
<1>4. task'[t].pc[1] \in Outer(p)
  BY <1>1, <1>3, OutsideOnly DEF Level
<1>5. q.prog = p /\ Ready(Me(t))
  BY <1>1, WhereItIs, Zenon DEF OthersAlike, Me
<1>6. Ready(q)
  BY <1>1, <1>3, <1>4, <1>5 DEF Ready
<1> QED  BY <1>2, <1>3, <1>6, ControlStep

(* longjmp leaves every handler.                                           *)
LEMMA ControlLeaps ==
  ASSUME Rules, ControlInv, NEW t \in Tasks, Alive(t), main' = main, Leaps(t)
  PROVE  ControlInv'
<1> DEFINE p == Me(t).prog
           j == Me(t).jmp[Arg(t)]
<1>1. /\ Alone(t) /\ ThreadShape(task'[t]) /\ task'[t].st = "run" /\ task'[t].of = task[t].of
      /\ task'[t].frames = <<>> /\ task'[t].pc = j.pc /\ j.set /\ Alike /\ Op(t) = "longjmp"
  BY DEF Leaps
<1>2. Inner(t)
  BY <1>1 DEF Inner, Alike
<1>3. /\ p \in Programs /\ Ready(Me(t)) /\ task[t].of \in Tasks
      /\ task[t].pc[1] \in DOMAIN Code[p]
      /\ task[t].pc[2] \in DOMAIN Code[p][task[t].pc[1]]
      /\ Ins(t) = Code[p][task[t].pc[1]][task[t].pc[2]]
  BY WhereItIs DEF Instruction
<1>4. Arg(t) \in {1, 2}
  <2>1. WellMade(p)
    BY <1>3 DEF Rules
  <2>2. \A c \in DOMAIN Code[p] : \A k \in DOMAIN Code[p][c] :
          Code[p][c][k][1] = "longjmp" => Code[p][c][k][2] \in {1, 2}
    BY <2>1 DEF WellMade
  <2>3. Ins(t)[1] = "longjmp"
    BY DEF Leaps, Op
  <2>4. Ins(t)[2] \in {1, 2}
    BY <1>3, <2>2, <2>3
  <2> QED  BY <2>4 DEF Arg
<1>5. Place(p, j.pc) /\ j.pc[1] \in Outer(p)
  BY <1>1, <1>3, <1>4 DEF Ready
<1>6. Controlled(p, task'[t])
  BY <1>1, <1>5, EmptyIsSeq DEF Controlled, Level
<1>7. Ready(proc'[task[t].of])
  BY <1>1, <1>3, Zenon DEF Alike, Ready, Me
<1> QED  BY <1>2, <1>6, <1>7, ControlStep

(* A handler that is installed is one of the blocks inside.                *)
LEMMA ControlSigns ==
  ASSUME Rules, ControlInv, NEW t \in Tasks, Alive(t), main' = main, Signs(t)
  PROVE  ControlInv'
<1> DEFINE p == Me(t).prog
           q == proc'[task[t].of]
<1>1. /\ Alone(t) /\ ThreadShape(task'[t]) /\ task'[t].st = "run" /\ task'[t].of = task[t].of
      /\ task'[t].frames = task[t].frames /\ Next1(t) /\ OthersAlike(t)
      /\ q.jmp = Me(t).jmp /\ q.exits = Me(t).exits
      /\ \A s \in Sigs : \/ q.act[s] = Me(t).act[s]
                         \/ Op(t) = "resignal"
                         \/ Op(t) \in {"signal", "sigaction"} /\ q.act[s].h = Ins(t)[3]
  BY DEF Signs, Steady, Me
<1>2. Inner(t)
  BY <1>1 DEF Inner, OthersAlike
<1>3. Controlled(p, task'[t])
  BY <1>1, SameLevel
<1>4. q.prog = p /\ Ready(Me(t)) /\ p \in Programs
  BY <1>1, WhereItIs DEF OthersAlike, Me
<1>5. /\ Op(t) \in {"signal", "sigaction"} /\ Ins(t)[3] \in DOMAIN Code[p] => Ins(t)[3] \in Inside(p)
      /\ Op(t) = "resignal" => DOMAIN Code[p] \subseteq Inside(p)
  BY <1>4, WhereItIs, Registering DEF Op, Instruction
<1>6. \A s \in Sigs : q.act[s].h \in DOMAIN Code[p] => q.act[s].h \in Inside(p)
  BY <1>1, <1>4, <1>5 DEF Ready
<1>7. Ready(q)
  BY <1>1, <1>4, <1>6 DEF Ready
<1> QED  BY <1>2, <1>3, <1>7, ControlStep

(* So is a function that is registered.                                    *)
LEMMA ControlAdds ==
  ASSUME Rules, ControlInv, NEW t \in Tasks, Alive(t), main' = main, Adds(t)
  PROVE  ControlInv'
<1> DEFINE p == Me(t).prog
           q == proc'[task[t].of]
<1>1. /\ Alone(t) /\ ThreadShape(task'[t]) /\ task'[t].st = "run" /\ task'[t].of = task[t].of
      /\ task'[t].frames = task[t].frames /\ Next1(t) /\ OthersAlike(t) /\ Op(t) = "atexit"
      /\ q.jmp = Me(t).jmp /\ q.act = Me(t).act /\ q.exits = Append(Me(t).exits, Arg(t))
  BY DEF Adds, Steady, Me
<1>2. Inner(t)
  BY <1>1 DEF Inner, OthersAlike
<1>3. Controlled(p, task'[t])
  BY <1>1, SameLevel, SMTT(20)
<1>4. q.prog = p /\ Ready(Me(t)) /\ p \in Programs /\ ProcShape(Me(t))
  BY <1>1, WhereItIs, SMTT(20) DEF OthersAlike, Me
<1>5. Arg(t) \in Inside(p)
  BY <1>1, <1>4, WhereItIs, Registering DEF Op, Arg, Instruction
<1>6. IsSeq(Me(t).exits)
  BY <1>4 DEF ProcShape
<1>7. \A k \in DOMAIN q.exits : q.exits[k] \in Inside(p)
  <2> DEFINE x == Me(t).exits
  <2>1. /\ DOMAIN q.exits = 1..(Len(x) + 1) /\ q.exits[Len(x) + 1] = Arg(t)
        /\ \A k \in 1..Len(x) : q.exits[k] = x[k]
    BY <1>1, <1>6, OnTop
  <2>2. Len(x) \in Nat /\ DOMAIN x = 1..Len(x)
    BY <1>6, SeqOfItsElements DEF IsSeq
  <2>3. \A k \in 1..(Len(x) + 1) : k \in 1..Len(x) \/ k = Len(x) + 1
    BY <2>2
  <2>4. \A k \in DOMAIN x : x[k] \in Inside(p)
    BY <1>4 DEF Ready
  <2> QED  BY <1>5, <2>1, <2>2, <2>3, <2>4
<1>8. Ready(q)
  BY <1>1, <1>4, <1>7 DEF Ready
<1> QED  BY <1>2, <1>3, <1>8, ControlStep

(* A block inside begins on top of what it interrupts.                     *)
LEMMA Called ==
  ASSUME Rules, NEW p \in Programs, NEW tk, NEW old, NEW h \in Inside(p), NEW e,
         ThreadShape(old), Controlled(p, old),
         tk.st = "run", tk.pc = <<h, 1>>, tk.frames = Append(old.frames, e),
         Place(p, e.pc), e.pc[1] \in Level(p, Len(old.frames))
  PROVE  Controlled(p, tk)
<1> DEFINE f == old.frames
<1>1. IsSeq(f) /\ Len(f) \in Nat /\ DOMAIN f = 1..Len(f)
  BY SeqOfItsElements DEF ThreadShape, IsSeq
<1>2. /\ DOMAIN tk.frames = 1..(Len(f) + 1) /\ Len(tk.frames) = Len(f) + 1
      /\ \A k \in 1..Len(f) : tk.frames[k] = f[k]
      /\ tk.frames[Len(f) + 1] = e
  BY <1>1, OnTop
<1>3. h \in DOMAIN Code[p] /\ Place(p, tk.pc)
  <2>1. h \in Level(p, 1)
    BY DEF Level
  <2>2. h \in DOMAIN Code[p]
    BY <2>1, Levels
  <2> QED  BY <2>2, Places1
<1>4. tk.pc[1] \in Level(p, Len(tk.frames))
  BY <1>1, <1>2 DEF Level
<1>5. ASSUME NEW k \in DOMAIN tk.frames
      PROVE  Place(p, tk.frames[k].pc) /\ tk.frames[k].pc[1] \in Level(p, k - 1)
  <2>1. CASE k \in 1..Len(f)
    BY <1>1, <1>2, <2>1 DEF Controlled
  <2>2. CASE k = Len(f) + 1
    <3>1. k - 1 = Len(f)
      BY <1>1, <2>2
    <3> QED  BY <1>2, <2>2, <3>1
  <2> QED  BY <1>1, <1>2, <2>1, <2>2
<1> QED  BY <1>3, <1>4, <1>5 DEF Controlled

(* exit calls a function that was registered, which is one inside.         *)
LEMMA ControlCallsBack ==
  ASSUME Rules, ControlInv, NEW t \in Tasks, Alive(t), main' = main, CallsBack(t)
  PROVE  ControlInv'
<1> DEFINE p == Me(t).prog
           q == proc'[task[t].of]
           x == Me(t).exits
<1>1. /\ Alone(t) /\ ThreadShape(task'[t]) /\ task'[t].st = "run" /\ task'[t].of = task[t].of
      /\ OthersAlike(t) /\ x # <<>> /\ task'[t].pc = <<Last(x), 1>>
      /\ \E e : task'[t].frames = Append(task[t].frames, e) /\ e.pc = task[t].pc
      /\ q.jmp = Me(t).jmp /\ q.act = Me(t).act /\ q.exits = Front(x)
  BY DEF CallsBack, Me
<1>2. Inner(t)
  BY <1>1 DEF Inner, OthersAlike
<1>3. q.prog = p /\ Ready(Me(t)) /\ p \in Programs /\ IsSeq(x) /\ Controlled(p, task[t]) /\ ThreadShape(task[t])
  BY <1>1, WhereItIs, Zenon DEF OthersAlike, ProcShape, Me
<1>4. /\ Len(x) >= 1 /\ DOMAIN q.exits = 1..(Len(x) - 1) /\ Last(x) = x[Len(x)]
      /\ \A k \in 1..(Len(x) - 1) : q.exits[k] = x[k]
  BY <1>1, <1>3, WithoutTop
<1>5. Len(x) \in Nat /\ DOMAIN x = 1..Len(x)
  BY <1>3, SeqOfItsElements DEF IsSeq
<1>6. \A k \in DOMAIN x : x[k] \in Inside(p)
  BY <1>3 DEF Ready
<1>7. Last(x) \in Inside(p)
  <2>1. Len(x) \in DOMAIN x
    BY <1>4, <1>5
  <2> QED  BY <1>4, <1>6, <2>1
<1>8. \A k \in DOMAIN q.exits : q.exits[k] \in Inside(p)
  <2>1. \A k \in 1..(Len(x) - 1) : k \in DOMAIN x
    BY <1>5
  <2> QED  BY <1>4, <1>6, <2>1
<1>9. Controlled(p, task'[t])
  <2>1. PICK e : task'[t].frames = Append(task[t].frames, e) /\ e.pc = task[t].pc
    BY <1>1
  <2>2. Place(p, e.pc) /\ e.pc[1] \in Level(p, Len(task[t].frames))
    BY <1>3, <2>1 DEF Controlled
  <2> HIDE DEF x
  <2> QED  BY <1>1, <1>3, <1>7, <2>1, <2>2, Called
<1>10. Ready(q)
  BY <1>1, <1>3, <1>8 DEF Ready
<1> QED  BY <1>2, <1>9, <1>10, ControlStep

(* A handler interrupts whatever the thread does.                          *)
LEMMA ControlInterrupts ==
  ASSUME Rules, ControlInv, NEW t \in Tasks, Alive(t), main' = main, NEW s \in Sigs, Interrupts(t, s)
  PROVE  ControlInv'
<1> DEFINE p == Me(t).prog
           q == proc'[task[t].of]
           h == Me(t).act[s].h
<1>1. /\ Alone(t) /\ ThreadShape(task'[t]) /\ task'[t].st = "run" /\ task'[t].of = task[t].of
      /\ OthersAlike(t) /\ h \in DOMAIN Code[p] /\ task'[t].pc = <<h, 1>>
      /\ \E e : /\ task'[t].frames = Append(task[t].frames, e)
                /\ \/ e.pc = task[t].pc
                   \/ task[t].st # "run" /\ e.pc = <<task[t].pc[1], task[t].pc[2] + 1>>
      /\ q.jmp = Me(t).jmp /\ q.exits = Me(t).exits
      /\ \A z \in Sigs : q.act[z] = Me(t).act[z] \/ q.act[z].h = "DFL"
  BY DEF Interrupts, Me
<1>2. Inner(t)
  BY <1>1 DEF Inner, OthersAlike
<1>3. q.prog = p /\ Ready(Me(t)) /\ p \in Programs /\ Controlled(p, task[t]) /\ ThreadShape(task[t])
  BY <1>1, WhereItIs, Zenon DEF OthersAlike, Me
<1>4. h \in Inside(p)
  BY <1>1, <1>3 DEF Ready
<1>5. "DFL" \notin DOMAIN Code[p]
  BY <1>3 DEF Rules, WellMade
<1>6. Controlled(p, task'[t])
  <2>1. PICK e : /\ task'[t].frames = Append(task[t].frames, e)
                 /\ \/ e.pc = task[t].pc
                    \/ task[t].st # "run" /\ e.pc = <<task[t].pc[1], task[t].pc[2] + 1>>
    BY <1>1
  <2>2. CASE e.pc = task[t].pc
    <3>1. Place(p, e.pc) /\ e.pc[1] \in Level(p, Len(task[t].frames))
      BY <1>3, <2>2 DEF Controlled
    <3> HIDE DEF h
    <3> QED  BY <1>1, <1>3, <1>4, <2>1, <3>1, Called
  <2>3. CASE task[t].st # "run" /\ e.pc = <<task[t].pc[1], task[t].pc[2] + 1>>
    <3>1. Place(p, task[t].pc) /\ Instruction(p, task[t].pc)[1] \notin Final
      BY <1>3, <2>3 DEF Controlled, Waits, Final
    <3>2. Place(p, e.pc)
      BY <1>3, <2>3, <3>1, Places1
    <3>3. e.pc[1] \in Level(p, Len(task[t].frames))
      BY <1>3, <2>3 DEF Controlled
    <3> HIDE DEF h
    <3> QED  BY <1>1, <1>3, <1>4, <2>1, <3>2, <3>3, Called
  <2> QED  BY <2>1, <2>2, <2>3
<1>7. \A z \in Sigs : q.act[z].h \in DOMAIN Code[p] => q.act[z].h \in Inside(p)
  BY <1>1, <1>3, <1>5 DEF Ready
<1>8. Ready(q)
  BY <1>1, <1>3, <1>7 DEF Ready
<1> QED  BY <1>2, <1>6, <1>8, ControlStep, SMTT(20)

(* A process that has nothing registered is ready for its program.         *)
LEMMA ReadyAtStart ==
  ASSUME Rules, NEW p, p.prog \in Programs, p.exits = <<>>, \A s \in Sigs : p.act[s].h = "DFL",
         \A b \in {1, 2} : ~p.jmp[b].set
  PROVE  Ready(p)
<1>1. "DFL" \notin DOMAIN Code[p.prog]
  BY DEF Rules, WellMade
<1> QED  BY <1>1, EmptyIsSeq DEF Ready

(* A block that main or a thread begins, with nothing below.               *)
LEMMA AtBottom ==
  ASSUME Rules, NEW p \in Programs, NEW tk, NEW c \in Outer(p),
         tk.st = "run", tk.pc = <<c, 1>>, tk.frames = <<>>
  PROVE  Controlled(p, tk)
<1>1. c \in Level(p, 0)
  BY DEF Level
<1>2. c \in DOMAIN Code[p]
  BY <1>1, Levels
<1>3. Place(p, tk.pc)
  BY <1>2, Places1
<1> QED  BY <1>1, <1>3, EmptyIsSeq DEF Controlled, Level

(* A program that executes another has one thread, so nobody is left that  *)
(* runs the old one.                                                       *)
LEMMA ExecutesAlone ==
  ASSUME Rules, ControlInv, NEW t \in Tasks, Alive(t), Op(t) = "exec"
  PROVE  /\ Arg(t) \in Fit /\ Arg(t) \in Programs /\ Arg(t) \in DOMAIN Code
         /\ \A u \in Tasks : Alive(u) /\ task[u].of = task[t].of => u = t
<1> DEFINE p == Me(t).prog
<1>1. /\ p \in Programs /\ task[t].of \in Tasks
      /\ task[t].pc[1] \in DOMAIN Code[p]
      /\ task[t].pc[2] \in DOMAIN Code[p][task[t].pc[1]]
      /\ Ins(t) = Code[p][task[t].pc[1]][task[t].pc[2]]
  BY WhereItIs DEF Instruction
<1>2. \A c \in DOMAIN Code[p] : \A k \in DOMAIN Code[p][c] :
        Code[p][c][k][1] = "exec" => Code[p][c][k][2] \in Fit /\ ~Has(p, {"thread"})
  BY <1>1 DEF Rules, WellMade
<1>3. Ins(t)[1] = "exec"
  BY DEF Op
<1>4. Ins(t)[2] \in Fit /\ ~Has(p, {"thread"})
  BY <1>1, <1>2, <1>3
<1>5. \A u \in Tasks : Alive(u) /\ task[u].of = task[t].of => u = t
  BY <1>4 DEF ControlInv, Belongs, Me
<1> QED  BY <1>4, <1>5 DEF Arg, Fit, Programs

(* exec: the new program starts with nothing of the old one.               *)
LEMMA ControlBegins ==
  ASSUME Rules, ControlInv, NEW t \in Tasks, Alive(t), main' = main, Begins(t)
  PROVE  ControlInv'
<1> DEFINE o == task[t].of
<1>1. /\ DOMAIN task' = Tasks /\ (\A u \in Tasks : u # t => task'[u] = task[u])
      /\ ThreadShape(task'[t]) /\ task'[t].st = "run" /\ task'[t].of = o
      /\ task'[t].pc = <<"main", 1>> /\ task'[t].frames = <<>> /\ Op(t) = "exec"
      /\ DOMAIN proc' = Tasks /\ (\A q \in Tasks : q # o => proc'[q] = proc[q])
  BY DEF Begins, Alone
<1>2. o \in Tasks /\ Shape
  BY WhereItIs
<1>3. /\ ProcShape(proc'[o]) /\ proc'[o].prog = Arg(t) /\ proc'[o].exits = <<>>
      /\ \A s \in Sigs : proc'[o].act[s].h = "DFL"
      /\ \A b \in {1, 2} : ~proc'[o].jmp[b].set
  BY <1>1 DEF Begins, Me
<1>4. Arg(t) \in Programs /\ \A u \in Tasks : Alive(u) /\ task[u].of = o => u = t
  BY <1>1, ExecutesAlone
<1>5. Shape'
  <2>1. \A u \in Tasks : ThreadShape(task'[u]) /\ ProcShape(proc'[u])
    BY <1>1, <1>2, <1>3 DEF Shape
  <2>2. \A u \in Tasks : ThreadShape(task[u])' /\ ProcShape(proc[u])'
    BY <2>1 DEF ThreadShape, ProcShape
  <2> QED  BY <1>1, <2>2 DEF Shape
<1>6. \A u \in Tasks : task'[u].of = task[u].of /\ (Born(u)' <=> Born(u)) /\ (Alive(u)' <=> Alive(u))
  BY <1>1 DEF Alive, Born
<1>7. Belongs'
  <2>1. \A u \in Tasks : Born(u)' => task'[u].of \in Tasks /\ Born(task[u].of)'
    BY <1>6 DEF ControlInv, Belongs
  <2>2. ASSUME NEW u \in Tasks, NEW v \in Tasks, Alive(u)', Alive(v)', task'[u].of = task'[v].of, u # v
        PROVE  Has(proc'[task'[u].of].prog, {"thread"})
    <3>1. Alive(u) /\ Alive(v) /\ task[u].of = task[v].of /\ task[u].of # o /\ task[u].of \in Tasks
      BY <1>4, <1>6, <2>2, WhereItIs
    <3>2. Has(Me(u).prog, {"thread"})
      BY <2>2, <3>1 DEF ControlInv, Belongs
    <3> QED  BY <1>1, <1>6, <3>1, <3>2 DEF Me
  <2> QED  BY <1>6, <2>1, <2>2 DEF Belongs, Me
<1>8. ASSUME NEW u \in Tasks, Alive(u)'
      PROVE  Controlled(proc'[task'[u].of].prog, task'[u]) /\ Ready(proc'[task'[u].of])
  <2>1. CASE u = t
    <3>1. "main" \in Outer(Arg(t))
      BY <1>4, Levels
    <3>2. Controlled(Arg(t), task'[t])
      BY <1>1, <1>4, <3>1, AtBottom
    <3>3. Ready(proc'[o])
      BY <1>3, <1>4, ReadyAtStart
    <3> QED  BY <1>1, <1>3, <2>1, <3>2, <3>3
  <2>2. CASE u # t
    <3>1. Alive(u) /\ task'[u] = task[u]
      BY <1>1, <1>6, <1>8, <2>2
    <3>2. task[u].of # o /\ task[u].of \in Tasks
      BY <1>4, <2>2, <3>1, WhereItIs
    <3>3. proc'[task[u].of] = Me(u)
      BY <1>1, <3>2 DEF Me
    <3>4. Controlled(Me(u).prog, task[u]) /\ Ready(Me(u))
      BY <3>1, WhereItIs, SMTT(20)
    <3> QED  BY <3>1, <3>3, <3>4
  <2> QED  BY <2>1, <2>2
<1>9. \A u \in Tasks : Alive(u)' => (Controlled(Me(u).prog, task[u]) /\ Ready(Me(u)))'
  BY <1>8 DEF Controlled, Ready, Me
<1> QED  BY <1>5, <1>7, <1>9 DEF ControlInv

(* fork: the child goes on where its parent does.                          *)
LEMMA ControlForks ==
  ASSUME Rules, ControlInv, NEW t \in Tasks, Alive(t), main' = main, NEW n \in Tasks, Forks(t, n)
  PROVE  ControlInv'
<1> DEFINE p == Me(t).prog
<1>1. /\ DOMAIN task' = Tasks /\ (\A u \in Tasks : u # t /\ u # n => task'[u] = task[u])
      /\ ThreadShape(task'[t]) /\ task'[t].st = "run" /\ Next1(t)
      /\ task'[t].of = task[t].of /\ task'[t].frames = task[t].frames
      /\ ThreadShape(task'[n]) /\ task'[n].st = "run" /\ task'[n].of = n
      /\ task'[n].pc = task'[t].pc /\ task'[n].frames = task'[t].frames
      /\ DOMAIN proc' = Tasks /\ (\A q \in Tasks : q # n => proc'[q] = proc[q])
      /\ ~Born(n) /\ ProcShape(proc'[n]) /\ proc'[n].prog = p /\ proc'[n].act = Me(t).act
      /\ proc'[n].jmp = Me(t).jmp /\ proc'[n].exits = Me(t).exits
  BY DEF Forks, Copied
<1>2. /\ \A u \in Tasks : Alive(u) => Born(u)
      /\ \A u \in Tasks : Born(u) => task[u].of \in Tasks /\ task[u].of # n
  BY <1>1 DEF ControlInv, Belongs, Alive, Born
<1>3. t # n /\ Born(t)
  BY <1>1, <1>2
<1>4. \A u \in Tasks : u # n => /\ task'[u].of = task[u].of
                                /\ Born(u)' <=> Born(u)
                                /\ Alive(u)' <=> Alive(u)
  <2>1. \A u \in Tasks : u # n /\ u # t => task'[u] = task[u]
    BY <1>1
  <2>2. task[t].st \notin {"unborn", "gone"}
    BY DEF Alive
  <2> QED  BY <1>1, <2>1, <2>2 DEF Alive, Born
<1>5. Shape'
  <2>1. Shape
    BY DEF ControlInv
  <2>2. \A u \in Tasks : ThreadShape(task'[u]) /\ ProcShape(proc'[u])
    BY <1>1, <2>1 DEF Shape
  <2>3. \A u \in Tasks : ThreadShape(task[u])' /\ ProcShape(proc[u])'
    BY <2>2 DEF ThreadShape, ProcShape
  <2> QED  BY <1>1, <2>3 DEF Shape
<1>6. Belongs'
  <2>1. Born(n)'
    BY <1>1 DEF Born
  <2>2. \A u \in Tasks : Born(u)' => task'[u].of \in Tasks /\ Born(task[u].of)'
    <3>1. \A u \in Tasks : u # n /\ Born(u) => task[u].of \in Tasks /\ Born(task[u].of) /\ task[u].of # n
      BY <1>2 DEF ControlInv, Belongs
    <3>2. ASSUME NEW u \in Tasks, Born(u)', u # n PROVE task'[u].of \in Tasks /\ Born(task[u].of)'
      <4>1. Born(u) /\ task'[u].of = task[u].of
        BY <1>4, <3>2
      <4>2. task[u].of \in Tasks /\ Born(task[u].of) /\ task[u].of # n
        BY <3>1, <3>2, <4>1
      <4> QED  BY <1>4, <4>1, <4>2 DEF Born
    <3> QED  BY <1>1, <2>1, <3>2 DEF Born
  <2>3. ASSUME NEW u \in Tasks, NEW v \in Tasks, Alive(u)', Alive(v)', task'[u].of = task'[v].of, u # v
        PROVE  Has(proc'[task'[u].of].prog, {"thread"})
    <3>1. u # n /\ v # n
      BY <1>1, <1>2, <1>4, <2>3
    <3>2. Alive(u) /\ Alive(v) /\ task[u].of = task[v].of /\ task[u].of # n /\ task[u].of \in Tasks
      BY <1>2, <1>4, <2>3, <3>1
    <3>3. Has(Me(u).prog, {"thread"})
      BY <2>3, <3>2 DEF ControlInv, Belongs
    <3> QED  BY <1>1, <1>4, <3>1, <3>2, <3>3 DEF Me
  <2> QED  BY <2>2, <2>3 DEF Belongs, Me
<1>7. Controlled(p, task'[t]) /\ Ready(Me(t))
  BY <1>1, SameLevel, WhereItIs
<1>8. ASSUME NEW u \in Tasks, Alive(u)'
      PROVE  Controlled(proc'[task'[u].of].prog, task'[u]) /\ Ready(proc'[task'[u].of])
  <2>1. CASE u = n
    <3>1. Controlled(p, task'[n])
      BY <1>1, <1>7 DEF Controlled
    <3>2. Ready(proc'[n])
      BY <1>1, <1>7 DEF Ready
    <3> QED  BY <1>1, <2>1, <3>1, <3>2
  <2>2. CASE u = t
    <3>1. proc'[task'[t].of] = Me(t)
      BY <1>1, <1>2, <1>3 DEF Me
    <3> QED  BY <1>7, <2>2, <3>1
  <2>3. CASE u # t /\ u # n
    <3>1. Alive(u) /\ task'[u] = task[u] /\ task[u].of \in Tasks /\ task[u].of # n
      BY <1>1, <1>2, <1>4, <1>8, <2>3
    <3>2. proc'[task[u].of] = Me(u)
      BY <1>1, <3>1 DEF Me
    <3>3. Controlled(Me(u).prog, task[u]) /\ Ready(Me(u))
      BY <3>1, WhereItIs
    <3> QED  BY <3>1, <3>2, <3>3
  <2> QED  BY <2>1, <2>2, <2>3
<1>9. \A u \in Tasks : Alive(u)' => (Controlled(Me(u).prog, task[u]) /\ Ready(Me(u)))'
  BY <1>8 DEF Controlled, Ready, Me
<1> QED  BY <1>5, <1>6, <1>9 DEF ControlInv

(* pthread_create: the new thread begins with a block of the program.      *)
LEMMA ControlCreates ==
  ASSUME Rules, ControlInv, NEW t \in Tasks, Alive(t), main' = main, NEW n \in Tasks, Creates(t, n)
  PROVE  ControlInv'
<1> DEFINE p == Me(t).prog
<1>1. /\ DOMAIN task' = Tasks /\ (\A u \in Tasks : u # t /\ u # n => task'[u] = task[u])
      /\ ThreadShape(task'[t]) /\ task'[t].st = "run" /\ Next1(t)
      /\ task'[t].of = task[t].of /\ task'[t].frames = task[t].frames
      /\ ThreadShape(task'[n]) /\ task'[n].st = "run" /\ task'[n].of = task[t].of
      /\ task'[n].pc = <<Arg(t), 1>> /\ task'[n].frames = <<>>
      /\ ~Born(n) /\ Op(t) = "thread" /\ proc' = proc
  BY DEF Creates
<1>2. /\ \A u \in Tasks : Alive(u) => Born(u)
      /\ \A u \in Tasks : Born(u) => task[u].of \in Tasks /\ task[u].of # n
  BY <1>1 DEF ControlInv, Belongs, Alive, Born
<1>3. t # n /\ Born(t)
  BY <1>1, <1>2
<1>4. \A u \in Tasks : u # n => /\ task'[u].of = task[u].of
                                /\ Born(u)' <=> Born(u)
                                /\ Alive(u)' <=> Alive(u)
  <2>1. \A u \in Tasks : u # n /\ u # t => task'[u] = task[u]
    BY <1>1
  <2>2. task[t].st \notin {"unborn", "gone"}
    BY DEF Alive
  <2> QED  BY <1>1, <2>1, <2>2 DEF Alive, Born
<1>5. Shape'
  <2>1. Shape
    BY DEF ControlInv
  <2>2. DOMAIN proc' = Tasks /\ \A u \in Tasks : ThreadShape(task'[u]) /\ ProcShape(proc'[u])
    BY <1>1, <2>1 DEF Shape
  <2>3. \A u \in Tasks : ThreadShape(task[u])' /\ ProcShape(proc[u])'
    BY <2>2 DEF ThreadShape, ProcShape
  <2> QED  BY <1>1, <2>2, <2>3 DEF Shape
<1>6. /\ p \in Programs /\ task[t].pc[1] \in DOMAIN Code[p]
      /\ task[t].pc[2] \in DOMAIN Code[p][task[t].pc[1]]
      /\ Ins(t) = Code[p][task[t].pc[1]][task[t].pc[2]]
  BY WhereItIs DEF Instruction
<1>7. Has(p, {"thread"}) /\ Arg(t) \in Outer(p)
  <2>1. Ins(t)[1] = "thread"
    BY <1>1 DEF Op
  <2> QED  BY <1>6, <2>1, Registering DEF Has, Arg
<1>8. Belongs'
  <2>1. \A u \in Tasks : Born(u)' => task'[u].of \in Tasks /\ Born(task[u].of)'
    <3>1. \A u \in Tasks : u # n /\ Born(u) => task[u].of \in Tasks /\ Born(task[u].of) /\ task[u].of # n
      BY <1>2 DEF ControlInv, Belongs
    <3>2. ASSUME NEW u \in Tasks, u # n, Born(u) PROVE task'[u].of \in Tasks /\ Born(task[u].of)'
      <4>1. task[u].of \in Tasks /\ Born(task[u].of) /\ task[u].of # n /\ task'[u].of = task[u].of
        BY <1>4, <3>1, <3>2
      <4> QED  BY <1>4, <4>1 DEF Born
    <3>3. task'[n].of = task'[t].of
      BY <1>1
    <3> QED  BY <1>3, <1>4, <3>2, <3>3 DEF Born
  <2>2. ASSUME NEW u \in Tasks, NEW v \in Tasks, Alive(u)', Alive(v)', task'[u].of = task'[v].of, u # v
        PROVE  Has(proc'[task'[u].of].prog, {"thread"})
    <3>1. CASE u = n \/ v = n
      BY <1>1, <1>7, <2>2, <3>1 DEF Me
    <3>2. CASE u # n /\ v # n
      <4>1. Alive(u) /\ Alive(v) /\ task[u].of = task[v].of
        BY <1>4, <2>2, <3>2
      <4>2. Has(Me(u).prog, {"thread"})
        BY <2>2, <4>1 DEF ControlInv, Belongs
      <4> QED  BY <1>1, <1>4, <3>2, <4>2 DEF Me
    <3> QED  BY <3>1, <3>2
  <2> QED  BY <2>1, <2>2 DEF Belongs, Me
<1>9. Controlled(p, task'[t]) /\ Ready(Me(t))
  BY <1>1, SameLevel, WhereItIs
<1>10. ASSUME NEW u \in Tasks, Alive(u)'
       PROVE  Controlled(proc[task'[u].of].prog, task'[u]) /\ Ready(proc[task'[u].of])
  <2>1. CASE u = n
    <3>1. Controlled(p, task'[n])
      BY <1>1, <1>6, <1>7, AtBottom
    <3> QED  BY <1>1, <1>9, <2>1, <3>1 DEF Me
  <2>2. CASE u = t
    BY <1>1, <1>9, <2>2 DEF Me
  <2>3. CASE u # t /\ u # n
    <3>1. Alive(u) /\ task'[u] = task[u]
      BY <1>1, <1>4, <1>10, <2>3, SMTT(20)
    <3> QED  BY <3>1, WhereItIs DEF Me
  <2> QED  BY <2>1, <2>2, <2>3
<1>11. \A u \in Tasks : Alive(u)' => (Controlled(Me(u).prog, task[u]) /\ Ready(Me(u)))'
  BY <1>1, <1>10 DEF Controlled, Ready, Me
<1> QED  BY <1>5, <1>8, <1>11 DEF ControlInv

(* Threads that end, and what happens to no thread.                        *)
LEMMA ControlRest ==
  ASSUME ControlInv, main' = main, Alike, DOMAIN task' = Tasks,
         \A u \in Tasks : \/ task'[u] = task[u]
                          \/ /\ task'[u].st = "gone" /\ task'[u].of = task[u].of /\ ThreadShape(task'[u])
                             /\ task[u].of \in Tasks /\ Born(task[u].of)
  PROVE  ControlInv'
<1>1. Shape'
  <2>1. \A u \in Tasks : ThreadShape(task'[u]) /\ ProcShape(proc'[u])
    BY DEF ControlInv, Shape, Alike
  <2>2. \A u \in Tasks : ThreadShape(task[u])' /\ ProcShape(proc[u])'
    BY <2>1 DEF ThreadShape, ProcShape
  <2> QED  BY <2>2 DEF Shape, Alike
<1>2. \A u \in Tasks : /\ task'[u].of = task[u].of /\ (Born(u) => Born(u)')
                       /\ Born(u)' => task[u].of \in Tasks /\ Born(task[u].of)
                       /\ Alive(u)' => Alive(u) /\ task'[u] = task[u]
  BY DEF ControlInv, Belongs, Alive, Born
<1>3. \A u \in Tasks : Alive(u) => task[u].of \in Tasks /\ Me(u)'.prog = Me(u).prog
  BY <1>2 DEF ControlInv, Belongs, Alive, Born, Alike, Me
<1>4. Belongs'
  <2>1. \A u \in Tasks : Born(u)' => task'[u].of \in Tasks /\ Born(task[u].of)'
    BY <1>2 DEF Born
  <2>2. ASSUME NEW u \in Tasks, NEW v \in Tasks, Alive(u)', Alive(v)', task'[u].of = task'[v].of, u # v
        PROVE  Has(Me(u)'.prog, {"thread"})
    <3>1. Alive(u) /\ Alive(v) /\ task[u].of = task[v].of
      BY <1>2, <2>2
    <3>2. Has(Me(u).prog, {"thread"})
      BY <2>2, <3>1 DEF ControlInv, Belongs
    <3> QED  BY <1>3, <3>1, <3>2
  <2> QED  BY <2>1, <2>2 DEF Belongs
<1>5. ASSUME NEW u \in Tasks, Alive(u)'
      PROVE  Controlled(proc'[task'[u].of].prog, task'[u]) /\ Ready(proc'[task'[u].of])
  <2>1. Alive(u) /\ task'[u] = task[u] /\ task[u].of \in Tasks
    BY <1>2, <1>3, <1>5
  <2>2. Controlled(Me(u).prog, task[u]) /\ Ready(Me(u))
    BY <2>1, WhereItIs
  <2>3. Controlled(proc'[task[u].of].prog, task'[u])
    BY <2>1, <2>2, SMTT(20) DEF Alike, Me
  <2>4. Ready(proc'[task[u].of])
    BY <2>1, <2>2 DEF Alike, Ready, Me
  <2> QED  BY <2>1, <2>3, <2>4
<1>6. \A u \in Tasks : Alive(u)' => (Controlled(Me(u).prog, task[u]) /\ Ready(Me(u)))'
  BY <1>5 DEF Controlled, Ready, Me
<1> QED  BY <1>1, <1>4, <1>6 DEF ControlInv

(* A step that changes only what the proofs do not look at.                *)
LEMMA OnlyFields ==
  ASSUME Shape, task' = task, DOMAIN proc' = Tasks,
         \A q \in Tasks : /\ DOMAIN proc'[q] = ProcFields
                          /\ \A f \in ProcFields \ {"pend", "clock"} : proc'[q][f] = proc[q][f]
  PROVE  Idles
<1>1. \A q \in Tasks : ProcShape(proc'[q])
  BY DEF Shape, ProcShape, ProcFields
<1>2. Alike
  BY <1>1 DEF Alike, ProcFields
<1> QED  BY <1>2 DEF Idles, ProcFields

(* The alarm rings.                                                        *)
LEMMA RingIdles ==
  ASSUME Shape, NEW p \in Tasks, Ring(p)
  PROVE  Idles
<1>1. task' = task /\ proc' = [proc EXCEPT ![p].clock = FALSE, ![p].pend = @ \cup {"ALRM"}]
  BY DEF Ring
<1>2. DOMAIN proc = Tasks /\ \A q \in Tasks : DOMAIN proc[q] = ProcFields
  BY DEF Shape, ProcShape
<1>3. DOMAIN proc' = Tasks
  BY <1>1, <1>2
<1>4. ASSUME NEW q \in Tasks
      PROVE  /\ DOMAIN proc'[q] = ProcFields
             /\ \A f \in ProcFields \ {"pend", "clock"} : proc'[q][f] = proc[q][f]
  <2>1. CASE q = p
    <3>1. proc'[p] = [proc[p] EXCEPT !.clock = FALSE, !.pend = @ \cup {"ALRM"}]
      BY <1>1, <1>2
    <3> QED  BY <1>2, <2>1, <3>1 DEF ProcFields
  <2>2. CASE q # p
    BY <1>1, <1>2, <2>2
  <2> QED  BY <2>1, <2>2
<1> QED  BY <1>1, <1>3, <1>4, OnlyFields

(* A signal comes from outside.                                            *)
LEMMA KeyIdles ==
  ASSUME Shape, NEW s, Key(s)
  PROVE  Idles
<1>1. task' = task /\ proc' = [proc EXCEPT ![1].pend = @ \cup {s}]
  BY DEF Key
<1>2. DOMAIN proc = Tasks /\ \A q \in Tasks : DOMAIN proc[q] = ProcFields
  BY DEF Shape, ProcShape
<1>3. DOMAIN proc' = Tasks
  BY <1>1, <1>2
<1>4. ASSUME NEW q \in Tasks
      PROVE  /\ DOMAIN proc'[q] = ProcFields
             /\ \A f \in ProcFields \ {"pend", "clock"} : proc'[q][f] = proc[q][f]
  <2>1. CASE q = 1
    <3>1. proc'[1] = [proc[1] EXCEPT !.pend = @ \cup {s}]
      BY <1>1, <1>2, <2>1
    <3> QED  BY <1>2, <2>1, <3>1 DEF ProcFields
  <2>2. CASE q # 1
    BY <1>1, <1>2, <2>2
  <2> QED  BY <2>1, <2>2
<1> QED  BY <1>1, <1>3, <1>4, OnlyFields

(* What a step of the program is to the proofs: a call by a thread that is *)
(* not in sigsuspend, a handler, an end, or nothing.                       *)
Acts(t) ==
  \/ task[t].st # "suspend" /\ Calls(t)
  \/ Finishes(t) \/ \E s \in Sigs : Interrupts(t, s)

(* A call.                                                                 *)
LEMMA StepActs ==
  ASSUME Rules, ControlInv, NEW t \in Tasks, Step(t)
  PROVE  main' = main /\ task[t].st = "run" /\ Alive(t) /\ Calls(t)
<1>1. task[t].st = "run" /\ Alive(t) /\ main' = main
  BY DEF Step, Runs, Alive, world
<1>2. Op(t) = "return" => task[t].frames # <<>>
  BY <1>1, ReturnsInside
<1>3. Op(t) = "longjmp" => Arg(t) \in {1, 2}
  <2>1. /\ Me(t).prog \in Programs
        /\ task[t].pc[1] \in DOMAIN Code[Me(t).prog]
        /\ task[t].pc[2] \in DOMAIN Code[Me(t).prog][task[t].pc[1]]
        /\ Ins(t) = Code[Me(t).prog][task[t].pc[1]][task[t].pc[2]]
    BY <1>1, WhereItIs DEF Instruction
  <2>2. WellMade(Me(t).prog)
    BY <2>1 DEF Rules
  <2>3. \A c \in DOMAIN Code[Me(t).prog] : \A k \in DOMAIN Code[Me(t).prog][c] :
          Code[Me(t).prog][c][k][1] = "longjmp" => Code[Me(t).prog][c][k][2] \in {1, 2}
    BY <2>2 DEF WellMade
  <2>4. Ins(t)[1] = "longjmp" => Ins(t)[2] \in {1, 2}
    BY <2>1, <2>3
  <2> QED  BY <2>4 DEF Op, Arg
<1>4. Shape /\ task[t].of \in Tasks
  BY <1>1, WhereItIs
<1> QED  BY <1>1, <1>2, <1>3, <1>4, StepForms

(* The end of a call that waited.                                          *)
LEMMA WakeActs ==
  ASSUME ControlInv, NEW t \in Tasks, Wake(t) \/ Input(t)
  PROVE  main' = main /\ task[t].st # "suspend" /\ Alive(t) /\ Op(t) \in Waits /\ Moves(t)
<1>1. /\ task[t].st \in {"sleep", "read"} /\ Alive(t) /\ main' = main /\ UNCHANGED proc
      /\ \E r : Goes(t, [Returns(t, r) EXCEPT !.st = "run"])
  BY DEF Wake, Input, Alive, world
<1>2. Shape /\ Op(t) \in Waits
  BY <1>1, WhereItIs DEF Controlled, Op
<1> QED  BY <1>1, <1>2, WakeMoves

(* A signal.                                                               *)
LEMMA DeliverActs ==
  ASSUME ControlInv, NEW t \in Tasks, NEW s \in Sigs, Deliver(t, s)
  PROVE  main' = main /\ Alive(t) /\ (Interrupts(t, s) \/ Finishes(t) \/ Idles)
<1>1. Alive(t) /\ main' = main
  BY DEF Deliver, world
<1>2. Shape /\ task[t].of \in Tasks
  BY <1>1, WhereItIs
<1> QED  BY <1>1, <1>2, DeliverForms

(* Every step has one of these forms.                                      *)
LEMMA NextForms ==
  ASSUME Rules, ControlInv, Next
  PROVE  main' = main /\ (Idles \/ \E t \in Tasks : Alive(t) /\ Acts(t))
<1>1. ASSUME NEW t \in Tasks, Step(t)
      PROVE  main' = main /\ Alive(t) /\ Acts(t)
  BY <1>1, StepActs DEF Acts
<1>2. ASSUME NEW t \in Tasks, Wake(t) \/ Input(t)
      PROVE  main' = main /\ Alive(t) /\ Acts(t)
  BY <1>2, WakeActs DEF Acts, Calls
<1>3. ASSUME NEW t \in Tasks, NEW s \in Sigs, Deliver(t, s)
      PROVE  main' = main /\ (Idles \/ (Alive(t) /\ Acts(t)))
  BY <1>3, DeliverActs DEF Acts
<1>4. Shape
  BY DEF ControlInv
<1>5. ASSUME NEW t \in Tasks, Ring(t)
      PROVE  main' = main /\ Idles
  BY <1>4, <1>5, RingIdles DEF Ring
<1>6. ASSUME NEW s \in Sigs, Key(s)
      PROVE  main' = main /\ Idles
  BY <1>4, <1>6, KeyIdles DEF Key, world
<1> QED  BY <1>1, <1>2, <1>3, <1>5, <1>6 DEF Next, Progress

(* The first invariant is kept by every step ...                           *)
LEMMA ControlNext ==
  ASSUME Rules, ControlInv, [Next]_vars
  PROVE  ControlInv'
<1>1. Shape
  BY DEF ControlInv
<1>2. CASE UNCHANGED vars
  <2>1. task' = task /\ proc' = proc /\ main' = main
    BY <1>2 DEF vars
  <2>2. Alike /\ DOMAIN task' = Tasks
    BY <1>1, <2>1 DEF Shape, Alike
  <2> QED  BY <2>1, <2>2, ControlRest
<1>3. CASE Next
  <2>1. main' = main /\ (Idles \/ \E t \in Tasks : Alive(t) /\ Acts(t))
    BY <1>3, NextForms
  <2>2. CASE Idles
    BY <1>1, <2>1, <2>2, ControlRest DEF Idles, Shape
  <2>3. ASSUME NEW t \in Tasks, Alive(t), Acts(t) PROVE ControlInv'
    <3>1. CASE Finishes(t)
      <4>1. task[t].of \in Tasks /\ Born(task[t].of)
        BY <2>3 DEF ControlInv, Belongs, Alive, Born
      <4> QED  BY <2>1, <3>1, <4>1, ControlRest DEF Finishes
    <3>2. CASE \E s \in Sigs : Interrupts(t, s)
      BY <2>1, <2>3, <3>2, ControlInterrupts
    <3>3. CASE Calls(t)
      <4>1. CASE Moves(t) \/ Aborts(t) \/ Masks(t) \/ Halts(t) \/ Resumes(t)
        BY <2>1, <2>3, <4>1, ControlMoves, ControlHalts, ControlResumes
      <4>2. CASE Places(t) \/ Leaps(t) \/ Signs(t) \/ Adds(t) \/ CallsBack(t)
        BY <2>1, <2>3, <4>2, ControlPlaces, ControlLeaps, ControlSigns, ControlAdds, ControlCallsBack
      <4>3. CASE Begins(t) \/ (\E n \in Tasks : Forks(t, n)) \/ (\E n \in Tasks : Creates(t, n))
        BY <2>1, <2>3, <4>3, ControlBegins, ControlForks, ControlCreates
      <4> QED  BY <3>1, <3>3, <4>1, <4>2, <4>3 DEF Calls
    <3> QED  BY <2>3, <3>1, <3>2, <3>3 DEF Acts
  <2> QED  BY <2>1, <2>2, <2>3
<1> QED  BY <1>2, <1>3

(* The program that is observed does not change.                           *)
LEMMA MainStays == ASSUME [Next]_vars PROVE main' = main
  BY ZenonT(30) DEF Next, Progress, Step, Wake, Deliver, Ring, Input, Key, vars, world

(* A process with nothing registered, and a thread that begins its main.   *)
Fresh(p, prog) ==
  /\ ProcShape(p) /\ p.prog = prog /\ p.exits = <<>>
  /\ \A s \in Sigs : p.act[s].h = "DFL"
  /\ \A b \in {1, 2} : ~p.jmp[b].set
  /\ \A v \in Flags : p.mem[v] = 0
Beginning(tk, p) ==
  /\ ThreadShape(tk) /\ tk.st = "run" /\ tk.of = p /\ tk.pc = <<"main", 1>> /\ tk.frames = <<>>
  /\ tk.mask = {} /\ tk.own = {}

(* The start: one thread of one process, and tasks that are not used yet.  *)
LEMMA StartOfAll ==
  ASSUME NEW none,
         task = [t \in Tasks |-> IF t = 1 THEN Thread(1, "main", none)
                                          ELSE [Thread(0, "main", none) EXCEPT !.st = "unborn"]],
         proc = [t \in Tasks |-> IF t = 1 THEN Program(main, 0, "live")
                                          ELSE Program(none, 0, "unborn")]
  PROVE  /\ Shape /\ \A t \in Tasks : proc[t].buf = <<>> /\ proc[t].n = 0
         /\ \A t \in Tasks : Born(t) => t = 1 /\ Beginning(task[1], 1) /\ Fresh(proc[1], main)
<1>1. \A q, block : Beginning(Thread(q, "main", none), q)
  BY ThreadAtStart DEF Beginning
<1>2. \A prog, parent, st : /\ Fresh(Program(prog, parent, st), prog)
                            /\ Program(prog, parent, st).buf = <<>> /\ Program(prog, parent, st).n = 0
  BY ProgramAtStart DEF Fresh
<1>3. DOMAIN task = Tasks /\ DOMAIN proc = Tasks
  OBVIOUS
<1>4. ASSUME NEW t \in Tasks, t # 1
      PROVE  ThreadShape(task[t]) /\ task[t].st = "unborn"
  <2> DEFINE u == Thread(0, "main", none)
             w == [u EXCEPT !.st = "unborn"]
  <2>1. ThreadShape(u)
    BY ThreadAtStart
  <2>2. task[t] = w
    BY <1>4
  <2> HIDE DEF u
  <2>3. DOMAIN w = TaskFields /\ w.st = "unborn" /\ \A f \in TaskFields \ {"st"} : w[f] = u[f]
    BY <2>1 DEF ThreadShape, TaskFields
  <2> HIDE DEF w
  <2>4. ThreadShape(w)
    BY <2>1, <2>3 DEF ThreadShape, TaskFields
  <2> QED  BY <2>2, <2>3, <2>4
<1>5. \A t \in Tasks : t = 1 => Beginning(task[t], 1) /\ Fresh(proc[t], main)
  BY <1>1, <1>2
<1>6. \A t \in Tasks : ProcShape(proc[t]) /\ proc[t].buf = <<>> /\ proc[t].n = 0
  BY <1>2 DEF Fresh
<1>7. \A t \in Tasks : ThreadShape(task[t])
  BY <1>4, <1>5 DEF Beginning
<1> QED  BY <1>3, <1>4, <1>5, <1>6, <1>7 DEF Shape, Born

(* The same of the specification.                                          *)
LEMMA AtStart ==
  ASSUME Init
  PROVE  /\ Shape /\ main \in Start /\ \A t \in Tasks : proc[t].buf = <<>> /\ proc[t].n = 0
         /\ \A t \in Tasks : Born(t) => t = 1 /\ Beginning(task[1], 1) /\ Fresh(proc[1], main)
  BY StartOfAll, Zenon DEF Init, Unborn

(* ... and holds at the start.                                             *)
LEMMA ControlInit ==
  ASSUME Rules, Init
  PROVE  ControlInv
<1>1. Shape /\ main \in Programs
  BY AtStart DEF Rules, Programs
<1>2. ASSUME NEW t \in Tasks, Born(t)
      PROVE  /\ t = 1 /\ task[t].of = 1 /\ Me(t).prog = main
             /\ Controlled(Me(t).prog, task[t]) /\ Ready(Me(t))
  <2>1. t = 1 /\ Beginning(task[t], 1) /\ Fresh(proc[1], main)
    BY <1>2, AtStart
  <2>2. task[t].of = 1 /\ Me(t) = proc[1]
    BY <2>1 DEF Beginning, Me
  <2>3. "main" \in Outer(main)
    BY <1>1, Levels
  <2>4. Controlled(main, task[t])
    BY <1>1, <2>1, <2>3, AtBottom DEF Beginning
  <2>5. Ready(proc[1])
    BY <1>1, <2>1, ReadyAtStart DEF Fresh
  <2> QED  BY <2>1, <2>2, <2>4, <2>5 DEF Fresh
<1>3. \A t \in Tasks : Alive(t) => Born(t)
  BY DEF Alive, Born
<1>4. Belongs
  BY <1>2, <1>3 DEF Belongs
<1> QED  BY <1>1, <1>2, <1>3, <1>4 DEF ControlInv

(* The control of every program stays where its blocks allow: a handler    *)
(* returns to what it interrupted, nothing returns that was not called,    *)
(* no jump, handler or function named is missing.                          *)
THEOREM ControlKept ==
  ASSUME Rules
  PROVE  Spec => []ControlInv
BY ControlInit, ControlNext, PTL DEF Spec
-----------------------------------------------------------------------------
(* The program that was started is one of those the next two rest on, and  *)
(* so is each that is executed.                                            *)
Observed == main # "ssu_sigsetjmp_1"
Fitting == \A t \in Tasks : Alive(t) => Me(t).prog \in Fit

(* Most steps are of one thread in its process.                            *)
LEMMA Inners ==
  ASSUME NEW t \in Tasks, Acts(t)
  PROVE  Inner(t) \/ Finishes(t) \/ Begins(t) \/ (\E n \in Tasks : Forks(t, n) \/ Creates(t, n))
<1>1. Moves(t) \/ Aborts(t) \/ Masks(t) \/ Halts(t) \/ Resumes(t) => Inner(t)
  BY DEF Inner, Moves, Aborts, Masks, Halts, Resumes, Steady, Alike
<1>2. Places(t) \/ Leaps(t) \/ Signs(t) \/ Adds(t) \/ CallsBack(t) => Inner(t)
  BY DEF Inner, Places, Leaps, Signs, Adds, CallsBack, Steady, OthersAlike
<1>3. (\E s \in Sigs : Interrupts(t, s)) => Inner(t)
  BY DEF Inner, Interrupts, OthersAlike
<1> QED  BY <1>1, <1>2, <1>3 DEF Acts, Calls

LEMMA FittingNext ==
  ASSUME Rules, ControlInv, Fitting, [Next]_vars
  PROVE  Fitting'
<1> SUFFICES ASSUME NEW u \in Tasks, Alive(u)'
             PROVE  proc'[task'[u].of].prog \in Fit
  BY DEF Fitting, Me
<1>1. Alive(u) => task[u].of \in Tasks /\ proc[task[u].of].prog \in Fit
  BY WhereItIs DEF Fitting, Me
<1>2. CASE UNCHANGED vars
  BY <1>1, <1>2 DEF vars, Alive
<1>3. CASE Next
  <2>1. Idles \/ \E t \in Tasks : Alive(t) /\ Acts(t)
    BY <1>3, NextForms
  <2>2. CASE Idles
    BY <1>1, <2>2 DEF Idles, Alike, Alive
  <2>3. ASSUME NEW t \in Tasks, Alive(t), Acts(t)
        PROVE  proc'[task'[u].of].prog \in Fit
    <3>1. task[t].of \in Tasks /\ proc[task[t].of].prog \in Fit
      BY <2>3, WhereItIs DEF Fitting, Me
    <3>2. CASE Finishes(t)
      BY <1>1, <3>2 DEF Finishes, Alike, Alive
    <3>3. CASE Inner(t)
      BY <1>1, <2>3, <3>3 DEF Inner, Alone, Alive
    <3>4. CASE Begins(t)
      <4>1. Arg(t) \in Fit
        BY <2>3, <3>4, ExecutesAlone DEF Begins
      <4>2. /\ proc'[task[t].of].prog = Arg(t) /\ Alone(t) /\ task'[t].of = task[t].of
            /\ \A q \in Tasks : q # task[t].of => proc'[q] = proc[q]
        BY <3>4 DEF Begins, Me
      <4> QED  BY <1>1, <3>1, <4>1, <4>2 DEF Alone, Alive
    <3>5. ASSUME NEW n \in Tasks, Forks(t, n)
          PROVE  proc'[task'[u].of].prog \in Fit
      <4>1. /\ task'[t].of = task[t].of /\ task'[n].of = n /\ proc'[n].prog = proc[task[t].of].prog
            /\ \A v \in Tasks : v # t /\ v # n => task'[v] = task[v]
            /\ \A q \in Tasks : q # n => proc'[q] = proc[q]
        BY <3>5 DEF Forks, Me
      <4> QED  BY <1>1, <3>1, <4>1 DEF Alive
    <3>6. ASSUME NEW n \in Tasks, Creates(t, n)
          PROVE  proc'[task'[u].of].prog \in Fit
      BY <1>1, <3>1, <3>6 DEF Creates, Alive
    <3> QED  BY <2>3, <3>2, <3>3, <3>4, <3>5, <3>6, Inners
  <2> QED  BY <2>1, <2>2, <2>3
<1> QED  BY <1>2, <1>3

LEMMA FittingInit ==
  ASSUME Rules, Init, Observed
  PROVE  Fitting
<1>1. main \in Fit
  BY AtStart DEF Rules, Fit, Observed
<1>2. \A t \in Tasks : Alive(t) => Born(t)
  BY DEF Alive, Born
<1> QED  BY <1>1, <1>2, AtStart DEF Fitting, Beginning, Fresh, Me

-----------------------------------------------------------------------------
(* The masks: the second invariant, on top of the first.                   *)

(* No signal is called as the frames of exit are.                          *)
LEMMA SignalsHaveNames == \A s \in Sigs : s # None
  BY DEF Sigs, None

(* A step of t in its process keeps the invariant, if t and the places its *)
(* process kept have the masks they should.                                *)
LEMMA MaskStep ==
  ASSUME ControlInv, MaskInv, NEW t \in Tasks, Alive(t), Inner(t),
         Masked(Me(t).prog, task'[t]), SavedMasks(proc'[task[t].of])
  PROVE  MaskInv'
<1>1. \A u \in Tasks : u # t => task'[u] = task[u]
  BY DEF Inner, Alone
<1>2. task'[t].of = task[t].of
  BY DEF Inner
<1>3. \A q \in Tasks : /\ proc'[q].prog = proc[q].prog
                       /\ q # task[t].of => proc'[q].jmp = proc[q].jmp
  BY DEF Inner
<1>4. ASSUME NEW u \in Tasks, Alive(u)'
      PROVE  Masked(proc'[task'[u].of].prog, task'[u]) /\ SavedMasks(proc'[task'[u].of])
  <2>1. Alive(u)
    BY <1>1, <1>4 DEF Alive
  <2>2. task[u].of \in Tasks /\ Masked(Me(u).prog, task[u]) /\ SavedMasks(Me(u))
    BY <2>1, WhereItIs DEF MaskInv
  <2>3. CASE u = t
    BY <1>2, <1>3, <2>2, <2>3 DEF Me
  <2>4. CASE u # t
    <3>1. task'[u] = task[u] /\ proc'[task[u].of].prog = Me(u).prog
      BY <1>1, <1>3, <2>2, <2>4 DEF Me
    <3>2. SavedMasks(proc'[task[u].of])
      <4>1. CASE task[u].of = task[t].of
        BY <4>1, SMTT(20)
      <4>2. CASE task[u].of # task[t].of
        BY <1>3, <2>2, <3>1, <4>2 DEF SavedMasks, Me
      <4> QED  BY <4>1, <4>2
    <3> QED  BY <2>2, <3>1, <3>2
  <2> QED  BY <2>3, <2>4
<1>5. \A u \in Tasks : Alive(u)' => (Masked(Me(u).prog, task[u]) /\ SavedMasks(Me(u)))'
  BY <1>4 DEF Masked, NoSignal, SavedMasks, Me
<1> QED  BY <1>5 DEF MaskInv

(* Which calls the program of a thread has.                                *)
LEMMA ItHas ==
  ASSUME Rules, ControlInv, NEW t \in Tasks, Alive(t)
  PROVE  /\ \A S : Op(t) \in S => Has(Me(t).prog, S)
         /\ Op(t) \in {"longjmp", "abort", "exec"} => ~Has(Me(t).prog, Masking)
<1> DEFINE p == Me(t).prog
<1>1. /\ p \in Programs /\ task[t].pc[1] \in DOMAIN Code[p]
      /\ task[t].pc[2] \in DOMAIN Code[p][task[t].pc[1]]
      /\ Ins(t) = Code[p][task[t].pc[1]][task[t].pc[2]]
  BY WhereItIs DEF Instruction
<1>2. \A S : Op(t) \in S => Has(p, S)
  BY <1>1 DEF Has, Op
<1>3. Has(p, {"longjmp", "abort", "exec"}) => ~Has(p, Masking)
  BY <1>1 DEF Rules, Mannered
<1> QED  BY <1>2, <1>3

(* A call that goes on or waits, and leaves the mask alone.                *)
LEMMA MaskMoves ==
  ASSUME ControlInv, MaskInv, NEW t \in Tasks, Alive(t), task[t].st # "suspend",
         Moves(t) \/ Halts(t) \/ Signs(t) \/ Adds(t)
  PROVE  MaskInv'
<1>1. /\ Inner(t) /\ task'[t].own = task[t].own /\ task'[t].frames = task[t].frames
      /\ task'[t].st # "suspend" => task'[t].mask = task[t].mask
  <2>1. CASE Moves(t)
    BY <2>1 DEF Moves, Steady, Inner, Alike
  <2>2. CASE Halts(t)
    BY <2>2 DEF Halts, Inner, Alike
  <2>3. CASE Signs(t) \/ Adds(t)
    BY <2>3 DEF Signs, Adds, Steady, Inner, OthersAlike
  <2> QED  BY <2>1, <2>2, <2>3
<1>2. Masked(Me(t).prog, task[t]) /\ SavedMasks(Me(t)) /\ task[t].of \in Tasks
  BY WhereItIs DEF MaskInv
<1>3. Masked(Me(t).prog, task'[t])
  BY <1>1, <1>2 DEF Masked
<1>4. proc'[task[t].of].prog = Me(t).prog /\ proc'[task[t].of].jmp = Me(t).jmp
  BY <1>2, Zenon DEF Moves, Halts, Signs, Adds, Alike, OthersAlike, Steady, Me
<1>5. SavedMasks(proc'[task[t].of])
  BY <1>2, <1>4 DEF SavedMasks
<1> QED  BY <1>1, <1>3, <1>5, MaskStep

(* abort unblocks its signal in a program that blocked none; sigprocmask   *)
(* is called outside of the handlers.                                      *)
LEMMA MaskAbortsMasks ==
  ASSUME Rules, ControlInv, MaskInv, NEW t \in Tasks, Alive(t), task[t].st # "suspend",
         Aborts(t) \/ Masks(t)
  PROVE  MaskInv'
<1>1. Inner(t) /\ task'[t].frames = task[t].frames /\ Alike
  BY DEF Aborts, Masks, Steady, Inner, Alike
<1>2. Masked(Me(t).prog, task[t]) /\ SavedMasks(Me(t)) /\ task[t].of \in Tasks
  BY WhereItIs DEF MaskInv
<1>3. SavedMasks(proc'[task[t].of])
  BY <1>1, <1>2 DEF SavedMasks, Alike, Me
<1>4. CASE Aborts(t)
  <2>1. /\ Op(t) \in {"longjmp", "abort", "exec"} /\ task'[t].mask = task[t].mask \ {"ABRT"}
        /\ task'[t].own = task[t].own
    BY <1>4 DEF Aborts, Steady
  <2>2. task[t].own = {}
    BY <1>2, <2>1, ItHas DEF Masked
  <2>3. Masked(Me(t).prog, task'[t])
    BY <1>1, <1>2, <2>1, <2>2 DEF Masked
  <2> QED  BY <1>1, <1>3, <2>3, MaskStep
<1>5. CASE Masks(t)
  <2>1. Op(t) \in Masking /\ task'[t].mask = task'[t].own
    BY <1>5 DEF Masks
  <2>2. task[t].frames = <<>>
    BY <2>1, OutsideOnly
  <2>3. Has(Me(t).prog, Masking)
    BY <2>1, ItHas
  <2>4. Masked(Me(t).prog, task'[t])
    BY <1>1, <2>1, <2>2, <2>3 DEF Masked
  <2> QED  BY <1>1, <1>3, <2>4, MaskStep
<1> QED  BY <1>4, <1>5

(* A handler gives back the mask of what it interrupted.                   *)
LEMMA MaskResumes ==
  ASSUME Rules, ControlInv, MaskInv, NEW t \in Tasks, Alive(t), Resumes(t)
  PROVE  MaskInv'
<1> DEFINE p == Me(t).prog
           f == task[t].frames
<1>1. /\ Inner(t) /\ task'[t].own = task[t].own /\ task'[t].frames = Front(f) /\ Alike
      /\ task'[t].mask = Last(f).mask /\ Op(t) = "return"
  BY DEF Resumes, Inner, Alike
<1>2. Masked(p, task[t]) /\ SavedMasks(Me(t)) /\ task[t].of \in Tasks
  BY WhereItIs DEF MaskInv
<1>3. SavedMasks(proc'[task[t].of])
  BY <1>1, <1>2 DEF SavedMasks, Alike, Me
<1>4. f # <<>> /\ Len(f) >= 1 /\ IsSeq(f) /\ Len(f) \in Nat /\ DOMAIN f = 1..Len(f)
  BY <1>1, ReturnsInside, WhereItIs DEF ThreadShape
<1>5. /\ Len(Front(f)) = Len(f) - 1 /\ DOMAIN Front(f) = 1..(Len(f) - 1)
      /\ \A k \in 1..(Len(f) - 1) : Front(f)[k] = f[k]
      /\ Last(f) = f[Len(f)]
  BY <1>4, WithoutTop
<1>6. \A n \in Nat : n <= Len(f) - 1 => (NoSignal(Front(f), n) <=> NoSignal(f, n))
  <2>1. ASSUME NEW n \in Nat, n <= Len(f) - 1 PROVE \A k \in 1..n : Front(f)[k] = f[k]
    BY <1>4, <1>5, <2>1
  <2> QED  BY <2>1 DEF NoSignal
<1>7. \A k \in DOMAIN f : NoSignal(f, k - 1) => f[k].mask = task[t].own
  BY <1>2 DEF Masked
<1>8. NoSignal(Front(f), Len(Front(f))) => Last(f).mask = task[t].own
  <2>1. Len(f) \in DOMAIN f /\ Len(f) - 1 \in Nat /\ Len(f) - 1 <= Len(f) - 1
    BY <1>4
  <2> QED  BY <1>5, <1>6, <1>7, <2>1
<1>9. \A k \in DOMAIN Front(f) : NoSignal(Front(f), k - 1) => Front(f)[k].mask = task[t].own
  <2>1. \A k \in 1..(Len(f) - 1) : k \in DOMAIN f /\ k - 1 \in Nat /\ k - 1 <= Len(f) - 1
    BY <1>4
  <2> QED  BY <1>5, <1>6, <1>7, <2>1
<1>10. ~Has(p, Masking) => task[t].own = {}
  BY <1>2 DEF Masked
<1> HIDE DEF f
<1>11. Masked(p, task'[t])
  BY <1>1, <1>8, <1>9, <1>10 DEF Masked
<1> QED  BY <1>1, <1>3, <1>11, MaskStep

(* What is pushed on the frames holds the mask asked for, if there is no   *)
(* handler below it.                                                       *)
LEMMA MaskCalled ==
  ASSUME NEW p, NEW old, NEW tk, NEW e, ThreadShape(old), Masked(p, old),
         tk.own = old.own, tk.frames = Append(old.frames, e),
         NoSignal(old.frames, Len(old.frames)) => e.mask = old.own,
         e.sig = None => old.st # "suspend" /\ tk.mask = old.mask
  PROVE  Masked(p, tk)
<1> DEFINE f == old.frames
           g == tk.frames
<1>1. IsSeq(f) /\ Len(f) \in Nat /\ DOMAIN f = 1..Len(f)
  BY SeqOfItsElements DEF ThreadShape, IsSeq
<1>2. /\ DOMAIN g = 1..(Len(f) + 1) /\ Len(g) = Len(f) + 1
      /\ \A k \in 1..Len(f) : g[k] = f[k]
      /\ g[Len(f) + 1] = e
  BY <1>1, OnTop
<1>3. \A n \in Nat : n <= Len(f) => (NoSignal(g, n) <=> NoSignal(f, n))
  <2>1. ASSUME NEW n \in Nat, n <= Len(f) PROVE \A k \in 1..n : g[k] = f[k]
    BY <1>1, <1>2, <2>1
  <2> QED  BY <2>1 DEF NoSignal
<1>4. \A k \in DOMAIN f : NoSignal(f, k - 1) => f[k].mask = old.own
  BY DEF Masked
<1>5. ASSUME NEW k \in DOMAIN g, NoSignal(g, k - 1)
      PROVE  g[k].mask = tk.own
  <2>1. CASE k = Len(f) + 1
    <3>1. k - 1 = Len(f) /\ Len(f) <= Len(f)
      BY <1>1, <2>1
    <3> QED  BY <1>1, <1>2, <1>3, <1>5, <2>1, <3>1
  <2>2. CASE k # Len(f) + 1
    <3>1. k \in 1..Len(f) /\ k - 1 \in Nat /\ k - 1 <= Len(f)
      BY <1>1, <1>2, <2>2
    <3> QED  BY <1>1, <1>2, <1>3, <1>4, <1>5, <3>1
  <2> QED  BY <2>1, <2>2
<1>6. NoSignal(g, Len(g)) => tk.mask = tk.own
  <2>1. SUFFICES ASSUME NoSignal(g, Len(g)) PROVE tk.mask = tk.own
    OBVIOUS
  <2>2. Len(f) + 1 \in 1..Len(g) /\ \A k \in 1..Len(f) : k \in 1..Len(g)
    BY <1>1, <1>2
  <2>3. e.sig = None
    BY <1>2, <2>1, <2>2 DEF NoSignal
  <2>4. NoSignal(f, Len(f))
    BY <1>2, <2>1, <2>2 DEF NoSignal
  <2> QED  BY <2>3, <2>4 DEF Masked
<1>7. ~Has(p, Masking) => tk.own = {}
  BY DEF Masked
<1> HIDE DEF f, g
<1> QED  BY <1>5, <1>6, <1>7 DEF Masked, g

(* A function that exit calls, and a handler.                              *)
LEMMA MaskInterrupts ==
  ASSUME ControlInv, MaskInv, NEW t \in Tasks, Alive(t),
         \/ CallsBack(t) /\ task[t].st # "suspend"
         \/ \E s \in Sigs : Interrupts(t, s)
  PROVE  MaskInv'
<1>1. /\ Inner(t) /\ task'[t].own = task[t].own /\ OthersAlike(t)
      /\ Me(t)'.jmp = Me(t).jmp
  BY DEF CallsBack, Interrupts, Inner, OthersAlike
<1>2. /\ Masked(Me(t).prog, task[t]) /\ SavedMasks(Me(t)) /\ task[t].of \in Tasks
      /\ ThreadShape(task[t])
  BY WhereItIs DEF MaskInv
<1>3. proc'[task[t].of].prog = Me(t).prog /\ proc'[task[t].of].jmp = Me(t).jmp
  BY <1>1, <1>2 DEF OthersAlike, Inner, Me
<1>4. SavedMasks(proc'[task[t].of])
  BY <1>2, <1>3 DEF SavedMasks
<1>5. NoSignal(task[t].frames, Len(task[t].frames)) /\ task[t].st # "suspend"
        => task[t].mask = task[t].own
  BY <1>2 DEF Masked
<1>6. CASE CallsBack(t) /\ task[t].st # "suspend"
  <2>1. PICK e : /\ task'[t].frames = Append(task[t].frames, e)
                 /\ e.mask = task[t].mask
    BY <1>6 DEF CallsBack
  <2>2. task'[t].mask = task[t].mask
    BY <1>6 DEF CallsBack
  <2>3. Masked(Me(t).prog, task'[t])
    BY <1>1, <1>2, <1>5, <1>6, <2>1, <2>2, MaskCalled
  <2> QED  BY <1>1, <1>4, <2>3, MaskStep
<1>7. ASSUME NEW s \in Sigs, Interrupts(t, s) PROVE MaskInv'
  <2>1. PICK e : /\ task'[t].frames = Append(task[t].frames, e) /\ e.sig = s
                 /\ e.mask = IF task[t].st = "suspend" THEN task[t].own ELSE task[t].mask
    BY <1>7 DEF Interrupts
  <2>2. e.sig # None
    BY <2>1, SignalsHaveNames
  <2>3. Masked(Me(t).prog, task'[t])
    BY <1>1, <1>2, <1>5, <2>1, <2>2, MaskCalled
  <2> QED  BY <1>1, <1>4, <2>3, MaskStep
<1> QED  BY <1>6, <1>7

(* setjmp is called with the mask in force that was asked for.             *)
LEMMA MaskPlaces ==
  ASSUME Rules, ControlInv, MaskInv, NEW t \in Tasks, Alive(t), task[t].st # "suspend", Places(t)
  PROVE  MaskInv'
<1> DEFINE p == Me(t).prog
           q == proc'[task[t].of]
<1>1. /\ Inner(t) /\ task'[t].own = task[t].own /\ task'[t].frames = task[t].frames
      /\ task'[t].mask = task[t].mask /\ Op(t) = "setjmp" /\ OthersAlike(t)
      /\ \A b \in {1, 2} : \/ b = Arg(t) /\ q.jmp[b].saved = Ins(t)[3] /\ q.jmp[b].mask = task[t].mask
                           \/ b # Arg(t) /\ q.jmp[b] = Me(t).jmp[b]
  BY DEF Places, Steady, Inner, OthersAlike, Me
<1>2. Masked(p, task[t]) /\ SavedMasks(Me(t)) /\ task[t].of \in Tasks /\ p \in Programs
  BY WhereItIs DEF MaskInv
<1>3. Masked(p, task'[t])
  BY <1>1, <1>2 DEF Masked
<1>4. q.prog = p
  BY <1>1, <1>2 DEF OthersAlike, Me
<1>5. ~Has(p, Masking) => task[t].mask = {}
  <2>1. task[t].frames = <<>> /\ Len(task[t].frames) = 0
    BY <1>1, OutsideOnly
  <2>2. NoSignal(task[t].frames, Len(task[t].frames))
    BY <2>1 DEF NoSignal
  <2> QED  BY <1>2, <2>2 DEF Masked
<1>6. AllSaved(p, Arg(t)) => Ins(t)[3]
  <2>1. /\ task[t].pc[1] \in DOMAIN Code[p]
        /\ task[t].pc[2] \in DOMAIN Code[p][task[t].pc[1]]
        /\ Ins(t) = Code[p][task[t].pc[1]][task[t].pc[2]]
    BY WhereItIs DEF Instruction
  <2>2. Ins(t)[1] = "setjmp" /\ Ins(t)[2] = Arg(t)
    BY <1>1 DEF Op, Arg
  <2> HIDE DEF p
  <2> QED  BY <2>1, <2>2 DEF AllSaved
<1>7. SavedMasks(q)
  <2>1. ASSUME NEW b \in {1, 2}, q.jmp[b].set
        PROVE  /\ AllSaved(p, b) => q.jmp[b].saved
               /\ q.jmp[b].saved /\ ~Has(p, Masking) => q.jmp[b].mask = {}
    <3>1. CASE b = Arg(t)
      BY <1>1, <1>5, <1>6, <3>1, SMTT(20)
    <3>2. CASE b # Arg(t)
      BY <1>1, <1>2, <2>1, <3>2 DEF SavedMasks
    <3> QED  BY <3>1, <3>2
  <2> QED  BY <1>4, <2>1 DEF SavedMasks
<1> QED  BY <1>1, <1>3, <1>7, MaskStep

(* A jump out of a handler gives the mask back that was kept; a jump from  *)
(* elsewhere finds it in force.                                            *)
LEMMA MaskLeaps ==
  ASSUME Rules, ControlInv, Fitting, MaskInv, NEW t \in Tasks, Alive(t), task[t].st # "suspend", Leaps(t)
  PROVE  MaskInv'
<1> DEFINE p == Me(t).prog
           j == Me(t).jmp[Arg(t)]
<1>1. /\ Inner(t) /\ task'[t].own = task[t].own /\ task'[t].frames = <<>> /\ Alike
      /\ task'[t].mask = (IF j.saved THEN j.mask ELSE task[t].mask)
      /\ j.set /\ Op(t) = "longjmp"
  BY DEF Leaps, Inner, Alike
<1>2. /\ Masked(p, task[t]) /\ SavedMasks(Me(t)) /\ task[t].of \in Tasks /\ p \in Programs
      /\ Controlled(p, task[t]) /\ ThreadShape(task[t])
      /\ task[t].pc[1] \in DOMAIN Code[p]
      /\ task[t].pc[2] \in DOMAIN Code[p][task[t].pc[1]]
      /\ Ins(t) = Code[p][task[t].pc[1]][task[t].pc[2]]
  BY WhereItIs DEF MaskInv, Instruction
<1>3. SavedMasks(proc'[task[t].of])
  BY <1>1, <1>2, Zenon DEF SavedMasks, Alike, Me
<1>4. ~Has(p, Masking) /\ task[t].own = {}
  BY <1>1, <1>2, ItHas DEF Masked
<1>5. Ins(t)[1] = "longjmp" /\ Ins(t)[2] = Arg(t)
  BY <1>1 DEF Op, Arg
<1>6. Arg(t) \in {1, 2}
  <2>1. WellMade(p)
    BY <1>2 DEF Rules
  <2>2. \A c \in DOMAIN Code[p] : \A k \in DOMAIN Code[p][c] :
          Code[p][c][k][1] = "longjmp" => Code[p][c][k][2] \in {1, 2}
    BY <2>1 DEF WellMade
  <2> QED  BY <1>2, <1>5, <2>2
<1>7. AllSaved(p, Arg(t)) => j.saved
  BY <1>1, <1>2, <1>6 DEF SavedMasks
<1>8. j.saved => j.mask = {}
  BY <1>1, <1>2, <1>4, <1>6 DEF SavedMasks
<1>9. ~j.saved => task[t].mask = {}
  <2>1. SUFFICES ASSUME ~j.saved PROVE task[t].mask = {}
    OBVIOUS
  <2>2. task[t].pc[1] \notin Inside(p)
    <3>1. SavesMasks(p)
      BY DEF Rules, Fitting
    <3>2. \A c \in Inside(p) : \A k \in DOMAIN Code[p][c] :
            Code[p][c][k][1] = "longjmp" => AllSaved(p, Code[p][c][k][2])
      BY <3>1 DEF SavesMasks, AllSaved
    <3> QED  BY <1>2, <1>5, <1>7, <2>1, <3>2
  <2>3. Len(task[t].frames) = 0
    BY <1>2, <2>2 DEF Controlled, Level
  <2>4. NoSignal(task[t].frames, Len(task[t].frames))
    BY <2>3 DEF NoSignal
  <2> QED  BY <1>2, <1>4, <2>4 DEF Masked
<1>10. task'[t].mask = {} /\ task'[t].own = {}
  BY <1>1, <1>4, <1>8, <1>9
<1>11. Masked(p, task'[t])
  BY <1>1, <1>10, EmptyIsSeq DEF Masked
<1> QED  BY <1>1, <1>3, <1>11, MaskStep

(* exec keeps the mask, which a program that executes another never set.   *)
LEMMA MaskBegins ==
  ASSUME Rules, ControlInv, MaskInv, NEW t \in Tasks, Alive(t), task[t].st # "suspend", Begins(t)
  PROVE  MaskInv'
<1> DEFINE o == task[t].of
<1>1. /\ DOMAIN task' = Tasks /\ (\A u \in Tasks : u # t => task'[u] = task[u])
      /\ task'[t].of = o /\ task'[t].own = task[t].own /\ task'[t].mask = task[t].mask
      /\ task'[t].frames = <<>> /\ Op(t) = "exec" /\ task'[t].st = "run"
      /\ (\A q \in Tasks : q # o => proc'[q] = proc[q])
      /\ \A b \in {1, 2} : ~proc'[o].jmp[b].set
  BY DEF Begins, Alone, Me
<1>2. Masked(Me(t).prog, task[t]) /\ o \in Tasks
  BY WhereItIs DEF MaskInv
<1>3. \A u \in Tasks : Alive(u) /\ task[u].of = o => u = t
  BY <1>1, ExecutesAlone
<1>4. task[t].own = {}
  BY <1>1, <1>2, ItHas DEF Masked
<1>5. task[t].mask = {}
  <2>1. task[t].frames = <<>> /\ Len(task[t].frames) = 0
    BY <1>1, OutsideOnly
  <2>2. NoSignal(task[t].frames, Len(task[t].frames))
    BY <2>1 DEF NoSignal
  <2> QED  BY <1>2, <1>4, <2>2 DEF Masked
<1>6. ASSUME NEW u \in Tasks, Alive(u)'
      PROVE  Masked(proc'[task'[u].of].prog, task'[u]) /\ SavedMasks(proc'[task'[u].of])
  <2>1. CASE u = t
    <3>1. \A p : Masked(p, task'[t])
      BY <1>1, <1>4, <1>5, EmptyIsSeq DEF Masked
    <3>2. SavedMasks(proc'[o])
      BY <1>1 DEF SavedMasks
    <3> QED  BY <1>1, <2>1, <3>1, <3>2
  <2>2. CASE u # t
    <3>1. Alive(u) /\ task'[u] = task[u]
      BY <1>1, <1>6, <2>2 DEF Alive
    <3>2. task[u].of # o /\ task[u].of \in Tasks
      BY <1>3, <2>2, <3>1, WhereItIs
    <3>3. proc'[task[u].of] = Me(u)
      BY <1>1, <3>2 DEF Me
    <3> QED  BY <3>1, <3>3 DEF MaskInv
  <2> QED  BY <2>1, <2>2
<1>7. \A u \in Tasks : Alive(u)' => (Masked(Me(u).prog, task[u]) /\ SavedMasks(Me(u)))'
  BY <1>6 DEF Masked, NoSignal, SavedMasks, Me
<1> QED  BY <1>7 DEF MaskInv

(* A child has the masks of its parent, a new thread none.                 *)
LEMMA MaskForks ==
  ASSUME ControlInv, MaskInv, NEW t \in Tasks, Alive(t), task[t].st # "suspend",
         NEW n \in Tasks, Forks(t, n) \/ Creates(t, n)
  PROVE  MaskInv'
<1> DEFINE p == Me(t).prog
<1>1. /\ ~Born(n) /\ (\A u \in Tasks : u # t /\ u # n => task'[u] = task[u])
      /\ task'[t].of = task[t].of /\ task'[t].frames = task[t].frames
      /\ task'[t].mask = task[t].mask /\ task'[t].own = task[t].own /\ task'[t].st = "run"
      /\ task'[n].st = "run"
      /\ \/ /\ task'[n].frames = task[t].frames /\ task'[n].mask = task[t].mask
            /\ task'[n].own = task[t].own
         \/ task'[n].frames = <<>> /\ task'[n].mask = {} /\ task'[n].own = {}
      /\ \A q \in Tasks : q # n => proc'[q] = proc[q]
  BY DEF Forks, Creates, Copied
<1>2. \/ task'[n].of = n /\ proc'[n].prog = p /\ proc'[n].jmp = Me(t).jmp
      \/ task'[n].of = task[t].of /\ proc'[task[t].of] = Me(t)
  BY DEF Forks, Creates, Me
<1>3. /\ \A u \in Tasks : Alive(u) => Born(u)
      /\ \A u \in Tasks : Born(u) => task[u].of \in Tasks /\ task[u].of # n
  BY <1>1 DEF ControlInv, Belongs, Alive, Born
<1>4. t # n
  BY <1>1, <1>3
<1>5. Masked(p, task[t]) /\ SavedMasks(Me(t))
  BY DEF MaskInv
<1>6. Masked(p, task'[t]) /\ Masked(p, task'[n])
  <2>1. Masked(p, task'[t])
    BY <1>1, <1>5 DEF Masked
  <2>2. Masked(p, task'[n])
    <3>1. CASE task'[n].frames = task[t].frames /\ task'[n].mask = task[t].mask /\ task'[n].own = task[t].own
      BY <1>1, <1>5, <3>1 DEF Masked
    <3>2. CASE task'[n].frames = <<>> /\ task'[n].mask = {} /\ task'[n].own = {}
      BY <3>2, EmptyIsSeq DEF Masked
    <3> QED  BY <1>1, <3>1, <3>2
  <2> QED  BY <2>1, <2>2
<1>7. ASSUME NEW u \in Tasks, Alive(u)'
      PROVE  Masked(proc'[task'[u].of].prog, task'[u]) /\ SavedMasks(proc'[task'[u].of])
  <2>1. CASE u = n
    <3>1. CASE task'[n].of = n /\ proc'[n].prog = p /\ proc'[n].jmp = Me(t).jmp
      <4>1. SavedMasks(proc'[n])
        BY <1>5, <3>1 DEF SavedMasks
      <4> QED  BY <1>6, <2>1, <3>1, <4>1
    <3>2. CASE task'[n].of = task[t].of /\ proc'[task[t].of] = Me(t)
      BY <1>5, <1>6, <2>1, <3>2
    <3> QED  BY <1>2, <3>1, <3>2
  <2>2. CASE u = t
    <3>1. proc'[task'[t].of] = Me(t)
      BY <1>1, <1>3 DEF Me
    <3> QED  BY <1>5, <1>6, <2>2, <3>1
  <2>3. CASE u # t /\ u # n
    <3>1. Alive(u) /\ task'[u] = task[u]
      BY <1>1, <1>7, <2>3 DEF Alive
    <3>2. proc'[task[u].of] = Me(u)
      BY <1>1, <1>3, <3>1 DEF Me
    <3> QED  BY <3>1, <3>2 DEF MaskInv
  <2> QED  BY <2>1, <2>2, <2>3
<1>8. \A u \in Tasks : Alive(u)' => (Masked(Me(u).prog, task[u]) /\ SavedMasks(Me(u)))'
  BY <1>7 DEF Masked, NoSignal, SavedMasks, Me
<1> QED  BY <1>8 DEF MaskInv

(* Threads that end, and what happens to no thread.                        *)
LEMMA MaskRest ==
  ASSUME ControlInv, MaskInv, Alike,
         \A u \in Tasks : task'[u] = task[u] \/ (task'[u].st = "gone" /\ task'[u].of = task[u].of)
  PROVE  MaskInv'
<1>1. \A u \in Tasks : Alive(u)' => Alive(u) /\ task'[u] = task[u]
  BY DEF Alive
<1>2. ASSUME NEW u \in Tasks, Alive(u)'
      PROVE  Masked(proc'[task'[u].of].prog, task'[u]) /\ SavedMasks(proc'[task'[u].of])
  <2>1. Alive(u) /\ task'[u] = task[u]
    BY <1>1, <1>2
  <2>2. task[u].of \in Tasks /\ Masked(Me(u).prog, task[u]) /\ SavedMasks(Me(u))
    BY <2>1, WhereItIs DEF MaskInv
  <2>3. proc'[task[u].of].prog = Me(u).prog /\ proc'[task[u].of].jmp = Me(u).jmp
    BY <2>2 DEF Alike, Me
  <2>4. SavedMasks(proc'[task[u].of])
    BY <2>2, <2>3 DEF SavedMasks
  <2> QED  BY <2>1, <2>2, <2>3, <2>4
<1>3. \A u \in Tasks : Alive(u)' => (Masked(Me(u).prog, task[u]) /\ SavedMasks(Me(u)))'
  BY <1>2 DEF Masked, NoSignal, SavedMasks, Me
<1> QED  BY <1>3 DEF MaskInv

(* The second invariant is kept by every step ...                          *)
LEMMA MaskNext ==
  ASSUME Rules, ControlInv, Fitting, MaskInv, [Next]_vars
  PROVE  MaskInv'
<1>1. CASE UNCHANGED vars
  <2>1. task' = task /\ proc' = proc
    BY <1>1 DEF vars
  <2>2. Alike
    BY <2>1 DEF ControlInv, Shape, Alike
  <2> QED  BY <2>1, <2>2, MaskRest
<1>2. CASE Next
  <2>1. Idles \/ \E t \in Tasks : Alive(t) /\ Acts(t)
    BY <1>2, NextForms
  <2>2. CASE Idles
    BY <2>2, MaskRest DEF Idles
  <2>3. ASSUME NEW t \in Tasks, Alive(t), Acts(t) PROVE MaskInv'
    <3>1. CASE Finishes(t)
      BY <3>1, MaskRest DEF Finishes
    <3>2. CASE \E s \in Sigs : Interrupts(t, s)
      BY <2>3, <3>2, MaskInterrupts
    <3>3. CASE task[t].st # "suspend" /\ Calls(t)
      <4>1. CASE Moves(t) \/ Aborts(t) \/ Masks(t) \/ Halts(t) \/ Resumes(t)
        BY <2>3, <3>3, <4>1, MaskMoves, MaskAbortsMasks, MaskResumes
      <4>2. CASE Places(t) \/ Leaps(t) \/ Signs(t) \/ Adds(t) \/ CallsBack(t)
        BY <2>3, <3>3, <4>2, MaskPlaces, MaskLeaps, MaskMoves, MaskInterrupts
      <4>3. CASE Begins(t) \/ (\E n \in Tasks : Forks(t, n)) \/ (\E n \in Tasks : Creates(t, n))
        BY <2>3, <3>3, <4>3, MaskBegins, MaskForks
      <4> QED  BY <3>1, <3>3, <4>1, <4>2, <4>3 DEF Calls
    <3> QED  BY <2>3, <3>1, <3>2, <3>3 DEF Acts
  <2> QED  BY <2>1, <2>2, <2>3
<1> QED  BY <1>1, <1>2

(* ... and holds at the start.                                             *)
LEMMA MaskInit == ASSUME Init PROVE MaskInv
<1>1. ASSUME NEW t \in Tasks, Alive(t)
      PROVE  Masked(Me(t).prog, task[t]) /\ SavedMasks(Me(t))
  <2>1. Born(t)
    BY <1>1 DEF Alive, Born
  <2>2. t = 1 /\ Beginning(task[t], 1) /\ Fresh(proc[1], main)
    BY <2>1, AtStart
  <2>3. Me(t) = proc[1]
    BY <2>2 DEF Beginning, Me
  <2>4. Masked(Me(t).prog, task[t])
    BY <2>2, EmptyIsSeq DEF Masked, Beginning
  <2>5. SavedMasks(Me(t))
    BY <2>2, <2>3 DEF SavedMasks, Fresh
  <2> QED  BY <2>4, <2>5
<1> QED  BY <1>1 DEF MaskInv

(* Outside of its handlers a program has those signals blocked that it     *)
(* asked for: of every program that keeps the rules, whatever signals come *)
(* and however its processes and threads are interleaved.                  *)
THEOREM MasksAreGivenBack ==
  ASSUME Rules
  PROVE  Spec => []MaskRestored
<1> DEFINE Inv == ControlInv /\ (Observed => Fitting /\ MaskInv)
<1>1. Init => Inv
  BY ControlInit, FittingInit, MaskInit
<1>2. Inv /\ [Next]_vars => Inv'
  BY ControlNext, FittingNext, MaskNext, MainStays DEF Observed
<1>3. Inv => MaskRestored
  <2>1. ASSUME Observed, ControlInv, MaskInv, NEW t \in Tasks, Alive(t), ~Handling(t),
               task[t].st # "suspend"
        PROVE  task[t].mask = task[t].own
    <3>1. DOMAIN task[t].frames = 1..Len(task[t].frames) /\ Masked(Me(t).prog, task[t])
      BY <2>1, WhereItIs DEF MaskInv
    <3>2. \A k \in DOMAIN task[t].frames : task[t].frames[k].sig = None
      BY <2>1, Zenon DEF Handling, None
    <3>3. NoSignal(task[t].frames, Len(task[t].frames))
      BY <3>1, <3>2, SMTT(20) DEF NoSignal
    <3> QED  BY <2>1, <3>1, <3>3 DEF Masked
  <2> QED  BY <2>1 DEF Observed, MaskRestored
<1> QED  BY <1>1, <1>2, <1>3, PTL DEF Spec

-----------------------------------------------------------------------------
(* The places: the third invariant, for every labelling that fits the      *)
(* programs.                                                               *)

(* What a thread may go on with while place b is not kept.                 *)
LEMMA OnTheWay ==
  ASSUME Rules, NEW from, NEW flag, Keeps(from, flag), ControlInv, Fitting, JumpInv(from, flag),
         NEW t \in Tasks, Alive(t), NEW b \in {1, 2}, ~Me(t).jmp[b].set
  PROVE  LET p == Me(t).prog
             label == from[p][b]
             i == Ins(t)
         IN /\ label \in [DOMAIN Code[p] -> Nat] /\ flag[p][b] \in Flags
            /\ task[t].pc[2] \in Nat /\ task[t].pc[2] < label[task[t].pc[1]]
            /\ \A d \in DOMAIN Code[p] : d \in Names(i) => label[d] > 1
            /\ i[1] \notin Final /\ task[t].pc[2] + 1 >= label[task[t].pc[1]] =>
                 (i[1] = "setjmp" /\ i[2] = b) \/ (i[1] = "if" /\ i[2] = flag[p][b] /\ i[3] = 0)
            /\ i[1] = "set" /\ i[2] = flag[p][b] => i[3] = 0
            /\ i[1] \in {"add", "save", "garble"} => i[2] # flag[p][b]
            /\ i[1] = "resignal" => \A d \in DOMAIN Code[p] : label[d] > 1
            /\ i[1] = "longjmp" => i[2] # b
            /\ Me(t).mem[flag[p][b]] = 0
            /\ \A k \in DOMAIN task[t].frames : ~Behind(label, task[t].frames[k].pc)
            /\ \A s \in Sigs : Me(t).act[s].h \in DOMAIN Code[p] => ~(label[Me(t).act[s].h] <= 1)
            /\ \A k \in DOMAIN Me(t).exits : ~(label[Me(t).exits[k]] <= 1)
            /\ \A c \in {1, 2} : Me(t).jmp[c].set => ~Behind(label, Me(t).jmp[c].pc)
<1> DEFINE p == Me(t).prog
           label == from[p][b]
           i == Ins(t)
           c0 == task[t].pc[1]
           k0 == task[t].pc[2]
<1>1. /\ p \in Fit /\ p \in Programs /\ c0 \in DOMAIN Code[p] /\ k0 \in DOMAIN Code[p][c0]
      /\ i = Code[p][c0][k0]
  BY WhereItIs DEF Instruction, Fitting
<1>2. /\ label \in [DOMAIN Code[p] -> Nat] /\ flag[p][b] \in Flags
      /\ KeptOnTheWay(p, b, label, flag[p][b])
  BY <1>1 DEF Keeps
<1>3. Reaching(Me(t), task[t], from) /\ Remembering(Me(t), from, flag)
  BY DEF JumpInv
<1>4. /\ ~Behind(label, task[t].pc)
      /\ \A k \in DOMAIN task[t].frames : ~Behind(label, task[t].frames[k].pc)
  BY <1>3 DEF Reaching
<1>5. /\ Me(t).mem[flag[p][b]] = 0
      /\ \A s \in Sigs : Me(t).act[s].h \in DOMAIN Code[p] => ~(label[Me(t).act[s].h] <= 1)
      /\ \A k \in DOMAIN Me(t).exits : ~(label[Me(t).exits[k]] <= 1)
      /\ \A c \in {1, 2} : Me(t).jmp[c].set => ~Behind(label, Me(t).jmp[c].pc)
  BY <1>3 DEF Remembering
<1>6. k0 \in Nat
  <2>1. WellMade(p)
    BY <1>1, SMTT(20) DEF Rules
  <2> QED  BY <1>1, <2>1 DEF WellMade
<1>7. k0 < label[c0]
  <2>1. label[c0] \in Nat
    BY <1>1, <1>2
  <2> QED  BY <1>4, <1>6, <2>1 DEF Behind
<1>8. /\ i[1] = "longjmp" /\ i[2] = b => k0 >= label[c0]
      /\ k0 < label[c0] =>
           /\ \A d \in DOMAIN Code[p] : d \in Names(i) => label[d] > 1
           /\ i[1] = "set" /\ i[2] = flag[p][b] => i[3] = 0
           /\ i[1] \notin Final /\ k0 + 1 >= label[c0] =>
                (i[1] = "setjmp" /\ i[2] = b) \/ (i[1] = "if" /\ i[2] = flag[p][b] /\ i[3] = 0)
      /\ i[1] \in {"add", "save", "garble"} => i[2] # flag[p][b]
      /\ i[1] = "resignal" => \A d \in DOMAIN Code[p] : label[d] > 1
  <2> HIDE DEF p, label, i, c0, k0
  <2> QED  BY <1>1, <1>2 DEF KeptOnTheWay
<1>9. i[1] = "longjmp" => i[2] # b
  <2>1. label[c0] \in Nat
    BY <1>1, <1>2
  <2> HIDE DEF i, label, c0, k0
  <2> QED  BY <1>6, <1>7, <1>8, <2>1
<1> HIDE DEF i, label, p
<1> QED  BY <1>2, <1>4, <1>5, <1>6, <1>7, <1>8, <1>9 DEF i, label, p

(* A flag is a variable of the program.                                    *)
LEMMA FlagsAreVariables ==
  ASSUME NEW t \in Tasks, NEW v \in Flags
  PROVE  Value(t, v) = Me(t).mem[v] /\ v \in Vars
<1>1. v \in {"i", "z", "s1", "s2", "s3"}
  BY DEF Flags, Vars
<1>2. v # "" /\ v # "r" /\ v # "mask" /\ v # "self" /\ v # "sid" /\ v # "*arg"
  BY <1>1
<1> QED  BY <1>1, <1>2 DEF Value, Vars

(* While a place is not kept, going on does not get behind its label, but  *)
(* by the setjmp that keeps it.                                            *)
LEMMA StillBefore ==
  ASSUME Rules, NEW from, NEW flag, Keeps(from, flag), ControlInv, Fitting, JumpInv(from, flag),
         NEW t \in Tasks, Alive(t), NEW b \in {1, 2}, ~Me(t).jmp[b].set,
         GoesOn(t) \/ (Next1(t) /\ Op(t) # "if"), Op(t) = "setjmp" => Arg(t) # b
  PROVE  ~Behind(from[Me(t).prog][b], task'[t].pc)
<1> DEFINE p == Me(t).prog
           label == from[p][b]
           i == Ins(t)
           c0 == task[t].pc[1]
           k0 == task[t].pc[2]
<1>1. /\ p \in Fit /\ p \in Programs /\ c0 \in DOMAIN Code[p] /\ k0 \in DOMAIN Code[p][c0]
      /\ i = Code[p][c0][k0]
  BY WhereItIs DEF Instruction, Fitting
<1>2. /\ label \in [DOMAIN Code[p] -> Nat] /\ flag[p][b] \in Flags
      /\ k0 \in Nat /\ k0 < label[c0]
      /\ \A d \in DOMAIN Code[p] : d \in Names(i) => label[d] > 1
      /\ i[1] \notin Final /\ k0 + 1 >= label[c0] =>
           (i[1] = "setjmp" /\ i[2] = b) \/ (i[1] = "if" /\ i[2] = flag[p][b] /\ i[3] = 0)
      /\ Me(t).mem[flag[p][b]] = 0
  <2>1. label \in [DOMAIN Code[p] -> Nat] /\ flag[p][b] \in Flags /\ k0 \in Nat /\ k0 < label[c0]
    BY OnTheWay
  <2>2. \A d \in DOMAIN Code[p] : d \in Names(i) => label[d] > 1
    BY OnTheWay
  <2>3. i[1] \notin Final /\ k0 + 1 >= label[c0] =>
          (i[1] = "setjmp" /\ i[2] = b) \/ (i[1] = "if" /\ i[2] = flag[p][b] /\ i[3] = 0)
    BY OnTheWay
  <2>4. Me(t).mem[flag[p][b]] = 0
    BY OnTheWay
  <2> QED  BY <2>1, <2>2, <2>3, <2>4
<1>3. label[c0] \in Nat
  BY <1>1, <1>2, Zenon
<1>4. CASE task'[t].pc = <<c0, k0 + 1>> /\ Op(t) \notin Final /\ (Op(t) = "if" => Value(t, Arg(t)) # Ins(t)[3])
  <2>1. ~(k0 + 1 >= label[c0])
    <3>1. ~(i[1] = "setjmp" /\ i[2] = b)
      BY DEF Op, Arg
    <3>2. ~(i[1] = "if" /\ i[2] = flag[p][b] /\ i[3] = 0)
      BY <1>2, <1>4, FlagsAreVariables DEF Op, Arg
    <3>3. i[1] \notin Final
      BY <1>4 DEF Op
    <3> HIDE DEF i, label, c0, k0
    <3> QED  BY <1>2, <3>1, <3>2, <3>3
  <2>2. task'[t].pc[1] = c0 /\ task'[t].pc[2] = k0 + 1
    BY <1>4
  <2> HIDE DEF label, c0, k0
  <2> QED  BY <2>1, <2>2 DEF Behind, label
<1>5. ASSUME NEW d \in JumpTo(Ins(t)), task'[t].pc = <<d, 1>>
      PROVE  ~Behind(label, task'[t].pc)
  <2>1. d \in DOMAIN Code[p]
    <3>1. WellMade(p)
      BY <1>1 DEF Rules
    <3> QED  BY <1>1, <1>5, <3>1, Zenon DEF WellMade
  <2>2. label[d] > 1 /\ label[d] \in Nat
    BY <1>2, <1>5, <2>1 DEF Names
  <2>3. task'[t].pc[1] = d /\ task'[t].pc[2] = 1
    BY <1>5
  <2> HIDE DEF label
  <2> QED  BY <2>2, <2>3 DEF Behind
<1> QED  BY <1>4, <1>5 DEF GoesOn, Next1

(* A step of t in its process keeps the invariant, if what t goes on with  *)
(* and what its process remembers is before the labels of all places that  *)
(* are still not kept.                                                     *)
LEMMA JumpStep ==
  ASSUME NEW from, NEW flag, Keeps(from, flag), ControlInv, Fitting, JumpInv(from, flag),
         NEW t \in Tasks, Alive(t), Inner(t),
         \A b \in {1, 2} : Me(t).jmp[b].set => proc'[task[t].of].jmp[b].set,
         \A q \in Tasks, v \in Flags : q # task[t].of => proc'[q].mem[v] = proc[q].mem[v],
         Reaching(proc'[task[t].of], task'[t], from), Remembering(proc'[task[t].of], from, flag)
  PROVE  JumpInv(from, flag)'
<1>1. \A u \in Tasks : u # t => task'[u] = task[u]
  BY DEF Inner, Alone
<1>2. task'[t].of = task[t].of
  BY DEF Inner
<1>3. \A q \in Tasks : /\ proc'[q].prog = proc[q].prog
                       /\ q # task[t].of => /\ proc'[q].act = proc[q].act /\ proc'[q].jmp = proc[q].jmp
                                            /\ proc'[q].exits = proc[q].exits
  BY DEF Inner
<1>4. ASSUME NEW u \in Tasks, Alive(u)'
      PROVE  /\ Reaching(proc'[task'[u].of], task'[u], from)
             /\ Remembering(proc'[task'[u].of], from, flag)
  <2>1. Alive(u)
    BY <1>1, <1>4 DEF Alive
  <2>2. /\ task[u].of \in Tasks /\ Reaching(Me(u), task[u], from) /\ Remembering(Me(u), from, flag)
        /\ Me(u).prog \in Fit
    BY <2>1, WhereItIs DEF JumpInv, Fitting
  <2>3. CASE u = t
    BY <1>2, <2>3
  <2>4. CASE u # t
    <3>1. task'[u] = task[u] /\ proc'[task[u].of].prog = Me(u).prog
      BY <1>1, <1>3, <2>2, <2>4 DEF Me
    <3>2. CASE task[u].of = task[t].of
      <4>1. \A b \in {1, 2} : Me(u).jmp[b].set => proc'[task[u].of].jmp[b].set
        BY <3>2 DEF Me
      <4>2. Reaching(proc'[task[u].of], task[u], from)
        BY <2>2, <3>1, <4>1 DEF Reaching
      <4> QED  BY <3>1, <3>2, <4>2
    <3>3. CASE task[u].of # task[t].of
      <4> DEFINE q == proc'[task[u].of]
      <4>1. q.act = Me(u).act /\ q.jmp = Me(u).jmp /\ q.exits = Me(u).exits
        BY <1>3, <2>2, <3>3, SMTT(20) DEF Me
      <4>2. \A b \in {1, 2} : q.mem[flag[Me(u).prog][b]] = Me(u).mem[flag[Me(u).prog][b]]
        BY <2>2, <3>3 DEF Keeps, Me
      <4>3. q.prog = Me(u).prog
        BY <3>1
      <4> HIDE DEF q
      <4>4. Reaching(q, task[u], from)
        BY <2>2, <4>1, <4>3 DEF Reaching
      <4>5. Remembering(q, from, flag)
        BY <2>2, <4>1, <4>2, <4>3, Zenon DEF Remembering
      <4> QED  BY <3>1, <4>4, <4>5 DEF q
    <3> QED  BY <3>2, <3>3
  <2> QED  BY <2>3, <2>4
<1>5. \A u \in Tasks : Alive(u)' => (Reaching(Me(u), task[u], from) /\ Remembering(Me(u), from, flag))'
  BY <1>4, Zenon DEF Reaching, Remembering, Behind, Me
<1> QED  BY <1>5 DEF JumpInv

(* A flag is set only behind the label of its place.                       *)
LEMMA FlagStays ==
  ASSUME Rules, NEW from, NEW flag, Keeps(from, flag), ControlInv, Fitting, JumpInv(from, flag),
         NEW t \in Tasks, Alive(t), NEW b \in {1, 2}, ~Me(t).jmp[b].set, Stored(t)
  PROVE  proc'[task[t].of].mem[flag[Me(t).prog][b]] = 0
<1> DEFINE v == flag[Me(t).prog][b]
<1>1. /\ v \in Flags /\ Me(t).mem[v] = 0
      /\ Ins(t)[1] = "set" /\ Ins(t)[2] = v => Ins(t)[3] = 0
      /\ Ins(t)[1] \in {"add", "save", "garble"} => Ins(t)[2] # v
  BY OnTheWay
<1>2. task[t].of \in Tasks
  BY WhereItIs
<1> HIDE DEF v
<1>3. proc'[task[t].of].mem[v] = 0
  BY <1>1, <1>2 DEF Stored, Op, Arg, Me
<1> QED  BY <1>3 DEF v

(* A call that leaves what is registered alone remembers what it did.      *)
LEMMA AlikeRemembers ==
  ASSUME Rules, NEW from, NEW flag, Keeps(from, flag), ControlInv, Fitting, JumpInv(from, flag),
         NEW t \in Tasks, Alive(t), Alike, Stored(t)
  PROVE  Remembering(proc'[task[t].of], from, flag)
<1> DEFINE q == proc'[task[t].of]
<1>1. q.prog = Me(t).prog /\ q.act = Me(t).act /\ q.jmp = Me(t).jmp /\ q.exits = Me(t).exits
  BY WhereItIs DEF Alike, Me
<1>2. Remembering(Me(t), from, flag)
  BY DEF JumpInv
<1>3. \A b \in {1, 2} : ~Me(t).jmp[b].set => q.mem[flag[Me(t).prog][b]] = 0
  BY FlagStays, SMTT(20)
<1> HIDE DEF q
<1>4. Remembering(q, from, flag)
  BY <1>1, <1>2, <1>3 DEF Remembering
<1> QED  BY <1>4 DEF q

(* The calls that change nothing but where the thread is.                  *)
LEMMA JumpMoves ==
  ASSUME Rules, NEW from, NEW flag, Keeps(from, flag), ControlInv, Fitting, JumpInv(from, flag),
         NEW t \in Tasks, Alive(t), Moves(t) \/ Aborts(t) \/ Masks(t) \/ Halts(t) \/ Resumes(t)
  PROVE  JumpInv(from, flag)'
<1> DEFINE q == proc'[task[t].of]
<1>1. Inner(t) /\ Alike /\ Stored(t)
  BY DEF Moves, Aborts, Masks, Halts, Resumes, Steady, Inner, Alike
<1>2. Remembering(q, from, flag)
  BY <1>1, AlikeRemembers
<1>3. task[t].of \in Tasks /\ q.prog = Me(t).prog /\ q.jmp = Me(t).jmp
  BY <1>1, WhereItIs DEF Alike, Me
<1>4. \A r \in Tasks, v \in Flags : r # task[t].of => proc'[r].mem[v] = proc[r].mem[v]
  BY <1>1 DEF Stored
<1>5. ASSUME NEW b \in {1, 2}, ~Me(t).jmp[b].set
      PROVE  /\ ~Behind(from[Me(t).prog][b], task'[t].pc)
             /\ \A k \in DOMAIN task'[t].frames : ~Behind(from[Me(t).prog][b], task'[t].frames[k].pc)
  <2> DEFINE label == from[Me(t).prog][b]
  <2>1. /\ ~Behind(label, task[t].pc)
        /\ \A k \in DOMAIN task[t].frames : ~Behind(label, task[t].frames[k].pc)
    BY <1>5 DEF JumpInv, Reaching
  <2>2. CASE Moves(t) \/ Aborts(t) \/ Masks(t)
    <3>1. /\ task'[t].frames = task[t].frames
          /\ GoesOn(t) \/ (Next1(t) /\ Op(t) \in Masking \cup {"abort"})
      BY <2>2 DEF Moves, Aborts, Masks, Steady
    <3>2. GoesOn(t) => Op(t) # "setjmp"
      BY DEF GoesOn, JumpTo, Op
    <3>3. /\ GoesOn(t) \/ (Next1(t) /\ Op(t) # "if")
          /\ Op(t) # "setjmp"
      BY <3>1, <3>2 DEF Masking
    <3>4. ~Behind(label, task'[t].pc)
      BY <1>5, <3>3, StillBefore
    <3> QED  BY <2>1, <3>1, <3>4
  <2>3. CASE Halts(t)
    BY <2>1, <2>3 DEF Halts
  <2>4. CASE Resumes(t)
    <3> DEFINE f == task[t].frames
    <3>1. /\ Op(t) = "return" /\ task'[t].frames = Front(f) /\ task'[t].pc = Last(f).pc
      BY <2>4 DEF Resumes
    <3>2. f # <<>> /\ Len(f) >= 1 /\ IsSeq(f) /\ Len(f) \in Nat /\ DOMAIN f = 1..Len(f)
      BY <3>1, ReturnsInside, WhereItIs DEF ThreadShape
    <3>3. /\ DOMAIN Front(f) = 1..(Len(f) - 1)
          /\ \A k \in 1..(Len(f) - 1) : Front(f)[k] = f[k]
          /\ Last(f) = f[Len(f)]
      BY <3>2, WithoutTop
    <3>4. Len(f) \in DOMAIN f /\ \A k \in 1..(Len(f) - 1) : k \in DOMAIN f
      BY <3>2
    <3> QED  BY <2>1, <3>1, <3>3, <3>4
  <2> QED  BY <2>2, <2>3, <2>4
<1>6. Reaching(q, task'[t], from)
  BY <1>3, <1>5 DEF Reaching
<1> QED  BY <1>1, <1>2, <1>3, <1>4, <1>6, JumpStep

(* setjmp keeps its place, in front of the labels of the other one.        *)
LEMMA JumpPlaces ==
  ASSUME Rules, NEW from, NEW flag, Keeps(from, flag), ControlInv, Fitting, JumpInv(from, flag),
         NEW t \in Tasks, Alive(t), Places(t)
  PROVE  JumpInv(from, flag)'
<1> DEFINE q == proc'[task[t].of]
           p == Me(t)
<1>1. /\ Inner(t) /\ OthersAlike(t) /\ Op(t) = "setjmp" /\ Next1(t)
      /\ task'[t].frames = task[t].frames /\ q.act = p.act /\ q.exits = p.exits
      /\ \A c \in {1, 2} : IF c = Arg(t) THEN q.jmp[c].set /\ q.jmp[c].pc = task'[t].pc
                                         ELSE q.jmp[c] = p.jmp[c]
  BY DEF Places, Steady, Inner, OthersAlike, Me
<1>2. task[t].of \in Tasks /\ p.prog \in Fit /\ p.prog \in Programs /\ q.prog = p.prog
  BY <1>1, WhereItIs DEF OthersAlike, Me, Fitting
<1>3. \A v \in Flags : q.mem[v] = p.mem[v]
  BY <1>1, <1>2 DEF OthersAlike, Me
<1>4. \A r \in Tasks, v \in Flags : r # task[t].of => proc'[r].mem[v] = proc[r].mem[v]
  BY <1>1 DEF OthersAlike
<1>5. \A b \in {1, 2} : p.jmp[b].set => q.jmp[b].set
  BY <1>1
<1>6. ASSUME NEW b \in {1, 2}, ~q.jmp[b].set
      PROVE  LET label == from[p.prog][b] IN
             /\ ~Behind(label, task'[t].pc)
             /\ \A k \in DOMAIN task'[t].frames : ~Behind(label, task'[t].frames[k].pc)
             /\ \A s \in Sigs : q.act[s].h \in DOMAIN Code[q.prog] => ~(label[q.act[s].h] <= 1)
             /\ \A k \in DOMAIN q.exits : ~(label[q.exits[k]] <= 1)
             /\ \A c \in {1, 2} : q.jmp[c].set => ~Behind(label, q.jmp[c].pc)
             /\ q.mem[flag[p.prog][b]] = 0
  <2> DEFINE label == from[p.prog][b]
  <2>1. ~p.jmp[b].set /\ Arg(t) # b /\ Op(t) # "if"
    BY <1>1, <1>5, <1>6
  <2>2. /\ \A k \in DOMAIN task[t].frames : ~Behind(label, task[t].frames[k].pc)
        /\ \A s \in Sigs : p.act[s].h \in DOMAIN Code[p.prog] => ~(label[p.act[s].h] <= 1)
        /\ \A k \in DOMAIN p.exits : ~(label[p.exits[k]] <= 1)
        /\ \A c \in {1, 2} : p.jmp[c].set => ~Behind(label, p.jmp[c].pc)
        /\ p.mem[flag[p.prog][b]] = 0 /\ flag[p.prog][b] \in Flags
    BY <2>1, OnTheWay
  <2>3. ~Behind(label, task'[t].pc)
    BY <1>1, <2>1, StillBefore
  <2>4. \A c \in {1, 2} : q.jmp[c].set => ~Behind(label, q.jmp[c].pc)
    BY <1>1, <2>2, <2>3
  <2> HIDE DEF q, p, label
  <2> QED  BY <1>1, <1>2, <1>3, <2>2, <2>3, <2>4 DEF label
<1> HIDE DEF q, p
<1>7. Reaching(q, task'[t], from)
  BY <1>2, <1>6, SMTT(20) DEF Reaching
<1>8. Remembering(q, from, flag)
  BY <1>2, <1>6 DEF Remembering
<1> QED  BY <1>1, <1>4, <1>5, <1>7, <1>8, JumpStep DEF q, p

(* longjmp goes to where a place was kept.                                 *)
LEMMA JumpLeaps ==
  ASSUME Rules, NEW from, NEW flag, Keeps(from, flag), ControlInv, Fitting, JumpInv(from, flag),
         NEW t \in Tasks, Alive(t), Leaps(t)
  PROVE  JumpInv(from, flag)'
<1> DEFINE q == proc'[task[t].of]
           p == Me(t)
           j == p.jmp[Arg(t)]
<1>1. /\ Inner(t) /\ Alike /\ OthersAlike(t)
      /\ task'[t].frames = <<>> /\ task'[t].pc = j.pc /\ j.set /\ Op(t) = "longjmp"
  BY DEF Leaps, Inner, Alike
<1>2. /\ task[t].of \in Tasks /\ p.prog \in Fit /\ p.prog \in Programs /\ q.prog = p.prog /\ q.jmp = p.jmp
      /\ q.act = p.act /\ q.exits = p.exits
  BY <1>1, WhereItIs DEF Alike, Me, Fitting
<1>3. \A v \in Flags : q.mem[v] = p.mem[v]
  BY <1>1, <1>2 DEF OthersAlike, Me
<1>4. \A r \in Tasks, v \in Flags : r # task[t].of => proc'[r].mem[v] = proc[r].mem[v]
  BY <1>1 DEF OthersAlike
<1>5. Arg(t) \in {1, 2}
  <2>1. /\ task[t].pc[1] \in DOMAIN Code[p.prog]
        /\ task[t].pc[2] \in DOMAIN Code[p.prog][task[t].pc[1]]
        /\ Ins(t) = Code[p.prog][task[t].pc[1]][task[t].pc[2]]
    BY WhereItIs DEF Instruction
  <2>2. \A c \in DOMAIN Code[p.prog] : \A k \in DOMAIN Code[p.prog][c] :
          Code[p.prog][c][k][1] = "longjmp" => Code[p.prog][c][k][2] \in {1, 2}
    BY <1>2 DEF Rules, WellMade
  <2>3. Ins(t)[1] = "longjmp"
    BY <1>1 DEF Op
  <2>4. Ins(t)[2] \in {1, 2}
    BY <2>1, <2>2, <2>3
  <2> QED  BY <2>4 DEF Arg
<1>6. Remembering(p, from, flag)
  BY DEF JumpInv
<1>7. \A b \in {1, 2} : flag[p.prog][b] \in Flags
  BY <1>2 DEF Keeps
<1>8. Remembering(q, from, flag)
  <2> HIDE DEF q, p
  <2> QED  BY <1>2, <1>3, <1>6, <1>7 DEF Remembering
<1>9. ASSUME NEW b \in {1, 2}, ~q.jmp[b].set
      PROVE  ~Behind(from[p.prog][b], task'[t].pc)
  BY <1>1, <1>2, <1>5, <1>6, <1>9 DEF Remembering
<1>10. Reaching(q, task'[t], from)
  BY <1>1, <1>2, <1>9, EmptyIsSeq DEF Reaching
<1>11. \A b \in {1, 2} : p.jmp[b].set => q.jmp[b].set
  BY <1>2
<1> QED  BY <1>1, <1>4, <1>8, <1>10, <1>11, JumpStep

(* A handler or a function is registered behind the label if it begins     *)
(* there.                                                                  *)
LEMMA JumpSigns ==
  ASSUME Rules, NEW from, NEW flag, Keeps(from, flag), ControlInv, Fitting, JumpInv(from, flag),
         NEW t \in Tasks, Alive(t), Signs(t) \/ Adds(t)
  PROVE  JumpInv(from, flag)'
<1> DEFINE q == proc'[task[t].of]
           p == Me(t)
<1>1. /\ Inner(t) /\ OthersAlike(t) /\ Next1(t) /\ task'[t].frames = task[t].frames
      /\ q.jmp = p.jmp /\ Op(t) \in {"signal", "sigaction", "resignal", "atexit"}
      /\ task'[t].of = task[t].of
  BY ZenonT(30) DEF Signs, Adds, Steady, Inner, OthersAlike, Me
<1>2. /\ task[t].of \in Tasks /\ p.prog \in Fit /\ p.prog \in Programs /\ q.prog = p.prog /\ IsSeq(p.exits)
  BY <1>1, WhereItIs DEF OthersAlike, ProcShape, Me, Fitting
<1>3. \A v \in Flags : q.mem[v] = p.mem[v]
  BY <1>1, <1>2 DEF OthersAlike, Me
<1>4. \A r \in Tasks, v \in Flags : r # task[t].of => proc'[r].mem[v] = proc[r].mem[v]
  BY <1>1 DEF OthersAlike
<1>5. ASSUME NEW b \in {1, 2}, ~q.jmp[b].set
      PROVE  LET label == from[p.prog][b] IN
             /\ ~Behind(label, task'[t].pc)
             /\ \A k \in DOMAIN task'[t].frames : ~Behind(label, task'[t].frames[k].pc)
             /\ \A s \in Sigs : q.act[s].h \in DOMAIN Code[q.prog] => ~(label[q.act[s].h] <= 1)
             /\ \A k \in DOMAIN q.exits : ~(label[q.exits[k]] <= 1)
             /\ \A c \in {1, 2} : q.jmp[c].set => ~Behind(label, q.jmp[c].pc)
             /\ q.mem[flag[p.prog][b]] = 0
  <2> DEFINE label == from[p.prog][b]
  <2>1. ~p.jmp[b].set /\ Op(t) # "if" /\ Op(t) # "setjmp"
    BY <1>1, <1>5
  <2>2. /\ \A k \in DOMAIN task[t].frames : ~Behind(label, task[t].frames[k].pc)
        /\ \A s \in Sigs : p.act[s].h \in DOMAIN Code[p.prog] => ~(label[p.act[s].h] <= 1)
        /\ \A k \in DOMAIN p.exits : ~(label[p.exits[k]] <= 1)
        /\ \A c \in {1, 2} : p.jmp[c].set => ~Behind(label, p.jmp[c].pc)
        /\ p.mem[flag[p.prog][b]] = 0 /\ flag[p.prog][b] \in Flags
        /\ label \in [DOMAIN Code[p.prog] -> Nat]
        /\ \A d \in DOMAIN Code[p.prog] : d \in Names(Ins(t)) => label[d] > 1
        /\ Ins(t)[1] = "resignal" => \A d \in DOMAIN Code[p.prog] : label[d] > 1
    BY <2>1, OnTheWay, ZenonT(30)
  <2>3. ~Behind(label, task'[t].pc)
    BY <1>1, <2>1, StillBefore
  <2>4. \A n \in Nat : n > 1 => ~(n <= 1)
    OBVIOUS
  <2>5. ASSUME NEW s \in Sigs, q.act[s].h \in DOMAIN Code[q.prog] PROVE ~(label[q.act[s].h] <= 1)
    <3> DEFINE h == q.act[s].h
    <3>1. \/ q.act[s] = p.act[s]
          \/ Ins(t)[1] = "resignal"
          \/ Ins(t)[1] \in {"signal", "sigaction"} /\ h = Ins(t)[3]
      BY <1>1 DEF Signs, Adds, Me, Op
    <3>2. h \in DOMAIN Code[p.prog] /\ label[h] \in Nat
      BY <1>2, <2>2, <2>5
    <3>3. CASE q.act[s] = p.act[s]
      BY <2>2, <3>2, <3>3
    <3>4. CASE Ins(t)[1] = "resignal"
      BY <2>2, <2>4, <3>2, <3>4, Zenon
    <3>5. CASE Ins(t)[1] \in {"signal", "sigaction"} /\ h = Ins(t)[3]
      <4>1. h \in Names(Ins(t))
        BY <3>5 DEF Names, Registers
      <4> HIDE DEF h, label
      <4> QED  BY <2>2, <2>4, <3>2, <4>1 DEF h
    <3> QED  BY <3>1, <3>3, <3>4, <3>5, Zenon
  <2>6. \A k \in DOMAIN q.exits : ~(label[q.exits[k]] <= 1)
    <3>1. CASE Signs(t)
      <4>1. q.exits = p.exits
        BY <1>1, <3>1 DEF Signs, Me
      <4> QED  BY <2>2, <4>1
    <3>2. CASE Adds(t)
      <4> DEFINE x == p.exits
      <4>1. q.exits = Append(x, Arg(t)) /\ Ins(t)[1] = "atexit"
        BY <1>1, <3>2 DEF Adds, Me, Op
      <4>2. /\ DOMAIN q.exits = 1..(Len(x) + 1) /\ q.exits[Len(x) + 1] = Arg(t)
            /\ \A k \in 1..Len(x) : q.exits[k] = x[k]
        BY <1>2, <4>1, OnTop
      <4>3. Len(x) \in Nat /\ DOMAIN x = 1..Len(x)
        BY <1>2, SeqOfItsElements DEF IsSeq
      <4>4. \A k \in 1..(Len(x) + 1) : k \in 1..Len(x) \/ k = Len(x) + 1
        BY <4>3
      <4>5. Arg(t) \in DOMAIN Code[p.prog] /\ Arg(t) \in Names(Ins(t))
        <5>1. /\ task[t].pc[1] \in DOMAIN Code[p.prog]
              /\ task[t].pc[2] \in DOMAIN Code[p.prog][task[t].pc[1]]
              /\ Ins(t) = Code[p.prog][task[t].pc[1]][task[t].pc[2]]
          BY WhereItIs DEF Instruction
        <5>2. \A c \in DOMAIN Code[p.prog] : \A k \in DOMAIN Code[p.prog][c] :
                Code[p.prog][c][k][1] \in {"atexit", "thread"} => Code[p.prog][c][k][2] \in DOMAIN Code[p.prog]
          BY <1>2 DEF Rules, WellMade
        <5>3. Ins(t)[2] \in DOMAIN Code[p.prog]
          BY <4>1, <5>1, <5>2
        <5> QED  BY <4>1, <5>3 DEF Names, Registers, Arg
      <4>6. label[Arg(t)] \in Nat /\ label[Arg(t)] > 1
        BY <2>2, <4>5
      <4> HIDE DEF label
      <4> QED  BY <2>2, <2>4, <4>2, <4>3, <4>4, <4>6 DEF label
    <3> QED  BY <3>1, <3>2
  <2> HIDE DEF q, p, label
  <2> QED  BY <1>1, <1>2, <1>3, <2>2, <2>3, <2>5, <2>6 DEF label
<1>6. \A b \in {1, 2} : p.jmp[b].set => q.jmp[b].set
  BY <1>1
<1> HIDE DEF q, p
<1>7. Reaching(q, task'[t], from)
  BY <1>2, <1>5, SMTT(20) DEF Reaching
<1>8. Remembering(q, from, flag)
  BY <1>2, <1>5 DEF Remembering
<1> QED  BY <1>1, <1>4, <1>6, <1>7, <1>8, JumpStep DEF q, p

(* What begins inside was registered behind the label if it begins there,  *)
(* and what it interrupts goes on where it was.                            *)
LEMMA JumpInterrupts ==
  ASSUME Rules, NEW from, NEW flag, Keeps(from, flag), ControlInv, Fitting, JumpInv(from, flag),
         NEW t \in Tasks, Alive(t), CallsBack(t) \/ \E s \in Sigs : Interrupts(t, s)
  PROVE  JumpInv(from, flag)'
<1> DEFINE q == proc'[task[t].of]
           p == Me(t)
           f == task[t].frames
           x == p.exits
<1>1. Inner(t) /\ OthersAlike(t) /\ q.jmp = p.jmp /\ task'[t].of = task[t].of
  BY Zenon DEF CallsBack, Interrupts, Inner, OthersAlike, Me
<1>2. /\ task[t].of \in Tasks /\ p.prog \in Fit /\ p.prog \in Programs /\ q.prog = p.prog
      /\ IsSeq(x) /\ Len(x) \in Nat /\ DOMAIN x = 1..Len(x)
      /\ IsSeq(f) /\ Len(f) \in Nat /\ DOMAIN f = 1..Len(f)
  BY <1>1, WhereItIs, SeqOfItsElements, Zenon
  DEF OthersAlike, ProcShape, ThreadShape, IsSeq, Me, Fitting
<1>3. \A v \in Flags : q.mem[v] = p.mem[v]
  BY <1>1, <1>2 DEF OthersAlike, Me
<1>4. \A r \in Tasks, v \in Flags : r # task[t].of => proc'[r].mem[v] = proc[r].mem[v]
  BY <1>1 DEF OthersAlike
(* The block, and where it comes from.                                     *)
<1>5. \E h : /\ task'[t].pc = <<h, 1>>
             /\ \/ h \in DOMAIN Code[p.prog] /\ \E s \in Sigs : h = p.act[s].h
                \/ \E k \in DOMAIN x : h = x[k]
  <2>1. CASE CallsBack(t)
    <3>1. x # <<>> /\ task'[t].pc = <<Last(x), 1>>
      BY <2>1 DEF CallsBack
    <3>2. Len(x) \in DOMAIN x /\ Last(x) = x[Len(x)]
      BY <1>2, <3>1, WithoutTop
    <3> QED  BY <3>1, <3>2
  <2>2. CASE \E s \in Sigs : Interrupts(t, s)
    BY <2>2 DEF Interrupts
  <2> QED  BY <2>1, <2>2
<1>6. \E e : /\ task'[t].frames = Append(f, e)
             /\ \/ e.pc = task[t].pc
                \/ task[t].st # "run" /\ e.pc = <<task[t].pc[1], task[t].pc[2] + 1>>
  BY DEF CallsBack, Interrupts
<1>7. \A s \in Sigs : q.act[s].h \in DOMAIN Code[p.prog] => q.act[s] = p.act[s]
  <2>1. "DFL" \notin DOMAIN Code[p.prog]
    BY <1>2 DEF Rules, WellMade
  <2> QED  BY <1>1, <2>1, Zenon DEF CallsBack, Interrupts, Me
<1>8. \A k \in DOMAIN q.exits : k \in DOMAIN x /\ q.exits[k] = x[k]
  <2>1. CASE CallsBack(t)
    <3>1. x # <<>> /\ q.exits = Front(x)
      BY <1>1, <2>1 DEF CallsBack, Me
    <3>2. /\ DOMAIN q.exits = 1..(Len(x) - 1) /\ \A k \in 1..(Len(x) - 1) : q.exits[k] = x[k]
      BY <1>2, <3>1, WithoutTop
    <3>3. \A k \in 1..(Len(x) - 1) : k \in DOMAIN x
      BY <1>2
    <3> QED  BY <3>2, <3>3
  <2>2. CASE \E s \in Sigs : Interrupts(t, s)
    BY <1>1, <2>2, ZenonT(30) DEF Interrupts, Me
  <2> QED  BY <2>1, <2>2
<1>9. ASSUME NEW b \in {1, 2}, ~q.jmp[b].set
      PROVE  LET label == from[p.prog][b] IN
             /\ ~Behind(label, task'[t].pc)
             /\ \A k \in DOMAIN task'[t].frames : ~Behind(label, task'[t].frames[k].pc)
             /\ \A s \in Sigs : q.act[s].h \in DOMAIN Code[q.prog] => ~(label[q.act[s].h] <= 1)
             /\ \A k \in DOMAIN q.exits : ~(label[q.exits[k]] <= 1)
             /\ \A c \in {1, 2} : q.jmp[c].set => ~Behind(label, q.jmp[c].pc)
             /\ q.mem[flag[p.prog][b]] = 0
  <2> DEFINE label == from[p.prog][b]
             i == Ins(t)
             c0 == task[t].pc[1]
             k0 == task[t].pc[2]
  <2>1. ~p.jmp[b].set
    BY <1>1, <1>9
  <2>2. /\ \A k \in DOMAIN f : ~Behind(label, f[k].pc)
        /\ \A s \in Sigs : p.act[s].h \in DOMAIN Code[p.prog] => ~(label[p.act[s].h] <= 1)
        /\ \A k \in DOMAIN x : ~(label[x[k]] <= 1)
        /\ \A c \in {1, 2} : p.jmp[c].set => ~Behind(label, p.jmp[c].pc)
        /\ p.mem[flag[p.prog][b]] = 0 /\ flag[p.prog][b] \in Flags
        /\ label \in [DOMAIN Code[p.prog] -> Nat] /\ k0 \in Nat /\ k0 < label[c0]
    BY <2>1, OnTheWay, ZenonT(30)
  <2>3. i[1] \notin Final /\ k0 + 1 >= label[c0] => i[1] \in {"setjmp", "if"}
    BY <2>1, OnTheWay
  <2>4. ~Behind(label, task'[t].pc)
    <3>1. PICK h : /\ task'[t].pc = <<h, 1>>
                   /\ \/ h \in DOMAIN Code[p.prog] /\ \E s \in Sigs : h = p.act[s].h
                      \/ \E k \in DOMAIN x : h = x[k]
      BY <1>5
    <3>2. ~(label[h] <= 1)
      BY <2>2, <3>1
    <3>3. h \in DOMAIN Code[p.prog]
      <4>1. \A k \in DOMAIN x : x[k] \in DOMAIN Code[p.prog]
        <5>1. \A k \in DOMAIN x : x[k] \in Inside(p.prog)
          BY WhereItIs DEF Ready
        <5>2. Inside(p.prog) = Level(p.prog, 1)
          BY DEF Level
        <5> QED  BY <1>2, <5>1, <5>2, Levels
      <4> QED  BY <3>1, <4>1
    <3>4. label[h] \in Nat
      BY <2>2, <3>3
    <3>5. task'[t].pc[1] = h /\ task'[t].pc[2] = 1
      BY <3>1
    <3> HIDE DEF label
    <3>6. ~(1 >= label[h])
      BY <3>2, <3>4
    <3> QED  BY <3>5, <3>6 DEF Behind
  <2>5. \A k \in DOMAIN task'[t].frames : ~Behind(label, task'[t].frames[k].pc)
    <3>1. PICK e : /\ task'[t].frames = Append(f, e)
                   /\ \/ e.pc = task[t].pc
                      \/ task[t].st # "run" /\ e.pc = <<task[t].pc[1], task[t].pc[2] + 1>>
      BY <1>6
    <3>2. /\ DOMAIN task'[t].frames = 1..(Len(f) + 1) /\ task'[t].frames[Len(f) + 1] = e
          /\ \A k \in 1..Len(f) : task'[t].frames[k] = f[k]
      BY <1>2, <3>1, OnTop
    <3>3. \A k \in 1..(Len(f) + 1) : k \in DOMAIN f \/ k = Len(f) + 1
      BY <1>2
    <3>4. label[c0] \in Nat
      <4>1. c0 \in DOMAIN Code[p.prog]
        BY WhereItIs
      <4> QED  BY <2>2, <4>1
    <3>5. ~Behind(label, e.pc)
      <4>1. CASE e.pc = task[t].pc
        <5>1. ~(k0 >= label[c0])
          BY <2>2, <3>4
        <5> QED  BY <4>1, <5>1 DEF Behind
      <4>2. CASE task[t].st # "run" /\ e.pc = <<c0, k0 + 1>>
        <5>1. i[1] \in Waits
          BY <4>2, WhereItIs DEF Controlled
        <5>2. i[1] \notin Final /\ i[1] # "setjmp" /\ i[1] # "if"
          BY <5>1 DEF Waits, Final
        <5>3. ~(k0 + 1 >= label[c0])
          BY <2>3, <5>2
        <5>4. e.pc[1] = c0 /\ e.pc[2] = k0 + 1
          BY <4>2
        <5> HIDE DEF label, c0, k0
        <5> QED  BY <5>3, <5>4 DEF Behind
      <4> QED  BY <3>1, <4>1, <4>2
    <3> HIDE DEF f, label
    <3> QED  BY <1>2, <2>2, <3>2, <3>3, <3>5
  <2> HIDE DEF q, p, label, x
  <2> QED  BY <1>1, <1>2, <1>3, <1>7, <1>8, <2>2, <2>4, <2>5 DEF label
<1>10. \A b \in {1, 2} : p.jmp[b].set => q.jmp[b].set
  BY <1>1
<1> HIDE DEF q, p
<1>11. Reaching(q, task'[t], from)
  BY <1>2, <1>9, SMTT(20) DEF Reaching
<1>12. Remembering(q, from, flag)
  BY <1>2, <1>9 DEF Remembering
<1> QED  BY <1>1, <1>4, <1>10, <1>11, <1>12, JumpStep DEF q, p

(* A program begins in front of every label.                               *)
LEMMA MainIsBefore ==
  ASSUME Rules, NEW from, NEW flag, Keeps(from, flag), NEW p, p.prog \in Fit, NEW tk,
         tk.pc = <<"main", 1>>, tk.frames = <<>>, p.exits = <<>>,
         \A s \in Sigs : p.act[s].h = "DFL",
         \A b \in {1, 2} : ~p.jmp[b].set,
         \A v \in Flags : p.mem[v] = 0
  PROVE  Reaching(p, tk, from) /\ Remembering(p, from, flag)
<1>1. "main" \in DOMAIN Code[p.prog] /\ "DFL" \notin DOMAIN Code[p.prog]
  BY DEF Rules, WellMade, Fit
<1>2. \A b \in {1, 2} : /\ from[p.prog][b] \in [DOMAIN Code[p.prog] -> Nat]
                        /\ flag[p.prog][b] \in Flags /\ from[p.prog][b]["main"] > 1
  BY DEF Keeps, KeptOnTheWay
<1>3. \A b \in {1, 2} : ~(1 >= from[p.prog][b]["main"])
  <2>1. \A b \in {1, 2} : from[p.prog][b]["main"] \in Nat
    BY <1>1, <1>2
  <2> QED  BY <1>2, <2>1
<1>4. \A b \in {1, 2} : ~Behind(from[p.prog][b], tk.pc)
  <2>1. tk.pc[1] = "main" /\ tk.pc[2] = 1
    OBVIOUS
  <2> QED  BY <1>3, <2>1 DEF Behind
<1>5. Reaching(p, tk, from)
  BY <1>4, EmptyIsSeq DEF Reaching
<1>6. Remembering(p, from, flag)
  BY <1>1, <1>2, EmptyIsSeq DEF Remembering
<1> QED  BY <1>5, <1>6

(* exec forgets every place, and begins in front of the labels.            *)
LEMMA JumpBegins ==
  ASSUME Rules, NEW from, NEW flag, Keeps(from, flag), ControlInv, Fitting, JumpInv(from, flag),
         NEW t \in Tasks, Alive(t), Begins(t)
  PROVE  JumpInv(from, flag)'
<1> DEFINE o == task[t].of
<1>1. /\ DOMAIN task' = Tasks /\ (\A u \in Tasks : u # t => task'[u] = task[u])
      /\ task'[t].of = o /\ task'[t].pc = <<"main", 1>> /\ task'[t].frames = <<>> /\ Op(t) = "exec"
      /\ (\A q \in Tasks : q # o => proc'[q] = proc[q])
      /\ proc'[o].prog = Arg(t) /\ proc'[o].exits = <<>>
      /\ \A s \in Sigs : proc'[o].act[s].h = "DFL"
      /\ \A b \in {1, 2} : ~proc'[o].jmp[b].set
      /\ \A v \in Flags : proc'[o].mem[v] = 0
  BY DEF Begins, Alone, Me
<1>2. Arg(t) \in Fit /\ Arg(t) \in Programs /\ \A u \in Tasks : Alive(u) /\ task[u].of = o => u = t
  BY <1>1, ExecutesAlone
<1>3. ASSUME NEW u \in Tasks, Alive(u)'
      PROVE  /\ Reaching(proc'[task'[u].of], task'[u], from)
             /\ Remembering(proc'[task'[u].of], from, flag)
  <2>1. CASE u = t
    BY <1>1, <1>2, <2>1, MainIsBefore
  <2>2. CASE u # t
    <3>1. Alive(u) /\ task'[u] = task[u]
      BY <1>1, <1>3, <2>2 DEF Alive
    <3>2. task[u].of # o /\ task[u].of \in Tasks
      BY <1>2, <2>2, <3>1, WhereItIs
    <3>3. proc'[task[u].of] = Me(u)
      BY <1>1, <3>2 DEF Me
    <3> QED  BY <3>1, <3>3 DEF JumpInv
  <2> QED  BY <2>1, <2>2
<1>4. \A u \in Tasks : Alive(u)' => (Reaching(Me(u), task[u], from) /\ Remembering(Me(u), from, flag))'
  BY <1>3, Zenon DEF Reaching, Remembering, Behind, Me
<1> QED  BY <1>4 DEF JumpInv

(* A child goes on where its parent does and has its places; a new thread  *)
(* begins behind a label only if it is created there.                      *)
LEMMA JumpForks ==
  ASSUME Rules, NEW from, NEW flag, Keeps(from, flag), ControlInv, Fitting, JumpInv(from, flag),
         NEW t \in Tasks, Alive(t), NEW n \in Tasks, Forks(t, n) \/ Creates(t, n)
  PROVE  JumpInv(from, flag)'
<1> DEFINE p == Me(t)
<1>1. /\ ~Born(n) /\ (\A u \in Tasks : u # t /\ u # n => task'[u] = task[u])
      /\ task'[t].of = task[t].of /\ task'[t].frames = task[t].frames /\ Next1(t)
      /\ Op(t) # "if" /\ Op(t) # "setjmp"
      /\ \A q \in Tasks : q # n => proc'[q] = proc[q]
  BY DEF Forks, Creates, Copied
<1>2. \/ /\ task'[n].pc = task'[t].pc /\ task'[n].frames = task[t].frames
         /\ task'[n].of = n /\ proc'[n].prog = p.prog /\ proc'[n].act = p.act
         /\ proc'[n].jmp = p.jmp /\ proc'[n].exits = p.exits /\ proc'[n].mem = p.mem
      \/ /\ task'[n].pc = <<Arg(t), 1>> /\ task'[n].frames = <<>> /\ Op(t) = "thread"
         /\ task'[n].of = task[t].of /\ proc'[task[t].of] = p
  BY DEF Forks, Creates, Copied, Me
<1>3. /\ \A u \in Tasks : Alive(u) => Born(u)
      /\ \A u \in Tasks : Born(u) => task[u].of \in Tasks /\ task[u].of # n
  BY <1>1 DEF ControlInv, Belongs, Alive, Born
<1>4. t # n
  BY <1>1, <1>3
<1>5. Reaching(p, task[t], from) /\ Remembering(p, from, flag) /\ p.prog \in Fit /\ p.prog \in Programs
  BY WhereItIs DEF JumpInv, Fitting
<1>6. \A b \in {1, 2} : ~p.jmp[b].set => ~Behind(from[p.prog][b], task'[t].pc)
  BY <1>1, StillBefore
<1>7. Reaching(p, task'[t], from)
  <2> HIDE DEF p
  <2> QED  BY <1>1, <1>5, <1>6 DEF Reaching
<1>8. ASSUME NEW u \in Tasks, Alive(u)'
      PROVE  /\ Reaching(proc'[task'[u].of], task'[u], from)
             /\ Remembering(proc'[task'[u].of], from, flag)
  <2>1. CASE u = n
    <3>1. CASE /\ task'[n].pc = task'[t].pc /\ task'[n].frames = task[t].frames
               /\ task'[n].of = n /\ proc'[n].prog = p.prog /\ proc'[n].act = p.act
               /\ proc'[n].jmp = p.jmp /\ proc'[n].exits = p.exits /\ proc'[n].mem = p.mem
      <4> HIDE DEF p
      <4>1. Reaching(proc'[n], task'[n], from)
        BY <1>1, <1>7, <3>1, SMTT(20) DEF Reaching
      <4>2. Remembering(proc'[n], from, flag)
        BY <1>5, <3>1 DEF Remembering
      <4> QED  BY <2>1, <3>1, <4>1, <4>2
    <3>2. CASE /\ task'[n].pc = <<Arg(t), 1>> /\ task'[n].frames = <<>> /\ Op(t) = "thread"
               /\ task'[n].of = task[t].of /\ proc'[task[t].of] = p
      <4>1. Ins(t)[1] = "thread" /\ Ins(t)[2] = Arg(t)
        BY <3>2 DEF Op, Arg
      <4>2. Arg(t) \in DOMAIN Code[p.prog]
        <5>1. /\ task[t].pc[1] \in DOMAIN Code[p.prog]
              /\ task[t].pc[2] \in DOMAIN Code[p.prog][task[t].pc[1]]
              /\ Ins(t) = Code[p.prog][task[t].pc[1]][task[t].pc[2]]
          BY WhereItIs DEF Instruction
        <5>2. \A c \in DOMAIN Code[p.prog] : \A k \in DOMAIN Code[p.prog][c] :
                Code[p.prog][c][k][1] \in {"atexit", "thread"} => Code[p.prog][c][k][2] \in DOMAIN Code[p.prog]
          BY <1>5 DEF Rules, WellMade
        <5> QED  BY <4>1, <5>1, <5>2
      <4>3. ASSUME NEW b \in {1, 2}, ~p.jmp[b].set
            PROVE  ~Behind(from[p.prog][b], task'[n].pc)
        <5> DEFINE label == from[p.prog][b]
        <5>1. /\ label \in [DOMAIN Code[p.prog] -> Nat]
              /\ \A d \in DOMAIN Code[p.prog] : d \in Names(Ins(t)) => label[d] > 1
          BY <4>3, OnTheWay
        <5>2. Arg(t) \in Names(Ins(t))
          BY <4>1 DEF Names
        <5>3. label[Arg(t)] > 1 /\ label[Arg(t)] \in Nat
          BY <4>2, <5>1, <5>2
        <5>4. ~(1 >= label[Arg(t)])
          BY <5>3
        <5>5. task'[n].pc[1] = Arg(t) /\ task'[n].pc[2] = 1
          BY <3>2
        <5> HIDE DEF label
        <5> QED  BY <5>4, <5>5 DEF Behind, label
      <4>4. Reaching(p, task'[n], from)
        <5> HIDE DEF p
        <5> QED  BY <3>2, <4>3, EmptyIsSeq DEF Reaching
      <4> QED  BY <1>5, <2>1, <3>2, <4>4
    <3> QED  BY <1>2, <3>1, <3>2
  <2>2. CASE u = t
    <3>1. proc'[task'[t].of] = p
      BY <1>1, <1>3 DEF Me
    <3> QED  BY <1>5, <1>7, <2>2, <3>1
  <2>3. CASE u # t /\ u # n
    <3>1. Alive(u) /\ task'[u] = task[u]
      BY <1>1, <1>8, <2>3 DEF Alive
    <3>2. proc'[task[u].of] = Me(u)
      BY <1>1, <1>3, <3>1 DEF Me
    <3> QED  BY <3>1, <3>2 DEF JumpInv
  <2> QED  BY <2>1, <2>2, <2>3
<1>9. \A u \in Tasks : Alive(u)' => (Reaching(Me(u), task[u], from) /\ Remembering(Me(u), from, flag))'
  BY <1>8, Zenon DEF Reaching, Remembering, Behind, Me
<1> QED  BY <1>9 DEF JumpInv

(* Threads that end, and what happens to no thread.                        *)
LEMMA JumpRest ==
  ASSUME NEW from, NEW flag, Keeps(from, flag), ControlInv, Fitting, JumpInv(from, flag), Alike,
         \A q \in Tasks, v \in Flags : proc'[q].mem[v] = proc[q].mem[v],
         \A u \in Tasks : task'[u] = task[u] \/ (task'[u].st = "gone" /\ task'[u].of = task[u].of)
  PROVE  JumpInv(from, flag)'
<1>1. \A u \in Tasks : Alive(u)' => Alive(u) /\ task'[u] = task[u]
  BY DEF Alive
<1>2. ASSUME NEW u \in Tasks, Alive(u)'
      PROVE  /\ Reaching(proc'[task'[u].of], task'[u], from)
             /\ Remembering(proc'[task'[u].of], from, flag)
  <2> DEFINE q == proc'[task[u].of]
  <2>1. Alive(u) /\ task'[u] = task[u]
    BY <1>1, <1>2
  <2>2. /\ task[u].of \in Tasks /\ Reaching(Me(u), task[u], from) /\ Remembering(Me(u), from, flag)
        /\ Me(u).prog \in Fit
    BY <2>1, WhereItIs DEF JumpInv, Fitting
  <2>3. q.prog = Me(u).prog /\ q.act = Me(u).act /\ q.jmp = Me(u).jmp /\ q.exits = Me(u).exits
    BY <2>2 DEF Alike, Me
  <2>4. \A b \in {1, 2} : q.mem[flag[Me(u).prog][b]] = Me(u).mem[flag[Me(u).prog][b]]
    BY <2>2 DEF Keeps, Me
  <2> HIDE DEF q
  <2>5. Reaching(q, task[u], from)
    BY <2>2, <2>3 DEF Reaching
  <2>6. Remembering(q, from, flag)
    BY <2>2, <2>3, <2>4, Zenon DEF Remembering
  <2> QED  BY <2>1, <2>5, <2>6 DEF q
<1>3. \A u \in Tasks : Alive(u)' => (Reaching(Me(u), task[u], from) /\ Remembering(Me(u), from, flag))'
  BY <1>2, Zenon DEF Reaching, Remembering, Behind, Me
<1> QED  BY <1>3 DEF JumpInv

(* The third invariant is kept by every step ...                           *)
LEMMA JumpNext ==
  ASSUME Rules, NEW from, NEW flag, Keeps(from, flag), ControlInv, Fitting, JumpInv(from, flag), [Next]_vars
  PROVE  JumpInv(from, flag)'
<1>1. CASE UNCHANGED vars
  <2>1. task' = task /\ proc' = proc
    BY <1>1 DEF vars
  <2>2. Alike
    BY <2>1 DEF ControlInv, Shape, Alike
  <2> QED  BY <2>1, <2>2, JumpRest
<1>2. CASE Next
  <2>1. Idles \/ \E t \in Tasks : Alive(t) /\ Acts(t)
    BY <1>2, NextForms
  <2>2. CASE Idles
    BY <2>2, JumpRest DEF Idles
  <2>3. ASSUME NEW t \in Tasks, Alive(t), Acts(t) PROVE JumpInv(from, flag)'
    <3>1. CASE Finishes(t)
      BY <3>1, JumpRest DEF Finishes, OthersAlike
    <3>2. CASE \E s \in Sigs : Interrupts(t, s)
      BY <2>3, <3>2, JumpInterrupts
    <3>3. CASE Calls(t)
      <4>1. CASE Moves(t) \/ Aborts(t) \/ Masks(t) \/ Halts(t) \/ Resumes(t)
        BY <2>3, <4>1, JumpMoves
      <4>2. CASE Places(t) \/ Leaps(t)
        BY <2>3, <4>2, JumpPlaces, JumpLeaps
      <4>3. CASE Signs(t) \/ Adds(t) \/ CallsBack(t)
        BY <2>3, <4>3, JumpSigns, JumpInterrupts
      <4>4. CASE Begins(t) \/ (\E n \in Tasks : Forks(t, n)) \/ (\E n \in Tasks : Creates(t, n))
        BY <2>3, <4>4, JumpBegins, JumpForks
      <4> QED  BY <3>1, <3>3, <4>1, <4>2, <4>3, <4>4 DEF Calls
    <3> QED  BY <2>3, <3>1, <3>2, <3>3 DEF Acts
  <2> QED  BY <2>1, <2>2, <2>3
<1> QED  BY <1>1, <1>2

(* ... and holds at the start.                                             *)
LEMMA JumpInit ==
  ASSUME Rules, NEW from, NEW flag, Keeps(from, flag), Init, Observed
  PROVE  JumpInv(from, flag)
<1>1. main \in Fit
  BY AtStart DEF Rules, Fit, Observed
<1>2. ASSUME NEW t \in Tasks, Alive(t)
      PROVE  Reaching(Me(t), task[t], from) /\ Remembering(Me(t), from, flag)
  <2>1. Born(t)
    BY <1>2 DEF Alive, Born
  <2>2. t = 1 /\ Beginning(task[t], 1) /\ Fresh(proc[1], main)
    BY <2>1, AtStart
  <2>3. Me(t) = proc[1]
    BY <2>2 DEF Beginning, Me
  <2> QED  BY <1>1, <2>2, <2>3, MainIsBefore DEF Beginning, Fresh
<1> QED  BY <1>2 DEF JumpInv

(* No longjmp is called before its place was kept, whenever the signal     *)
(* comes whose handler jumps: of every program that keeps the rules and    *)
(* has a labelling that fits it.                                           *)
THEOREM PlacesAreKept ==
  ASSUME Rules, NEW from, NEW flag, Keeps(from, flag)
  PROVE  Spec => []JumpsLand
<1> DEFINE Inv == ControlInv /\ (Observed => Fitting /\ JumpInv(from, flag))
<1>1. Init => Inv
  BY ControlInit, FittingInit, JumpInit
<1>2. Inv /\ [Next]_vars => Inv'
  <2>1. ASSUME ControlInv, Fitting, JumpInv(from, flag), [Next]_vars
        PROVE  Fitting' /\ JumpInv(from, flag)'
    BY <2>1, FittingNext, JumpNext
  <2> QED  BY <2>1, ControlNext, MainStays DEF Observed
<1>3. Inv => JumpsLand
  <2>1. ASSUME Observed, ControlInv, Fitting, JumpInv(from, flag), NEW t \in Tasks, Alive(t), Op(t) = "longjmp"
        PROVE  Me(t).jmp[Arg(t)].set
    <3>1. /\ Me(t).prog \in Fit /\ Me(t).prog \in Programs
          /\ task[t].pc[1] \in DOMAIN Code[Me(t).prog]
          /\ task[t].pc[2] \in DOMAIN Code[Me(t).prog][task[t].pc[1]]
          /\ Ins(t) = Code[Me(t).prog][task[t].pc[1]][task[t].pc[2]]
      BY <2>1, WhereItIs DEF Instruction, Fitting
    <3>2. \A c \in DOMAIN Code[Me(t).prog] : \A k \in DOMAIN Code[Me(t).prog][c] :
            Code[Me(t).prog][c][k][1] = "longjmp" => Code[Me(t).prog][c][k][2] \in {1, 2}
      BY <3>1 DEF Rules, WellMade
    <3>3. Ins(t)[1] = "longjmp"
      BY <2>1 DEF Op
    <3>4. Ins(t)[2] \in {1, 2} /\ Ins(t)[2] = Arg(t)
      BY <3>1, <3>2, <3>3 DEF Arg
    <3>5. \A b \in {1, 2} : ~Me(t).jmp[b].set => Ins(t)[2] # b
      BY <2>1, <3>3, OnTheWay
    <3> QED  BY <3>4, <3>5
  <2> QED  BY <2>1 DEF Observed, JumpsLand
<1> QED  BY <1>1, <1>2, <1>3, PTL DEF Spec
-----------------------------------------------------------------------------
(* What a step does to what was written: to the screen, to the buffer of   *)
(* stdout, and to the count that tells the lines of a process apart.       *)
SameOutput(q) == proc'[q].n = proc[q].n /\ proc'[q].buf = proc[q].buf /\ proc'[q].fd = proc[q].fd
OthersSame(t) == \A q \in Tasks : q # task[t].of => SameOutput(q)
PrintsNothing ==
  /\ out' = out
  /\ \A q \in Tasks : /\ proc'[q].n = proc[q].n /\ proc'[q].buf \in {proc[q].buf, <<>>}
                      /\ proc'[q].fd \in {proc[q].fd, "null"}

(* printf into the buffer, and one that is flushed at its end of line.     *)
Buffers(t) ==
  /\ Op(t) \in {"print", "part"} /\ Fills(tty, Ins(t)) /\ out' = out /\ OthersSame(t)
  /\ proc'[task[t].of].n = Me(t).n + 1 /\ proc'[task[t].of].fd = Me(t).fd
  /\ proc'[task[t].of].buf = Append(Me(t).buf, Item(t))
Prints(t) ==
  /\ Op(t) \in {"print", "part"} /\ ~Fills(tty, Ins(t)) /\ OthersSame(t)
  /\ out' = Sent(Me(t), Append(Me(t).buf, Item(t)))
  /\ proc'[task[t].of].n = Me(t).n + 1 /\ proc'[task[t].of].fd = Me(t).fd
  /\ proc'[task[t].of].buf = <<>>
Writes(t) ==
  /\ Op(t) \in {"write", "syslog"} /\ OthersSame(t)
  /\ out' \in {out, out \o <<Item(t)>>, Append(out, Item(t))}
  /\ proc'[task[t].of].n = Me(t).n + 1 /\ proc'[task[t].of].fd = Me(t).fd
  /\ proc'[task[t].of].buf = Me(t).buf
Flushes(t) ==
  /\ Op(t) \in {"flush", "exit", "pthread_exit"} /\ OthersSame(t)
  /\ out' = Sent(Me(t), Me(t).buf)
  /\ proc'[task[t].of].n = Me(t).n /\ proc'[task[t].of].fd = Me(t).fd
  /\ proc'[task[t].of].buf = <<>>
Outputs(t) ==
  \/ PrintsNothing \/ Buffers(t) \/ Prints(t) \/ Writes(t) \/ Flushes(t)
  \/ out' = out /\ \E n \in Tasks : Forks(t, n)

(* A step that changes no process prints nothing.                          *)
LEMMA NothingPrinted == ASSUME out' = out, UNCHANGED proc PROVE PrintsNothing
  BY DEF PrintsNothing

(* What a step that gives the process of t a new record does to its output. *)
LEMMA HoldingOutput ==
  ASSUME Shape, NEW t \in Tasks, task[t].of \in Tasks, NEW p, Holds(t, p)
  PROVE  /\ OthersSame(t) /\ proc'[task[t].of] = p
         /\ out' = out /\ p.n = Me(t).n /\ p.buf \in {Me(t).buf, <<>>} /\ p.fd \in {Me(t).fd, "null"}
              => PrintsNothing
<1>1. /\ proc'[task[t].of] = p
      /\ \A q \in Tasks : q # task[t].of => proc'[q] = proc[q]
  BY Holding
<1> QED  BY <1>1 DEF OthersSame, SameOutput, PrintsNothing, Me

(* printf, write and flush.                                                *)
LEMMA WritingOutputs ==
  ASSUME Shape, NEW t \in Tasks, task[t].of \in Tasks, Printf(t) \/ DoWrite(t) \/ DoFlush(t)
  PROVE  Outputs(t) /\ (Op(t) = "flush" /\ Arg(t) = "always" => Flushes(t))
<1>1. DOMAIN Me(t) = ProcFields
  BY DEF Shape, ProcShape, Me
<1>2. CASE Printf(t)
  <2> DEFINE b == Append(Me(t).buf, Item(t))
             flush == tty /\ Op(t) = "print"
             p == [Me(t) EXCEPT !.buf = IF flush THEN <<>> ELSE b, !.n = @ + 1]
  <2>1. Holds(t, p) /\ Op(t) \in {"print", "part"} /\ out' = IF flush THEN Sent(Me(t), b) ELSE out
    BY <1>2 DEF Printf
  <2>2. flush <=> ~Fills(tty, Ins(t))
    BY <2>1 DEF Fills, Op
  <2>3. p.buf = (IF flush THEN <<>> ELSE b) /\ p.n = Me(t).n + 1 /\ p.fd = Me(t).fd
    BY <1>1 DEF ProcFields
  <2> HIDE DEF p
  <2>4. OthersSame(t) /\ proc'[task[t].of] = p
    BY <2>1, HoldingOutput
  <2>5. CASE flush
    BY <2>1, <2>2, <2>3, <2>4, <2>5 DEF Outputs, Prints
  <2>6. CASE ~flush
    BY <2>1, <2>2, <2>3, <2>4, <2>6 DEF Outputs, Buffers
  <2> QED  BY <2>1, <2>5, <2>6
<1>3. CASE DoWrite(t)
  <2> DEFINE p == [Me(t) EXCEPT !.n = @ + 1]
  <2>1. Holds(t, p) /\ Op(t) \in {"write", "syslog"} /\ out' \in {out, out \o <<Item(t)>>, Append(out, Item(t))}
    BY <1>3 DEF DoWrite, Sent
  <2>2. p.n = Me(t).n + 1 /\ p.fd = Me(t).fd /\ p.buf = Me(t).buf
    BY <1>1 DEF ProcFields
  <2> HIDE DEF p
  <2>3. OthersSame(t) /\ proc'[task[t].of] = p
    BY <2>1, HoldingOutput
  <2> QED  BY <2>1, <2>2, <2>3 DEF Outputs, Writes
<1>4. CASE DoFlush(t)
  <2> DEFINE p == [Me(t) EXCEPT !.buf = <<>>]
  <2>1. CASE tty \/ Arg(t) = "always"
    <3>1. Holds(t, p) /\ out' = Sent(Me(t), Me(t).buf) /\ Op(t) = "flush"
      BY <1>4, <2>1 DEF DoFlush
    <3>2. p.n = Me(t).n /\ p.fd = Me(t).fd /\ p.buf = <<>>
      BY <1>1 DEF ProcFields
    <3> HIDE DEF p
    <3>3. OthersSame(t) /\ proc'[task[t].of] = p
      BY <3>1, HoldingOutput
    <3> QED  BY <3>1, <3>2, <3>3 DEF Outputs, Flushes
  <2>2. CASE ~(tty \/ Arg(t) = "always")
    <3>1. out' = out /\ UNCHANGED proc
      BY <1>4, <2>2 DEF DoFlush
    <3> QED  BY <2>2, <3>1, NothingPrinted DEF Outputs
  <2> QED  BY <2>1, <2>2
<1> QED  BY <1>2, <1>3, <1>4

(* The calls that change another field of their own process.               *)
LEMMA FieldPrintsNothing ==
  ASSUME Shape, NEW t \in Tasks, task[t].of \in Tasks, out' = out, NEW p, Holds(t, p), NEW w,
         \/ p = [Me(t) EXCEPT !.pend = w] \/ p = [Me(t) EXCEPT !.clock = w]
         \/ p = [Me(t) EXCEPT !.sid = w] \/ p = [Me(t) EXCEPT !.fd = "null"]
         \/ p = [Me(t) EXCEPT !.exits = w]
  PROVE  PrintsNothing
<1>1. DOMAIN Me(t) = ProcFields
  BY DEF Shape, ProcShape, Me
<1>2. p.n = Me(t).n /\ p.buf = Me(t).buf /\ p.fd \in {Me(t).fd, "null"}
  BY <1>1 DEF ProcFields
<1> QED  BY <1>2, HoldingOutput

(* The end of a process empties its buffer.                                *)
LEMMA DiesOutput ==
  ASSUME Shape, NEW t \in Tasks, task[t].of \in Tasks, NEW status, Dies(task[t].of, status)
  PROVE  /\ OthersSame(t) /\ proc'[task[t].of].buf = <<>>
         /\ proc'[task[t].of].n = Me(t).n /\ proc'[task[t].of].fd = Me(t).fd
<1>1. \A q \in Tasks : DOMAIN proc[q] = ProcFields
  BY DEF Shape, ProcShape
<1>2. ASSUME NEW q \in Tasks, q # task[t].of
      PROVE  SameOutput(q)
  <2>1. CASE proc[q].parent = task[t].of /\ proc[q].st # "unborn"
    <3>1. \E a, b, c, d : proc'[q] = [proc[q] EXCEPT !.parent = a, !.st = b, !.pend = c, !.stopped = d]
      BY <1>2, <2>1 DEF Dies
    <3> QED  BY <1>1, <3>1 DEF SameOutput, ProcFields
  <2>2. CASE ~(proc[q].parent = task[t].of /\ proc[q].st # "unborn")
    <3>1. proc'[q] = proc[q]
      BY <1>2, <2>2 DEF Dies
    <3> QED  BY <3>1 DEF SameOutput
  <2> QED  BY <2>1, <2>2
<1>3. \E a : proc'[task[t].of] = [Me(t) EXCEPT !.status = status, !.pend = {}, !.clock = FALSE,
                                               !.buf = <<>>, !.st = a]
  BY DEF Dies, Me
<1>4. DOMAIN Me(t) = ProcFields
  BY <1>1 DEF Me
<1>5. /\ proc'[task[t].of].buf = <<>>
      /\ proc'[task[t].of].n = Me(t).n /\ proc'[task[t].of].fd = Me(t).fd
  BY <1>3, <1>4 DEF ProcFields
<1> QED  BY <1>2, <1>5 DEF OthersSame

(* The calls that print nothing.                                           *)
LEMMA SilentCalls ==
  ASSUME Shape, NEW t \in Tasks, task[t].of \in Tasks,
         \/ DoStore(t) \/ DoOverwritten(t) \/ DoSetjmp(t) \/ DoLongjmp(t) \/ DoSignal(t)
         \/ DoDivideByZero(t) \/ DoAlarm(t) \/ DoAtexit(t) \/ DoDetach(t)
  PROVE  PrintsNothing
<1>1. out' = out
  BY DEF DoStore, DoOverwritten, DoSetjmp, DoLongjmp, DoSignal, DoDivideByZero, DoAlarm, DoAtexit,
         DoDetach, Quiet
<1>0. DOMAIN Me(t) = ProcFields
  BY DEF Shape, ProcShape, Me
<1>2. CASE DoStore(t) \/ DoOverwritten(t)
  <2>1. PICK w, v : Holds(t, [Me(t) EXCEPT !.mem[v] = w])
    BY <1>2 DEF DoStore, DoOverwritten
  <2> DEFINE p == [Me(t) EXCEPT !.mem[v] = w]
  <2>2. p.n = Me(t).n /\ p.buf = Me(t).buf /\ p.fd = Me(t).fd
    BY <1>0 DEF ProcFields
  <2> HIDE DEF p
  <2>3. Holds(t, p)
    BY <2>1 DEF p
  <2> QED  BY <1>1, <2>2, <2>3, HoldingOutput
<1>3. CASE DoSetjmp(t)
  <2>1. PICK w, b : Holds(t, [Me(t) EXCEPT !.jmp[b] = w])
    BY <1>3 DEF DoSetjmp
  <2> DEFINE p == [Me(t) EXCEPT !.jmp[b] = w]
  <2>2. p.n = Me(t).n /\ p.buf = Me(t).buf /\ p.fd = Me(t).fd
    BY <1>0 DEF ProcFields
  <2> HIDE DEF p
  <2>3. Holds(t, p)
    BY <2>1 DEF p
  <2> QED  BY <1>1, <2>2, <2>3, HoldingOutput
<1>4. CASE DoLongjmp(t)
  <2>1. PICK v, w : Holds(t, [Me(t) EXCEPT !.mem["x"] = v, !.mem["y"] = w])
    BY <1>4 DEF DoLongjmp
  <2> DEFINE p == [Me(t) EXCEPT !.mem["x"] = v, !.mem["y"] = w]
  <2>2. p.n = Me(t).n /\ p.buf = Me(t).buf /\ p.fd = Me(t).fd
    BY <1>0 DEF ProcFields
  <2> HIDE DEF p
  <2>3. Holds(t, p)
    BY <2>1 DEF p
  <2> QED  BY <1>1, <2>2, <2>3, HoldingOutput
<1>5. CASE DoSignal(t)
  <2>1. PICK w, s : Holds(t, [Me(t) EXCEPT !.act[s] = w])
    BY <1>5 DEF DoSignal
  <2> DEFINE p == [Me(t) EXCEPT !.act[s] = w]
  <2>2. p.n = Me(t).n /\ p.buf = Me(t).buf /\ p.fd = Me(t).fd
    BY <1>0 DEF ProcFields
  <2> HIDE DEF p
  <2>3. Holds(t, p)
    BY <2>1 DEF p
  <2> QED  BY <1>1, <2>2, <2>3, HoldingOutput
<1>6. CASE DoDivideByZero(t)
  <2>1. \E w : Holds(t, [Me(t) EXCEPT !.pend = w])
    BY <1>6 DEF DoDivideByZero
  <2> QED  BY <1>1, <2>1, FieldPrintsNothing
<1>7. CASE DoAlarm(t)
  <2>1. \E w : Holds(t, [Me(t) EXCEPT !.clock = w])
    BY <1>7 DEF DoAlarm
  <2> QED  BY <1>1, <2>1, FieldPrintsNothing
<1>8. CASE DoAtexit(t)
  <2>1. \E w : Holds(t, [Me(t) EXCEPT !.exits = w])
    BY <1>8 DEF DoAtexit
  <2> QED  BY <1>1, <2>1, FieldPrintsNothing
<1>9. CASE DoDetach(t)
  <2>1. \E w : Holds(t, [Me(t) EXCEPT !.sid = w]) \/ Holds(t, [Me(t) EXCEPT !.fd = "null"])
    BY <1>9 DEF DoDetach
  <2> QED  BY <1>1, <2>1, FieldPrintsNothing
<1> QED  BY <1>2, <1>3, <1>4, <1>5, <1>6, <1>7, <1>8, <1>9

(* So do those that change no process or another one's fields.             *)
LEMMA OtherCalls ==
  ASSUME Shape, NEW t \in Tasks, task[t].of \in Tasks,
         \/ DoBranch(t) \/ DoReturn(t) \/ DoSigmask(t) \/ DoSigpending(t) \/ DoBusyWait(t)
         \/ DoSleep(t) \/ DoCreate(t) \/ DoJoin(t) \/ DoKill(t) \/ DoWait(t) \/ DoExec(t)
  PROVE  PrintsNothing
<1>1. out' = out
  BY DEF DoBranch, DoReturn, DoSigmask, DoSigpending, DoBusyWait, DoSleep, DoCreate, DoJoin, DoKill,
         DoWait, DoExec, Quiet
<1>2. DOMAIN proc = Tasks /\ \A q \in Tasks : DOMAIN proc[q] = ProcFields
  BY DEF Shape, ProcShape
<1>3. CASE \/ DoBranch(t) \/ DoReturn(t) \/ DoSigmask(t) \/ DoSigpending(t) \/ DoBusyWait(t)
           \/ DoSleep(t) \/ DoCreate(t) \/ DoJoin(t)
  <2>1. UNCHANGED proc
    BY <1>3 DEF DoBranch, DoReturn, DoSigmask, DoSigpending, DoBusyWait, DoSleep, DoCreate, DoJoin
  <2> QED  BY <1>1, <2>1, NothingPrinted
<1>4. CASE DoKill(t)
  <2>1. CASE \E w : Holds(t, [Me(t) EXCEPT !.pend = w])
    BY <1>1, <2>1, FieldPrintsNothing
  <2>2. CASE \E q, w : proc' = [proc EXCEPT ![q].pend = w]
    BY <1>1, <1>2, <2>2 DEF PrintsNothing, ProcFields
  <2> QED  BY <1>4, <2>1, <2>2 DEF DoKill
<1>5. CASE DoWait(t)
  <2>1. CASE UNCHANGED proc
    BY <1>1, <2>1, NothingPrinted
  <2>2. CASE \E q \in Tasks : proc' = [proc EXCEPT ![q].st = "gone",
                                         ![task[t].of].mem["status"] = proc[q].status]
    BY <1>1, <1>2, <2>2 DEF PrintsNothing, ProcFields
  <2> QED  BY <1>5, <2>1, <2>2, Zenon DEF DoWait, Children
<1>6. CASE DoExec(t)
  <2> DEFINE p0 == Program(Arg(t), Me(t).parent, "live")
             p == [p0 EXCEPT !.n = Me(t).n, !.mem["pid"] = Me(t).mem["pid"], !.fd = Me(t).fd, !.sid = Me(t).sid]
  <2>1. CASE UNCHANGED proc
    BY <1>1, <2>1, NothingPrinted
  <2>2. CASE Holds(t, p)
    <3>1. DOMAIN p0 = ProcFields /\ p0.buf = <<>>
      BY ProgramAtStart DEF ProcShape
    <3> HIDE DEF p0
    <3>2. p.n = Me(t).n /\ p.buf = <<>> /\ p.fd = Me(t).fd
      BY <3>1 DEF ProcFields
    <3> HIDE DEF p
    <3> QED  BY <1>1, <2>2, <3>2, HoldingOutput
  <2> QED  BY <1>6, <2>1, <2>2 DEF DoExec
<1> QED  BY <1>3, <1>4, <1>5, <1>6

(* What the staging needs to know of a test, of detach and of a flush.     *)
Tests(t) ==
  /\ task'[t].r = task[t].r
  /\ task'[t].pc = IF Value(t, Arg(t)) = Ins(t)[3] THEN <<Ins(t)[4], 1>>
                                                  ELSE <<task[t].pc[1], task[t].pc[2] + 1>>
Heeds(t) ==
  /\ Op(t) = "if" => Tests(t)
  /\ Op(t) = "detach" => proc'[task[t].of].fd = "null"
  /\ Op(t) = "flush" /\ Arg(t) = "always" => Flushes(t)

(* Every call heeds them.                                                  *)
LEMMA StepHeeds ==
  ASSUME Shape, NEW t \in Tasks, task[t].of \in Tasks, Step(t)
  PROVE  Heeds(t)
<1>1. CASE Op(t) = "if"
  <2>1. DoBranch(t)
    BY <1>1 DEF Step, Printf, DoWrite, DoFlush, DoStore, DoOverwritten, DoBranch, DoReturn, DoSetjmp, DoLongjmp,
       DoSignal, DoSigmask, DoSigpending, DoKill, DoDivideByZero, DoAlarm, DoBusyWait, DoSleep, DoFork, DoExec,
       DoCreate, DoJoin, DoWait, DoAtexit, DoDetach, DoExit
  <2>2. task'[t] = IF Value(t, Arg(t)) = Ins(t)[3] THEN Jump(t, Ins(t)[4]) ELSE On(t)
    BY <1>1, <2>1, Going DEF DoBranch
  <2>3. DOMAIN task[t] = TaskFields
    BY DEF Shape, ThreadShape
  <2>4. Jump(t, Ins(t)[4]).pc = <<Ins(t)[4], 1>> /\ Jump(t, Ins(t)[4]).r = task[t].r
    BY <2>3 DEF Jump, TaskFields
  <2>5. Tests(t)
    BY <2>2, <2>4, OnTheNext DEF Tests
  <2> QED  BY <1>1, <2>5 DEF Heeds
<1>2. CASE Op(t) = "detach"
  <2>1. DoDetach(t)
    BY <1>2 DEF Step, Printf, DoWrite, DoFlush, DoStore, DoOverwritten, DoBranch, DoReturn, DoSetjmp, DoLongjmp,
       DoSignal, DoSigmask, DoSigpending, DoKill, DoDivideByZero, DoAlarm, DoBusyWait, DoSleep, DoFork, DoExec,
       DoCreate, DoJoin, DoWait, DoAtexit, DoDetach, DoExit
  <2>2. Holds(t, [Me(t) EXCEPT !.fd = "null"])
    BY <1>2, <2>1 DEF DoDetach
  <2>3. DOMAIN Me(t) = ProcFields
    BY DEF Shape, ProcShape, Me
  <2>4. proc'[task[t].of].fd = "null"
    BY <2>2, <2>3, HoldingOutput DEF ProcFields
  <2> QED  BY <1>2, <2>4 DEF Heeds
<1>3. CASE Op(t) = "flush"
  <2>1. DoFlush(t)
    BY <1>3 DEF Step, Printf, DoWrite, DoFlush, DoStore, DoOverwritten, DoBranch, DoReturn, DoSetjmp, DoLongjmp,
       DoSignal, DoSigmask, DoSigpending, DoKill, DoDivideByZero, DoAlarm, DoBusyWait, DoSleep, DoFork, DoExec,
       DoCreate, DoJoin, DoWait, DoAtexit, DoDetach, DoExit
  <2> QED  BY <1>3, <2>1, WritingOutputs DEF Heeds
<1> QED  BY <1>1, <1>2, <1>3 DEF Heeds

(* And has one of the forms of output.                                     *)
LEMMA StepOutputs ==
  ASSUME Shape, NEW t \in Tasks, task[t].of \in Tasks, Step(t)
  PROVE  Outputs(t)
<1>1. task[t].st = "run"
  BY DEF Step, Runs
<1>2. CASE Printf(t) \/ DoWrite(t) \/ DoFlush(t)
  BY <1>2, WritingOutputs
<1>3. CASE \/ DoStore(t) \/ DoOverwritten(t) \/ DoSetjmp(t) \/ DoLongjmp(t) \/ DoSignal(t)
           \/ DoDivideByZero(t) \/ DoAlarm(t) \/ DoAtexit(t) \/ DoDetach(t)
  BY <1>3, SilentCalls DEF Outputs
<1>4. CASE \/ DoBranch(t) \/ DoReturn(t) \/ DoSigmask(t) \/ DoSigpending(t) \/ DoBusyWait(t)
           \/ DoSleep(t) \/ DoCreate(t) \/ DoJoin(t) \/ DoKill(t) \/ DoWait(t) \/ DoExec(t)
  BY <1>4, OtherCalls DEF Outputs
<1>5. CASE DoFork(t)
  <2>1. out' = out /\ Op(t) = "fork"
    BY <1>5 DEF DoFork, Quiet
  <2>2. CASE UNCHANGED proc
    BY <2>1, <2>2, NothingPrinted DEF Outputs
  <2>3. CASE proc' # proc
    <3>1. Forks(t, New)
      BY <1>1, <1>5, <2>1, <2>3, ForkForks DEF DoFork
    <3>2. New \in Tasks
      BY <3>1 DEF Forks
    <3> QED  BY <2>1, <3>1, <3>2 DEF Outputs
  <2> QED  BY <2>2, <2>3
<1>6. CASE DoExit(t)
  <2>1. CASE Op(t) = "exit" /\ Me(t).exits # <<>>
    <3>1. out' = out /\ \E w : Holds(t, [Me(t) EXCEPT !.exits = w])
      BY <1>6, <2>1 DEF DoExit
    <3> QED  BY <3>1, FieldPrintsNothing DEF Outputs
  <2>2. CASE UNCHANGED <<proc, out>>
    BY <2>2, NothingPrinted DEF Outputs
  <2>3. CASE \E status : Dies(task[t].of, status) /\ out' = out
    BY <2>3, DiesOutput DEF Outputs, PrintsNothing, OthersSame, SameOutput, Me
  <2>4. CASE \E status : /\ Dies(task[t].of, status) /\ out' = Sent(Me(t), Me(t).buf)
                         /\ Op(t) \in {"exit", "pthread_exit"}
    BY <2>4, DiesOutput DEF Outputs, Flushes
  <2> QED  BY <1>6, <2>1, <2>2, <2>3, <2>4 DEF DoExit
<1> QED  BY <1>2, <1>3, <1>4, <1>5, <1>6 DEF Step

(* A signal prints nothing, nor does a clock that rings.                   *)
LEMMA DeliverOutput ==
  ASSUME Shape, NEW t \in Tasks, NEW s \in Sigs, task[t].of \in Tasks, Deliver(t, s)
  PROVE  PrintsNothing
<1>1. out' = out
  BY DEF Deliver
<1>2. CASE \E status : Dies(task[t].of, status)
  BY <1>1, <1>2, DiesOutput DEF PrintsNothing, OthersSame, SameOutput, Me
<1>3. DOMAIN Me(t) = ProcFields
  BY DEF Shape, ProcShape, Me
<1> DEFINE rest == [Me(t) EXCEPT !.pend = @ \ {s}]
<1>4. CASE Holds(t, rest)
  BY <1>1, <1>4, FieldPrintsNothing
<1>5. CASE Holds(t, [rest EXCEPT !.stopped = ~Lost(t)]) \/ \E w : Holds(t, [rest EXCEPT !.act[s] = w])
  <2>1. DOMAIN rest = ProcFields /\ \A f \in ProcFields \ {"pend"} : rest[f] = Me(t)[f]
    BY <1>3 DEF ProcFields
  <2> HIDE DEF rest
  <2>2. ASSUME NEW p, Holds(t, p),
               p = [rest EXCEPT !.stopped = ~Lost(t)] \/ \E w : p = [rest EXCEPT !.act[s] = w]
        PROVE  PrintsNothing
    <3>1. p.n = Me(t).n /\ p.buf = Me(t).buf /\ p.fd = Me(t).fd
      BY <2>1, <2>2 DEF ProcFields
    <3> QED  BY <1>1, <2>2, <3>1, HoldingOutput
  <2> QED  BY <1>5, <2>2
<1>6. \/ \E status : Dies(task[t].of, status)
      \/ Holds(t, rest)
      \/ Holds(t, [rest EXCEPT !.stopped = ~Lost(t)])
      \/ \E w : Holds(t, [rest EXCEPT !.act[s] = w])
  BY DEF Deliver
<1> QED  BY <1>2, <1>4, <1>5, <1>6

(* Nor does what comes from outside.                                       *)
LEMMA OutsideOutput ==
  ASSUME Shape, (\E p \in Tasks : Ring(p)) \/ \E s : Key(s)
  PROVE  PrintsNothing
<1>1. out' = out
  BY DEF Ring, Key
<1>2. DOMAIN proc = Tasks /\ \A q \in Tasks : DOMAIN proc[q] = ProcFields
  BY DEF Shape, ProcShape
<1>3. CASE \E p \in Tasks : Ring(p)
  <2>1. PICK p \in Tasks : proc' = [proc EXCEPT ![p].clock = FALSE, ![p].pend = @ \cup {"ALRM"}]
    BY <1>3 DEF Ring
  <2> QED  BY <1>1, <1>2, <2>1 DEF PrintsNothing, ProcFields
<1>4. CASE \E s : Key(s)
  <2>1. PICK s : proc' = [proc EXCEPT ![1].pend = @ \cup {s}]
    BY <1>4 DEF Key
  <2> QED  BY <1>1, <1>2, <2>1 DEF PrintsNothing, ProcFields
<1> QED  BY <1>3, <1>4

(* Every step, by its form and by what it does to the output.              *)
LEMMA NextOutputs ==
  ASSUME Rules, ControlInv, Next
  PROVE  /\ tty' = tty
         /\ \/ Idles /\ PrintsNothing
            \/ \E t \in Tasks : /\ Alive(t) /\ Acts(t) /\ Outputs(t)
                                /\ Heeds(t) \/ Finishes(t) \/ \E s \in Sigs : Interrupts(t, s)
<1>1. ASSUME NEW t \in Tasks, Step(t)
      PROVE  tty' = tty /\ Alive(t) /\ Acts(t) /\ Outputs(t) /\ Heeds(t)
  <2>1. Alive(t) /\ Acts(t)
    BY <1>1, StepActs DEF Acts
  <2>2. Shape /\ task[t].of \in Tasks
    BY <2>1, WhereItIs
  <2>3. tty' = tty
    BY <1>1 DEF Step, world
  <2> QED  BY <1>1, <2>1, <2>2, <2>3, StepOutputs, StepHeeds
<1>2. ASSUME NEW t \in Tasks, Wake(t) \/ Input(t)
      PROVE  tty' = tty /\ Alive(t) /\ Acts(t) /\ Outputs(t) /\ Heeds(t)
  <2>1. Alive(t) /\ Acts(t) /\ Op(t) \in Waits
    BY <1>2, WakeActs DEF Acts, Calls
  <2>2. PrintsNothing /\ tty' = tty
    BY <1>2, NothingPrinted DEF Wake, Input, world
  <2> QED  BY <2>1, <2>2 DEF Outputs, Heeds, Waits
<1>3. ASSUME NEW t \in Tasks, NEW s \in Sigs, Deliver(t, s)
      PROVE  /\ tty' = tty /\ PrintsNothing /\ Outputs(t)
             /\ Idles \/ (Alive(t) /\ Acts(t) /\ (Finishes(t) \/ Interrupts(t, s)))
  <2>1. Alive(t) /\ (Interrupts(t, s) \/ Finishes(t) \/ Idles)
    BY <1>3, DeliverActs
  <2>2. Shape /\ task[t].of \in Tasks
    BY <2>1, WhereItIs
  <2>3. tty' = tty
    BY <1>3 DEF Deliver, world
  <2> QED  BY <1>3, <2>1, <2>2, <2>3, DeliverOutput DEF Acts, Outputs
<1>4. Shape
  BY DEF ControlInv
<1>5. ASSUME NEW t \in Tasks, Ring(t)
      PROVE  tty' = tty /\ Idles /\ PrintsNothing
  BY <1>4, <1>5, RingIdles, OutsideOutput DEF Ring
<1>6. ASSUME NEW s \in Sigs, Key(s)
      PROVE  tty' = tty /\ Idles /\ PrintsNothing
  BY <1>4, <1>6, KeyIdles, OutsideOutput DEF Key, world
<1> QED  BY <1>1, <1>2, <1>3, <1>5, <1>6 DEF Next, Progress

-----------------------------------------------------------------------------
(* Lines that are shown once, whatever they are.                           *)

(* One sequence behind another.                                            *)
LEMMA Joined ==
  ASSUME NEW s, NEW r, IsSeq(s), IsSeq(r)
  PROVE  /\ IsSeq(s \o r) /\ DOMAIN (s \o r) = 1..(Len(s) + Len(r)) /\ Len(s \o r) = Len(s) + Len(r)
         /\ \A k \in 1..Len(s) : (s \o r)[k] = s[k]
         /\ \A k \in (Len(s) + 1)..(Len(s) + Len(r)) : (s \o r)[k] = r[k - Len(s)]
<1> DEFINE S == {s[k] : k \in 1..Len(s)} \cup {r[k] : k \in 1..Len(r)}
<1>1. s \in Seq(S) /\ r \in Seq(S) /\ Len(s) \in Nat /\ Len(r) \in Nat
  BY DEF IsSeq
<1> HIDE DEF S
<1>2. s \o r \in Seq(S) /\ Len(s \o r) = Len(s) + Len(r)
  BY <1>1
<1>3. DOMAIN (s \o r) = 1..(Len(s) + Len(r))
  BY <1>2
<1>4. \A k \in 1..(Len(s) + Len(r)) : (s \o r)[k] = IF k <= Len(s) THEN s[k] ELSE r[k - Len(s)]
  BY <1>1
<1>5. IsSeq(s \o r)
  BY <1>2, SeqIsSeq
<1> QED  BY <1>1, <1>2, <1>3, <1>4, <1>5

(* Lines that are lost are not shown twice.                                *)
LEMMA LinesShrink ==
  ASSUME NEW L, NEW M, NEW U, NEW V, NEW n, NEW m, Single(L), Counted(L, U, n),
         DOMAIN M = DOMAIN L, \A x \in DOMAIN L : M[x] \in {L[x], <<>>},
         U \subseteq V, \A u \in U : n[u] \in Nat /\ m[u] \in Nat /\ n[u] <= m[u]
  PROVE  Single(M) /\ Counted(M, V, m)
<1>1. \A x \in DOMAIN L : \A j \in DOMAIN M[x] : M[x] = L[x] /\ j \in DOMAIN L[x]
  BY EmptyIsSeq
<1>2. Single(M)
  BY <1>1 DEF Single
<1>3. \A x \in DOMAIN L : IsSeq(M[x])
  BY EmptyIsSeq DEF Counted
<1>4. ASSUME NEW x \in DOMAIN L, NEW j \in DOMAIN M[x]
      PROVE  M[x][j][3] \in V /\ M[x][j][4] \in Nat /\ M[x][j][4] < m[M[x][j][3]]
  <2>1. M[x][j][3] \in U /\ M[x][j][4] \in Nat /\ M[x][j][4] < n[M[x][j][3]]
    BY <1>1 DEF Counted
  <2> QED  BY <2>1
<1> QED  BY <1>2, <1>3, <1>4 DEF Counted

(* The line e is new at the end of the lines of a.                         *)
Grown(L, M, U, n, m, a, e) ==
  /\ Single(L) /\ Counted(L, U, n)
  /\ DOMAIN M = DOMAIN L /\ a \in DOMAIN L /\ M[a] = Append(L[a], e)
  /\ \A x \in DOMAIN L : x # a => M[x] \in {L[x], <<>>}
  /\ e[3] \in U /\ e[4] = n[e[3]] /\ m[e[3]] = n[e[3]] + 1
  /\ \A u \in U : n[u] \in Nat /\ m[u] \in Nat /\ n[u] <= m[u]

(* Nor is a new one, behind the lines of a or of the screen.               *)
LEMMA LinesGrow ==
  ASSUME NEW L, NEW M, NEW U, NEW n, NEW m, NEW a, NEW e, Grown(L, M, U, n, m, a, e)
  PROVE  Single(M) /\ Counted(M, U, m)
<1> USE DEF Grown
<1> DEFINE New1(x, j) == x = a /\ j = Len(L[a]) + 1
<1>1. IsSeq(L[a]) /\ Len(L[a]) \in Nat /\ DOMAIN L[a] = 1..Len(L[a])
  BY SeqOfItsElements DEF Counted, IsSeq
<1>2. /\ IsSeq(M[a]) /\ DOMAIN M[a] = 1..(Len(L[a]) + 1)
      /\ \A k \in 1..Len(L[a]) : M[a][k] = L[a][k]
      /\ M[a][Len(L[a]) + 1] = e
  BY <1>1, OnTop
<1>3. ASSUME NEW x \in DOMAIN L, NEW j \in DOMAIN M[x], ~New1(x, j)
      PROVE  j \in DOMAIN L[x] /\ M[x][j] = L[x][j]
  <2>1. CASE x = a
    BY <1>1, <1>2, <1>3, <2>1
  <2>2. CASE x # a
    BY <2>2, EmptyIsSeq
  <2> QED  BY <2>1, <2>2
<1>4. \A x \in DOMAIN L : \A j : New1(x, j) => M[x][j] = e
  BY <1>2
<1>5. \A x \in DOMAIN L : \A j \in DOMAIN L[x] :
        /\ L[x][j][3] \in U /\ L[x][j][4] \in Nat /\ L[x][j][4] < n[L[x][j][3]]
  BY DEF Counted
<1>6. \A x \in DOMAIN L : \A j \in DOMAIN L[x] : ~(L[x][j][3] = e[3] /\ L[x][j][4] = e[4])
  BY <1>5
<1>7. \A x \in DOMAIN L : IsSeq(M[x])
  BY <1>2, EmptyIsSeq DEF Counted
<1>8. ASSUME NEW x \in DOMAIN L, NEW y \in DOMAIN L, NEW j \in DOMAIN M[x], NEW k \in DOMAIN M[y],
             M[x][j][3] = M[y][k][3], M[x][j][4] = M[y][k][4]
      PROVE  x = y /\ j = k
  <2>1. CASE New1(x, j) /\ New1(y, k)
    BY <2>1
  <2>2. CASE New1(x, j) /\ ~New1(y, k)
    BY <1>3, <1>4, <1>6, <1>8, <2>2
  <2>3. CASE ~New1(x, j) /\ New1(y, k)
    BY <1>3, <1>4, <1>6, <1>8, <2>3, SMTT(20)
  <2>4. CASE ~New1(x, j) /\ ~New1(y, k)
    <3>1. j \in DOMAIN L[x] /\ M[x][j] = L[x][j] /\ k \in DOMAIN L[y] /\ M[y][k] = L[y][k]
      BY <1>3, <2>4
    <3> QED  BY <1>8, <3>1 DEF Single
  <2> QED  BY <2>1, <2>2, <2>3, <2>4
<1>9. ASSUME NEW x \in DOMAIN L, NEW j \in DOMAIN M[x]
      PROVE  M[x][j][3] \in U /\ M[x][j][4] \in Nat /\ M[x][j][4] < m[M[x][j][3]]
  <2>1. CASE New1(x, j)
    <3>1. M[x][j] = e
      BY <1>4, <2>1
    <3> QED  BY <3>1
  <2>2. CASE ~New1(x, j)
    <3>1. M[x][j] = L[x][j] /\ L[x][j][3] \in U /\ L[x][j][4] \in Nat /\ L[x][j][4] < n[L[x][j][3]]
      BY <1>3, <1>5, <2>2
    <3> QED  BY <3>1
  <2> QED  BY <2>1, <2>2
<1> QED  BY <1>7, <1>8, <1>9 DEF Single, Counted

(* The lines of b are moved to the end of a.                               *)
Joining(L, M, U, n, m, a, b) ==
  /\ Single(L) /\ Counted(L, U, n)
  /\ DOMAIN M = DOMAIN L /\ {a, b} \subseteq DOMAIN L /\ a # b
  /\ M[a] = L[a] \o L[b] /\ M[b] = <<>>
  /\ \A x \in DOMAIN L : x # a => M[x] \in {L[x], <<>>}
  /\ \A u \in U : n[u] \in Nat /\ m[u] \in Nat /\ n[u] <= m[u]

(* Nor are those that are moved.                                           *)
LEMMA LinesMove ==
  ASSUME NEW L, NEW M, NEW U, NEW n, NEW m, NEW a, NEW b, Joining(L, M, U, n, m, a, b)
  PROVE  Single(M) /\ Counted(M, U, m)
<1> USE DEF Joining
<1> DEFINE Moved(x, j) == x = a /\ j > Len(L[a])
           Whose(x, j) == IF Moved(x, j) THEN b ELSE x
           Which(x, j) == IF Moved(x, j) THEN j - Len(L[a]) ELSE j
<1>1. /\ IsSeq(L[a]) /\ Len(L[a]) \in Nat /\ DOMAIN L[a] = 1..Len(L[a])
      /\ IsSeq(L[b]) /\ Len(L[b]) \in Nat /\ DOMAIN L[b] = 1..Len(L[b])
  BY SeqOfItsElements DEF Counted, IsSeq
<1>2. /\ IsSeq(M[a]) /\ DOMAIN M[a] = 1..(Len(L[a]) + Len(L[b]))
      /\ \A k \in 1..Len(L[a]) : M[a][k] = L[a][k]
      /\ \A k \in (Len(L[a]) + 1)..(Len(L[a]) + Len(L[b])) : M[a][k] = L[b][k - Len(L[a])]
  BY <1>1, Joined
<1>3. ASSUME NEW x \in DOMAIN L, NEW j \in DOMAIN M[x]
      PROVE  /\ Whose(x, j) \in DOMAIN L /\ Which(x, j) \in DOMAIN L[Whose(x, j)]
             /\ M[x][j] = L[Whose(x, j)][Which(x, j)]
  <2>1. CASE Moved(x, j)
    <3>1. j \in (Len(L[a]) + 1)..(Len(L[a]) + Len(L[b])) /\ j - Len(L[a]) \in 1..Len(L[b])
      BY <1>1, <1>2, <2>1
    <3> QED  BY <1>1, <1>2, <2>1, <3>1
  <2>2. CASE x = a /\ ~Moved(x, j)
    <3>1. j \in 1..Len(L[a])
      BY <1>1, <1>2, <2>2
    <3> QED  BY <1>1, <1>2, <2>2, <3>1
  <2>3. CASE x # a
    BY <2>3, EmptyIsSeq
  <2> QED  BY <2>1, <2>2, <2>3
<1>4. ASSUME NEW x \in DOMAIN L, NEW j \in DOMAIN M[x], NEW y \in DOMAIN L, NEW k \in DOMAIN M[y],
             Whose(x, j) = Whose(y, k), Which(x, j) = Which(y, k)
      PROVE  x = y /\ j = k
  <2>1. x # b /\ y # b
    BY EmptyIsSeq
  <2>2. CASE Moved(x, j)
    <3>1. Moved(y, k) /\ j \in Nat /\ k \in Nat
      BY <1>1, <1>2, <1>4, <2>1, <2>2
    <3> QED  BY <1>1, <1>4, <2>2, <3>1
  <2>3. CASE ~Moved(x, j)
    BY <1>4, <2>1, <2>3
  <2> QED  BY <2>2, <2>3
<1>5. \A x \in DOMAIN L : IsSeq(M[x])
  BY <1>2, EmptyIsSeq DEF Counted
<1> HIDE DEF Whose, Which
<1>6. ASSUME NEW x \in DOMAIN L, NEW y \in DOMAIN L, NEW j \in DOMAIN M[x], NEW k \in DOMAIN M[y],
             M[x][j][3] = M[y][k][3], M[x][j][4] = M[y][k][4]
      PROVE  x = y /\ j = k
  <2>1. Whose(x, j) = Whose(y, k) /\ Which(x, j) = Which(y, k)
    BY <1>3, <1>6 DEF Single
  <2> QED  BY <1>4, <2>1
<1>7. ASSUME NEW x \in DOMAIN L, NEW j \in DOMAIN M[x]
      PROVE  M[x][j][3] \in U /\ M[x][j][4] \in Nat /\ M[x][j][4] < m[M[x][j][3]]
  <2>1. M[x][j][3] \in U /\ M[x][j][4] \in Nat /\ M[x][j][4] < n[M[x][j][3]]
    BY <1>3 DEF Counted
  <2> QED  BY <2>1
<1> QED  BY <1>5, <1>6, <1>7 DEF Single, Counted

-----------------------------------------------------------------------------
(* The stages of a program, on top of the control.                         *)

(* What the staging says of a call that a thread is at, and of those it    *)
(* may make next.                                                          *)
GoesTo(t, pc) ==
  \/ Op(t) \notin Final /\ pc = <<task[t].pc[1], task[t].pc[2] + 1>>
  \/ \E d \in JumpTo(Ins(t)) : pc = <<d, 1>>

(* The staging at a place of the program.                                  *)
LEMMA StageAtPlace ==
  ASSUME NEW stage, Stages(stage), tty \in BOOLEAN, NEW p \in Covered(tty), NEW pc, Place(p, pc)
  PROVE  /\ AtStage(tty, p, stage[tty][p], pc[1], pc[2])
         /\ Kind(stage, p, pc) # "open" => pc[1] \notin Inside(p) /\ ~Has(p, {"thread", "longjmp"})
<1>1. Staged(tty, p, stage[tty][p])
  BY DEF Stages
<1>2. AtStage(tty, p, stage[tty][p], pc[1], pc[2])
  BY <1>1 DEF Staged, Place
<1> QED  BY <1>2, Zenon DEF AtStage, Kind

(* At the place where a thread is.                                         *)
LEMMA StageSays ==
  ASSUME NEW stage, Stages(stage), ControlInv, StageInv(stage), NEW t \in Tasks, Alive(t)
  PROVE  LET p == Me(t).prog
             kind == Kind(stage, p, task[t].pc)
             after == Kind(stage, p, <<task[t].pc[1], task[t].pc[2] + 1>>)
         IN
         /\ tty \in BOOLEAN /\ p \in Covered(tty) /\ Place(p, task[t].pc)
         /\ kind # "open" => task[t].pc[1] \notin Inside(p) /\ ~Has(p, {"thread", "longjmp"})
         /\ Op(t) = "fork" => kind = "clean" \/ (kind = "bare" /\ after = "split")
         /\ Op(t) = "exec" => Arg(t) \in Covered(tty)
         /\ kind = "split" =>
              /\ Op(t) = "if" /\ Arg(t) = "r"
              /\ IF Ins(t)[3] = 0 THEN Kind(stage, p, <<Ins(t)[4], 1>>) = "silent" ELSE after = "split"
         /\ kind = "silent" => /\ Op(t) \notin {"exit", "pthread_exit", "flush", "fork"}
                               /\ Op(t) = "print" => ~tty
<1> DEFINE p == Me(t).prog
           c == task[t].pc[1]
           k == task[t].pc[2]
           kinds == stage[tty][p]
<1>1. /\ tty \in BOOLEAN /\ p \in Covered(tty) /\ Place(p, task[t].pc)
      /\ Ins(t) = Code[p][c][k]
  BY WhereItIs DEF StageInv, Staying, Controlled, Instruction
<1>2. AtStage(tty, p, kinds, c, k)
  BY <1>1, StageAtPlace
<1>3. /\ kinds[c][k] # "open" => c \notin Inside(p) /\ ~Has(p, {"thread", "longjmp"})
      /\ Op(t) = "fork" => kinds[c][k] = "clean" \/ (kinds[c][k] = "bare" /\ kinds[c][k + 1] = "split")
      /\ Op(t) = "exec" => Arg(t) \in Covered(tty)
      /\ kinds[c][k] = "split" =>
           /\ Op(t) = "if" /\ Arg(t) = "r"
           /\ IF Ins(t)[3] = 0 THEN kinds[Ins(t)[4]][1] = "silent" ELSE kinds[c][k + 1] = "split"
      /\ kinds[c][k] = "silent" => /\ Op(t) \notin {"exit", "pthread_exit", "flush", "fork"}
                                   /\ Op(t) = "print" => ~tty
  BY <1>1, <1>2, Zenon DEF AtStage, Op, Arg
<1>4. /\ Kind(stage, p, task[t].pc) = kinds[c][k]
      /\ Kind(stage, p, <<c, k + 1>>) = kinds[c][k + 1]
      /\ Kind(stage, p, <<Ins(t)[4], 1>>) = kinds[Ins(t)[4]][1]
  BY DEF Kind
<1> QED  BY <1>1, <1>3, <1>4, Zenon

(* And of those it may make next.                                          *)
LEMMA StageOnTheWay ==
  ASSUME NEW stage, Stages(stage), ControlInv, StageInv(stage), NEW t \in Tasks, Alive(t),
         NEW pc, GoesTo(t, pc)
  PROVE  LET p == Me(t).prog
             kind == Kind(stage, p, task[t].pc)
         IN
         /\ Kind(stage, p, pc) # "open" =>
              kind # "open" /\ Op(t) # "resignal" /\ Registers(Ins(t)) \cap DOMAIN Code[p] = {}
         /\ Kind(stage, p, pc) = "clean" =>
              (kind = "clean" /\ ~Fills(tty, Ins(t))) \/ (Op(t) = "flush" /\ Arg(t) = "always")
         /\ kind = "silent" /\ Op(t) # "detach" => Kind(stage, p, pc) = "silent"
<1> DEFINE p == Me(t).prog
           c == task[t].pc[1]
           k == task[t].pc[2]
           kinds == stage[tty][p]
           next == {kinds[n[1]][n[2]] : n \in Later(p, c, k)}
<1>1. /\ tty \in BOOLEAN /\ p \in Covered(tty) /\ Place(p, task[t].pc)
      /\ Ins(t) = Code[p][c][k]
  BY WhereItIs DEF StageInv, Staying, Controlled, Instruction
<1>2. AtStage(tty, p, kinds, c, k)
  BY <1>1, StageAtPlace
<1>3. Kind(stage, p, task[t].pc) = kinds[c][k] /\ Kind(stage, p, pc) = kinds[pc[1]][pc[2]]
  BY DEF Kind
<1>4. Kind(stage, p, pc) \in next
  <2>1. pc \in Later(p, c, k)
    BY <1>1, Zenon DEF GoesTo, Later, Op
  <2> QED  BY <1>3, <2>1, Zenon
<1>5. /\ Kind(stage, p, pc) # "open" =>
           kinds[c][k] # "open" /\ Op(t) # "resignal" /\ Registers(Ins(t)) \cap DOMAIN Code[p] = {}
      /\ Kind(stage, p, pc) = "clean" =>
           (kinds[c][k] = "clean" /\ ~Fills(tty, Ins(t))) \/ (Op(t) = "flush" /\ Arg(t) = "always")
      /\ kinds[c][k] = "silent" /\ Op(t) # "detach" => Kind(stage, p, pc) = "silent"
  BY <1>1, <1>2, <1>4, Zenon DEF AtStage, Op, Arg
<1> QED  BY <1>3, <1>5, Zenon

(* Who is bare is the only thread of its process.                          *)
LEMMA BareIsAlone ==
  ASSUME NEW stage, Stages(stage), ControlInv, StageInv(stage), NEW t \in Tasks, Alive(t),
         NEW u \in Tasks, Alive(u), task[u].of = task[t].of, u # t
  PROVE  /\ Has(Me(t).prog, {"thread"})
         /\ \A pc : Place(Me(t).prog, pc) => Kind(stage, Me(t).prog, pc) = "open"
<1>1. Has(Me(t).prog, {"thread"})
  BY DEF ControlInv, Belongs
<1>2. Has(Me(t).prog, {"thread", "longjmp"})
  BY <1>1 DEF Has
<1>3. tty \in BOOLEAN /\ Me(t).prog \in Covered(tty)
  BY StageSays
<1> QED  BY <1>1, <1>2, <1>3, StageAtPlace

(* A step of t in its process keeps the invariant, if it does for t.       *)
LEMMA StageStep ==
  ASSUME NEW stage, Stages(stage), ControlInv, StageInv(stage), NEW t \in Tasks, Alive(t), Inner(t),
         tty' = tty, Staying(stage, proc'[task[t].of], task'[t])
  PROVE  StageInv(stage)'
<1>1. /\ task'[t].of = task[t].of /\ \A u \in Tasks : u # t => task'[u] = task[u]
      /\ \A q \in Tasks : /\ proc'[q].prog = proc[q].prog
                          /\ q # task[t].of => /\ proc'[q].act = proc[q].act /\ proc'[q].exits = proc[q].exits
  BY DEF Inner, Alone
<1>2. ASSUME NEW u \in Tasks, Alive(u)'
      PROVE  Staying(stage, proc'[task'[u].of], task'[u])
  <2>1. CASE u = t
    BY <1>1, <2>1
  <2>2. CASE u # t
    <3>1. task'[u] = task[u] /\ Alive(u)
      BY <1>1, <1>2, <2>2 DEF Alive
    <3>2. task[u].of \in Tasks /\ Staying(stage, Me(u), task[u]) /\ Place(Me(u).prog, task[u].pc)
      BY <3>1, WhereItIs DEF StageInv, Controlled
    <3>3. CASE task[u].of = task[t].of
      <4>1. Kind(stage, Me(u).prog, task[u].pc) = "open"
        BY <2>2, <3>1, <3>2, <3>3, BareIsAlone
      <4> QED  BY <1>1, <3>1, <3>2, <4>1 DEF Staying, Me
    <3>4. CASE task[u].of # task[t].of
      BY <1>1, <3>1, <3>2, <3>4 DEF Staying, Bare, Me
    <3> QED  BY <3>3, <3>4
  <2> QED  BY <2>1, <2>2
<1>3. \A u \in Tasks : Alive(u)' => Staying(stage, Me(u), task[u])'
  BY <1>2, Zenon DEF Staying, Bare, Kind, Me
<1>4. tty' \in BOOLEAN
  BY DEF StageInv
<1> QED  BY <1>3, <1>4 DEF StageInv

(* Frames that stay what they are.                                         *)
LEMMA StageGoesOn ==
  ASSUME NEW stage, Rules, Stages(stage), ControlInv, StageInv(stage), NEW t \in Tasks, Alive(t),
         GoesTo(t, task'[t].pc), task'[t].frames = task[t].frames, proc'[task[t].of].prog = Me(t).prog,
         proc'[task[t].of].exits = Me(t).exits \/ Op(t) = "atexit",
         \A s \in Sigs : \/ proc'[task[t].of].act[s] = Me(t).act[s]
                         \/ Op(t) = "resignal"
                         \/ Op(t) \in {"signal", "sigaction"} /\ proc'[task[t].of].act[s].h = Ins(t)[3]
  PROVE  Staying(stage, proc'[task[t].of], task'[t])
<1> DEFINE p == Me(t).prog
           kind == Kind(stage, p, task[t].pc)
<1>1. /\ p \in Covered(tty)
      /\ Kind(stage, p, task'[t].pc) # "open" =>
           kind # "open" /\ Op(t) # "resignal" /\ Registers(Ins(t)) \cap DOMAIN Code[p] = {}
  <2>1. p \in Covered(tty)
    BY StageSays
  <2>2. Kind(stage, p, task'[t].pc) # "open" =>
           kind # "open" /\ Op(t) # "resignal" /\ Registers(Ins(t)) \cap DOMAIN Code[p] = {}
    BY StageOnTheWay
  <2> QED  BY <2>1, <2>2
<1>2. /\ kind # "open" => Bare(Me(t), task[t])
      /\ \A k \in DOMAIN task[t].frames : Kind(stage, p, task[t].frames[k].pc) = "open"
  BY DEF StageInv, Staying
<1>3. ASSUME Kind(stage, p, task'[t].pc) # "open"
      PROVE  Bare(proc'[task[t].of], task'[t])
  <2>1. Bare(Me(t), task[t]) /\ Op(t) # "resignal" /\ Registers(Ins(t)) \cap DOMAIN Code[p] = {}
    BY <1>1, <1>2, <1>3
  <2>2. Op(t) # "atexit"
    <3>1. /\ p \in Programs /\ task[t].pc[1] \in DOMAIN Code[p]
          /\ task[t].pc[2] \in DOMAIN Code[p][task[t].pc[1]]
          /\ Ins(t) = Code[p][task[t].pc[1]][task[t].pc[2]]
      BY WhereItIs, SMTT(20) DEF Instruction
    <3>2. \A c \in DOMAIN Code[p] : \A k \in DOMAIN Code[p][c] :
            Code[p][c][k][1] = "atexit" => Code[p][c][k][2] \in DOMAIN Code[p]
      BY <3>1, SMTT(20) DEF Rules, WellMade
    <3>3. Ins(t)[1] = "atexit" => Ins(t)[2] \in DOMAIN Code[p]
      BY <3>1, <3>2
    <3> QED  BY <2>1, <3>3 DEF Registers, Op
  <2>3. \A s \in Sigs : Op(t) \in {"signal", "sigaction"} => Ins(t)[3] \notin DOMAIN Code[p]
    BY <2>1 DEF Registers, Op
  <2> QED  BY <2>1, <2>2, <2>3 DEF Bare
<1> QED  BY <1>1, <1>2, <1>3 DEF Staying

(* What is called on top of another block is inside, and what it           *)
(* interrupts is open: something is registered.                            *)
LEMMA StageCalled ==
  ASSUME NEW stage, Rules, Stages(stage), ControlInv, StageInv(stage), NEW t \in Tasks, Alive(t),
         proc'[task[t].of].prog = Me(t).prog, NEW h \in Inside(Me(t).prog), task'[t].pc = <<h, 1>>,
         NEW e, task'[t].frames = Append(task[t].frames, e), Kind(stage, Me(t).prog, e.pc) = "open"
  PROVE  Staying(stage, proc'[task[t].of], task'[t])
<1> DEFINE p == Me(t).prog
           f == task[t].frames
<1>1. p \in Covered(tty) /\ p \in Programs /\ tty \in BOOLEAN
  BY StageSays, WhereItIs
<1>2. h \in DOMAIN Code[p]
  <2>1. Level(p, 1) \subseteq DOMAIN Code[p]
    BY <1>1, Levels
  <2> QED  BY <2>1 DEF Level
<1>3. Place(p, <<h, 1>>)
  BY <1>1, <1>2, Places1
<1>4. Kind(stage, p, <<h, 1>>) = "open"
  BY <1>1, <1>3, StageAtPlace
<1>5. IsSeq(f) /\ DOMAIN f = 1..Len(f) /\ Len(f) \in Nat
  BY WhereItIs DEF ThreadShape
<1>6. /\ DOMAIN Append(f, e) = 1..(Len(f) + 1)
      /\ \A k \in 1..Len(f) : Append(f, e)[k] = f[k]
      /\ Append(f, e)[Len(f) + 1] = e
  BY <1>5, OnTop
<1>7. \A k \in DOMAIN f : Kind(stage, p, f[k].pc) = "open"
  BY DEF StageInv, Staying
<1>8. ASSUME NEW k \in DOMAIN task'[t].frames
      PROVE  Kind(stage, p, task'[t].frames[k].pc) = "open"
  <2>1. k \in 1..(Len(f) + 1)
    BY <1>6
  <2>2. k \in 1..Len(f) \/ k = Len(f) + 1
    BY <1>5, <2>1
  <2> QED  BY <1>5, <1>6, <1>7, <2>2
<1> QED  BY <1>1, <1>4, <1>8 DEF Staying

(* The steps of one thread in its process.                                 *)
LEMMA StageInner ==
  ASSUME NEW stage, Rules, Stages(stage), ControlInv, ControlInv', StageInv(stage), NEW t \in Tasks, Alive(t),
         Inner(t), Calls(t) \/ \E s \in Sigs : Interrupts(t, s), tty' = tty
  PROVE  StageInv(stage)'
<1> DEFINE p == Me(t).prog
           o == task[t].of
           kind == Kind(stage, p, task[t].pc)
<1>1. /\ o \in Tasks /\ proc'[o].prog = p /\ task'[t].of = o /\ Me(t)' = proc'[o]
      /\ task'[t].st # "gone"
  BY WhereItIs DEF Inner, Me
<1>2. /\ p \in Covered(tty) /\ tty \in BOOLEAN /\ p \in Programs /\ Controlled(p, task[t]) /\ Ready(Me(t))
      /\ Place(p, task[t].pc)
  BY WhereItIs, StageSays
<1>3. /\ kind # "open" => Bare(Me(t), task[t])
      /\ \A k \in DOMAIN task[t].frames : Kind(stage, p, task[t].frames[k].pc) = "open"
  BY DEF StageInv, Staying
<1> SUFFICES Staying(stage, proc'[o], task'[t])
  BY StageStep
<1>4. GoesOn(t) \/ Next1(t) => GoesTo(t, task'[t].pc)
  BY DEF GoesOn, Next1, GoesTo
<1>5. CASE Moves(t) \/ Aborts(t) \/ Masks(t)
  <2>1. proc'[o].act = Me(t).act /\ proc'[o].exits = Me(t).exits /\ task'[t].frames = task[t].frames
    BY <1>1, <1>5 DEF Moves, Aborts, Masks, Steady, Alike, Me
  <2> QED  BY <1>1, <1>4, <1>5, <2>1, StageGoesOn DEF Moves, Aborts, Masks
<1>6. CASE Halts(t)
  <2>1. /\ proc'[o].act = Me(t).act /\ proc'[o].exits = Me(t).exits /\ task'[t].frames = task[t].frames
        /\ task'[t].pc = task[t].pc
    BY <1>1, <1>6 DEF Halts, Alike, Me
  <2> QED  BY <1>1, <1>2, <1>3, <2>1 DEF Staying, Bare
<1>7. CASE Resumes(t)
  <2> DEFINE f == task[t].frames
  <2>1. IsSeq(f) /\ DOMAIN f = 1..Len(f) /\ Len(f) \in Nat
    BY WhereItIs DEF ThreadShape
  <2>2. f # <<>>
    BY <1>7, ReturnsInside DEF Resumes
  <2>3. /\ Len(f) >= 1 /\ DOMAIN Front(f) = 1..(Len(f) - 1)
        /\ \A k \in 1..(Len(f) - 1) : Front(f)[k] = f[k]
        /\ Last(f) = f[Len(f)]
    BY <2>1, <2>2, WithoutTop
  <2>4. Kind(stage, p, task'[t].pc) = "open"
    BY <1>3, <1>7, <2>1, <2>3 DEF Resumes
  <2>5. \A k \in DOMAIN task'[t].frames : Kind(stage, p, task'[t].frames[k].pc) = "open"
    BY <1>3, <1>7, <2>1, <2>3 DEF Resumes
  <2> QED  BY <1>1, <1>2, <2>4, <2>5 DEF Staying
<1>8. CASE Places(t) \/ Signs(t) \/ Adds(t)
  <2>1. /\ Next1(t) /\ task'[t].frames = task[t].frames
        /\ proc'[o].exits = Me(t).exits \/ Op(t) = "atexit"
        /\ \A s \in Sigs : \/ proc'[o].act[s] = Me(t).act[s]
                           \/ Op(t) = "resignal"
                           \/ Op(t) \in {"signal", "sigaction"} /\ proc'[o].act[s].h = Ins(t)[3]
    BY <1>1, <1>8, Zenon DEF Places, Signs, Adds, Steady
  <2> QED  BY <1>1, <1>4, <2>1, StageGoesOn
<1>9. CASE Leaps(t)
  <2>1. Has(p, {"longjmp"})
    BY <1>2, <1>9, WhereItIs DEF Leaps, Has, Op, Instruction
  <2>2. Has(p, {"thread", "longjmp"})
    BY <2>1 DEF Has
  <2>3. Alive(t)' /\ Place(Me(t)'.prog, task'[t].pc)
    <3>1. Alive(t)'
      BY <1>9 DEF Leaps, Alive
    <3>2. Controlled(Me(t).prog, task[t])'
      BY <3>1 DEF ControlInv
    <3> QED  BY <3>1, <3>2 DEF Controlled, Place
  <2>4. Kind(stage, p, task'[t].pc) = "open"
    BY <1>1, <1>2, <2>2, <2>3, StageAtPlace
  <2>5. DOMAIN task'[t].frames = {}
    BY <1>9, EmptyIsSeq DEF Leaps
  <2> QED  BY <1>1, <1>2, <2>4, <2>5 DEF Staying
<1>10. CASE CallsBack(t)
  <2>1. kind = "open"
    BY <1>3, <1>10 DEF CallsBack, Bare
  <2>2. Last(Me(t).exits) \in Inside(p)
    <3>1. IsSeq(Me(t).exits) /\ Me(t).exits # <<>>
      BY <1>10, WhereItIs DEF ProcShape, CallsBack
    <3>2. Last(Me(t).exits) = Me(t).exits[Len(Me(t).exits)] /\ Len(Me(t).exits) >= 1
      BY <3>1, WithoutTop
    <3>3. DOMAIN Me(t).exits = 1..Len(Me(t).exits) /\ Len(Me(t).exits) \in Nat
      BY <3>1 DEF IsSeq
    <3> QED  BY <1>2, <3>2, <3>3 DEF Ready
  <2>3. PICK e : task'[t].frames = Append(task[t].frames, e) /\ e.pc = task[t].pc
    BY <1>10 DEF CallsBack
  <2>4. task'[t].pc = <<Last(Me(t).exits), 1>> /\ Kind(stage, p, e.pc) = "open"
    BY <1>10, <2>1, <2>3 DEF CallsBack
  <2> QED  BY <1>1, <2>2, <2>3, <2>4, StageCalled
<1>11. ASSUME NEW s \in Sigs, Interrupts(t, s)
       PROVE  Staying(stage, proc'[o], task'[t])
  <2>1. /\ Me(t).act[s].h \in DOMAIN Code[p] /\ task'[t].pc = <<Me(t).act[s].h, 1>>
        /\ \E e : /\ task'[t].frames = Append(task[t].frames, e)
                  /\ \/ e.pc = task[t].pc
                     \/ task[t].st # "run" /\ e.pc = <<task[t].pc[1], task[t].pc[2] + 1>>
    BY <1>11 DEF Interrupts
  <2>2. kind = "open" /\ Me(t).act[s].h \in Inside(p)
    BY <1>2, <1>3, <2>1 DEF Bare, Ready
  <2>3. PICK e : /\ task'[t].frames = Append(task[t].frames, e)
                 /\ \/ e.pc = task[t].pc
                    \/ task[t].st # "run" /\ e.pc = <<task[t].pc[1], task[t].pc[2] + 1>>
    BY <2>1
  <2>4. Kind(stage, p, e.pc) = "open"
    <3>1. CASE e.pc = task[t].pc
      BY <2>2, <3>1
    <3>2. CASE task[t].st # "run" /\ e.pc = <<task[t].pc[1], task[t].pc[2] + 1>>
      <4>1. Op(t) \in Waits
        BY <1>2, <3>2, WhereItIs DEF Controlled, Op
      <4>2. GoesTo(t, e.pc)
        BY <3>2, <4>1 DEF GoesTo, Waits, Final
      <4> QED  BY <2>2, <4>2, StageOnTheWay
    <3> QED  BY <2>3, <3>1, <3>2
  <2> QED  BY <1>1, <2>1, <2>2, <2>3, <2>4, StageCalled
<1>12. CASE Begins(t) \/ (\E n \in Tasks : Forks(t, n) \/ Creates(t, n)) \/ Finishes(t)
  <2>1. CASE Begins(t)
    <3>1. Op(t) = "exec" /\ proc'[o].prog = Arg(t) /\ proc'[o].exits = <<>> /\ task'[t].frames = <<>>
          /\ \A s \in Sigs : proc'[o].act[s].h = "DFL"
      BY <1>1, <2>1 DEF Begins
    <3>2. "DFL" \notin DOMAIN Code[p]
      BY <1>2 DEF Rules, WellMade
    <3>3. Bare(proc'[o], task'[t]) /\ DOMAIN task'[t].frames = {}
      BY <1>1, <3>1, <3>2, EmptyIsSeq DEF Bare
    <3> QED  BY <1>1, <1>2, <3>3 DEF Staying
  <2>2. ASSUME NEW n \in Tasks, Forks(t, n) \/ Creates(t, n)
        PROVE  FALSE
    <3>1. ~Born(n) /\ task'[n].st = "run" /\ n # t /\ task'[n] = task[n]
      BY <2>2 DEF Forks, Creates, Copied, Inner, Alone, Born, Alive
    <3> QED  BY <3>1 DEF Born
  <2>3. ~Finishes(t)
    BY <1>1 DEF Finishes
  <2> QED  BY <1>12, <2>1, <2>2, <2>3
<1> QED  BY <1>5, <1>6, <1>7, <1>8, <1>9, <1>10, <1>11, <1>12 DEF Calls

(* Whatever changes no place of a program changes no stage.                *)
LEMMA StageRest ==
  ASSUME NEW stage, ControlInv, StageInv(stage), tty' = tty, Alike,
         \A u \in Tasks : task'[u] = task[u] \/ task'[u].st = "gone"
  PROVE  StageInv(stage)'
<1>1. ASSUME NEW u \in Tasks, Alive(u)'
      PROVE  Staying(stage, proc'[task'[u].of], task'[u])
  <2>1. task'[u] = task[u] /\ Alive(u)
    BY <1>1 DEF Alive
  <2>2. task[u].of \in Tasks /\ Staying(stage, proc[task[u].of], task[u])
    BY <2>1, WhereItIs DEF StageInv, Me
  <2>3. LET p == proc'[task[u].of]
            q == proc[task[u].of]
        IN p.prog = q.prog /\ p.act = q.act /\ p.exits = q.exits
    BY <2>2 DEF Alike
  <2> QED  BY <2>1, <2>2, <2>3 DEF Staying, Bare
<1>2. tty' \in BOOLEAN
  BY DEF StageInv
<1> QED  BY <1>1, <1>2, Zenon DEF StageInv, Staying, Bare, Kind, Me

(* exec: another program of the staging begins, with nothing registered.   *)
LEMMA StageBegins ==
  ASSUME NEW stage, Rules, Stages(stage), ControlInv, StageInv(stage), tty' = tty,
         NEW t \in Tasks, Alive(t), Begins(t)
  PROVE  StageInv(stage)'
<1>1. /\ Op(t) = "exec" /\ Alone(t) /\ task'[t].of = task[t].of /\ task'[t].frames = <<>>
      /\ \A q \in Tasks : q # task[t].of => proc'[q] = proc[q]
      /\ Me(t)' = proc'[task[t].of]
  BY DEF Begins, Me
<1>2. /\ proc'[task[t].of].prog = Arg(t) /\ proc'[task[t].of].exits = <<>>
      /\ \A s \in Sigs : proc'[task[t].of].act[s].h = "DFL"
  BY <1>1 DEF Begins
<1>3. Arg(t) \in Covered(tty) /\ tty \in BOOLEAN
  BY <1>1, StageSays
<1>4. Arg(t) \in Programs /\ \A u \in Tasks : Alive(u) /\ task[u].of = task[t].of => u = t
  BY <1>1, ExecutesAlone
<1>5. "DFL" \notin DOMAIN Code[Arg(t)]
  BY <1>4 DEF Rules, WellMade
<1>6. Staying(stage, proc'[task[t].of], task'[t])
  BY <1>1, <1>2, <1>3, <1>5, EmptyIsSeq DEF Staying, Bare
<1>7. ASSUME NEW u \in Tasks, Alive(u)'
      PROVE  Staying(stage, proc'[task'[u].of], task'[u])
  <2>1. CASE u = t
    BY <1>1, <1>6, <2>1
  <2>2. CASE u # t
    <3>1. task'[u] = task[u] /\ Alive(u)
      BY <1>1, <1>7, <2>2 DEF Alone, Alive
    <3>2. task[u].of \in Tasks /\ task[u].of # task[t].of /\ Staying(stage, proc[task[u].of], task[u])
      BY <1>4, <2>2, <3>1, WhereItIs DEF StageInv, Me
    <3> QED  BY <1>1, <3>1, <3>2
  <2> QED  BY <2>1, <2>2
<1> QED  BY <1>3, <1>7, Zenon DEF StageInv, Staying, Bare, Kind, Me

(* fork: both go on behind it, with the same registered.                   *)
LEMMA StageForks ==
  ASSUME NEW stage, Rules, Stages(stage), ControlInv, StageInv(stage), tty' = tty,
         NEW t \in Tasks, Alive(t), NEW n \in Tasks, Forks(t, n)
  PROVE  StageInv(stage)'
<1> DEFINE o == task[t].of
<1>1. /\ o \in Tasks /\ o # n /\ t # n
  BY WhereItIs DEF Forks, ControlInv, Belongs, Born, Alive
<1>2. /\ Op(t) = "fork" /\ \A u \in Tasks : u # t /\ u # n => task'[u] = task[u]
      /\ task'[t].of = o /\ task'[t].frames = task[t].frames /\ Next1(t)
      /\ task'[n].of = n /\ task'[n].pc = task'[t].pc /\ task'[n].frames = task'[t].frames
      /\ \A q \in Tasks : q # n => proc'[q] = proc[q]
      /\ proc'[n].prog = Me(t).prog /\ proc'[n].act = Me(t).act /\ proc'[n].exits = Me(t).exits
  BY DEF Forks, Copied
<1>3. proc'[o] = Me(t)
  BY <1>1, <1>2 DEF Me
<1>4. GoesTo(t, task'[t].pc)
  BY <1>2 DEF Next1, GoesTo
<1>5. Staying(stage, proc'[o], task'[t])
  BY <1>2, <1>3, <1>4, StageGoesOn
<1>6. Staying(stage, proc'[n], task'[n])
  BY <1>2, <1>3, <1>5 DEF Staying, Bare
<1>7. ASSUME NEW u \in Tasks, Alive(u)'
      PROVE  Staying(stage, proc'[task'[u].of], task'[u])
  <2>1. CASE u = t \/ u = n
    BY <1>2, <1>5, <1>6, <2>1
  <2>2. CASE u # t /\ u # n
    <3>1. task'[u] = task[u] /\ Alive(u)
      BY <1>2, <1>7, <2>2 DEF Alive
    <3>2. task[u].of \in Tasks /\ Born(task[u].of) /\ Staying(stage, proc[task[u].of], task[u])
      BY <3>1, WhereItIs DEF StageInv, Me, ControlInv, Belongs, Alive, Born
    <3>3. task[u].of # n
      BY <3>2 DEF Forks
    <3> QED  BY <1>2, <3>1, <3>2, <3>3
  <2> QED  BY <2>1, <2>2
<1>8. tty \in BOOLEAN
  BY DEF StageInv
<1> QED  BY <1>7, <1>8, Zenon DEF StageInv, Staying, Bare, Kind, Me

(* pthread_create: a program with threads is open everywhere.              *)
LEMMA StageCreates ==
  ASSUME NEW stage, Rules, Stages(stage), ControlInv, ControlInv', StageInv(stage), tty' = tty,
         NEW t \in Tasks, Alive(t), NEW n \in Tasks, Creates(t, n)
  PROVE  StageInv(stage)'
<1> DEFINE o == task[t].of
           p == Me(t).prog
<1>1. /\ o \in Tasks /\ p \in Covered(tty) /\ tty \in BOOLEAN
  BY WhereItIs, StageSays
<1>2. /\ \A u \in Tasks : u # t /\ u # n => task'[u] = task[u]
      /\ task'[t].of = o /\ task'[t].frames = task[t].frames
      /\ task'[n].of = o /\ task'[n].frames = <<>> /\ proc' = proc
  BY DEF Creates
<1>3. Has(p, {"thread"})
  BY WhereItIs DEF Creates, Has, Op, Instruction
<1>4. Has(p, {"thread", "longjmp"})
  BY <1>3 DEF Has
<1>5. ASSUME NEW u \in {t, n}, Alive(u)'
      PROVE  Kind(stage, p, task'[u].pc) = "open"
  <2>1. Controlled(Me(u).prog, task[u])'
    BY <1>5 DEF ControlInv
  <2>2. Place(p, task'[u].pc)
    BY <1>2, <2>1, Zenon DEF Controlled, Place, Me
  <2> QED  BY <1>1, <1>4, <2>2, StageAtPlace
<1>6. \A k \in DOMAIN task[t].frames : Kind(stage, p, task[t].frames[k].pc) = "open"
  BY DEF StageInv, Staying
<1>7. ASSUME NEW u \in Tasks, Alive(u)'
      PROVE  Staying(stage, proc'[task'[u].of], task'[u])
  <2>1. CASE u = t \/ u = n
    BY <1>1, <1>2, <1>5, <1>6, <1>7, <2>1, EmptyIsSeq DEF Staying, Me
  <2>2. CASE u # t /\ u # n
    BY <1>2, <1>7, <2>2 DEF StageInv, Alive, Me
  <2> QED  BY <2>1, <2>2
<1> QED  BY <1>1, <1>7, Zenon DEF StageInv, Staying, Bare, Kind, Me

(* Every step keeps the stages ...                                         *)
LEMMA StageNext ==
  ASSUME NEW stage, Rules, Stages(stage), ControlInv, StageInv(stage), [Next]_vars
  PROVE  StageInv(stage)'
<1>1. ControlInv'
  BY ControlNext
<1>2. CASE UNCHANGED vars
  BY <1>2, Zenon DEF vars, StageInv, Staying, Bare, Kind, Me, Alive
<1>3. CASE Next
  <2>1. tty' = tty /\ (Idles \/ \E t \in Tasks : Alive(t) /\ Acts(t))
    BY <1>3, NextOutputs
  <2>2. CASE Idles
    BY <2>1, <2>2, StageRest DEF Idles
  <2>3. ASSUME NEW t \in Tasks, Alive(t), Acts(t)
        PROVE  StageInv(stage)'
    <3>1. CASE Finishes(t)
      BY <2>1, <3>1, StageRest DEF Finishes
    <3>2. CASE Inner(t) /\ ~Finishes(t)
      BY <1>1, <2>1, <2>3, <3>2, StageInner DEF Acts
    <3>3. CASE Begins(t)
      BY <2>1, <2>3, <3>3, StageBegins
    <3>4. CASE \E n \in Tasks : Forks(t, n) \/ Creates(t, n)
      BY <1>1, <2>1, <2>3, <3>4, StageForks, StageCreates
    <3> QED  BY <2>3, <3>1, <3>2, <3>3, <3>4, Inners
  <2> QED  BY <2>1, <2>2, <2>3
<1> QED  BY <1>2, <1>3

(* ... and they hold at the start.                                         *)
LEMMA StageInit ==
  ASSUME NEW stage, Rules, Init, main \in Covered(tty)
  PROVE  StageInv(stage)
<1>1. tty \in BOOLEAN /\ main \in Programs
  BY AtStart DEF Init, Rules, Programs
<1>2. "DFL" \notin DOMAIN Code[main]
  BY <1>1 DEF Rules, WellMade
<1>3. ASSUME NEW t \in Tasks, Alive(t)
      PROVE  Staying(stage, Me(t), task[t])
  <2>1. t = 1 /\ Beginning(task[t], 1) /\ Fresh(proc[1], main)
    BY <1>3, AtStart DEF Alive, Born
  <2>2. Me(t) = proc[1] /\ Me(t).prog = main /\ Bare(Me(t), task[t]) /\ DOMAIN task[t].frames = {}
    BY <1>2, <2>1, EmptyIsSeq DEF Beginning, Fresh, Bare, Me
  <2> QED  BY <2>2 DEF Staying
<1> QED  BY <1>1, <1>3 DEF StageInv

-----------------------------------------------------------------------------
(* The lines.  Only the process of t prints, and none opens stdout again.  *)
LEMMA Elsewhere ==
  ASSUME NEW t \in Tasks, Outputs(t), NEW q \in Tasks, \A n \in Tasks : Forks(t, n) => q # n
  PROVE  /\ proc'[q].fd \in {proc[q].fd, "null"}
         /\ q # task[t].of => proc'[q].n = proc[q].n /\ proc'[q].buf \in {proc[q].buf, <<>>}
<1>1. CASE PrintsNothing
  BY <1>1 DEF PrintsNothing
<1>2. CASE Buffers(t) \/ Prints(t) \/ Writes(t) \/ Flushes(t)
  BY <1>2, Zenon DEF Buffers, Prints, Writes, Flushes, OthersSame, SameOutput, Me
<1>3. CASE \E n \in Tasks : Forks(t, n)
  BY <1>3 DEF Forks
<1> QED  BY <1>1, <1>2, <1>3 DEF Outputs

(* A thread that is silent stays so, or its process closes stdout or       *)
(* begins another program.                                                 *)
LEMMA SilentStays ==
  ASSUME NEW stage, Rules, Stages(stage), ControlInv, StageInv(stage), tty' = tty,
         NEW t \in Tasks, Alive(t), Silent(stage, t), Inner(t),
         (Calls(t) /\ Heeds(t) /\ ~Finishes(t)) \/ \E s \in Sigs : Interrupts(t, s)
  PROVE  Silent(stage, t)' \/ proc'[task[t].of].fd = "null" \/ proc'[task[t].of].buf = <<>>
<1> DEFINE p == Me(t).prog
           o == task[t].of
           kind == Kind(stage, p, task[t].pc)
<1>1. o \in Tasks /\ task'[t].of = o /\ proc'[o].prog = p
  BY WhereItIs DEF Inner, Me
<1>2. \/ Kind(stage, p, task'[t].pc) = "silent"
      \/ Kind(stage, p, task'[t].pc) = "split" /\ task'[t].r = 0
      => Silent(stage, t)'
  BY <1>1, Zenon DEF Silent, Kind, Me
<1>3. kind # "open" /\ Bare(Me(t), task[t]) /\ ~Has(p, {"thread", "longjmp"})
  <2>1. kind # "open"
    BY DEF Silent
  <2>2. ~Has(p, {"thread", "longjmp"})
    BY <2>1, StageSays
  <2> QED  BY <2>1, <2>2 DEF StageInv, Staying
<1>4. ~\E s \in Sigs : Interrupts(t, s)
  BY <1>3 DEF Bare, Interrupts
<1>5. CASE kind = "split"
  <2>1. /\ Op(t) = "if" /\ Arg(t) = "r" /\ task[t].r = 0
        /\ IF Ins(t)[3] = 0 THEN Kind(stage, p, <<Ins(t)[4], 1>>) = "silent"
                            ELSE Kind(stage, p, <<task[t].pc[1], task[t].pc[2] + 1>>) = "split"
    BY <1>5, StageSays DEF Silent
  <2>2. Tests(t)
    BY <1>4, <2>1 DEF Heeds
  <2>3. Value(t, Arg(t)) = 0
    BY <2>1 DEF Value
  <2>4. CASE Ins(t)[3] = 0
    BY <1>2, <2>1, <2>2, <2>3, <2>4 DEF Tests
  <2>5. CASE Ins(t)[3] # 0
    BY <1>2, <2>1, <2>2, <2>3, <2>5 DEF Tests
  <2> QED  BY <2>4, <2>5
<1>6. CASE kind = "silent"
  <2>1. CASE Op(t) = "detach"
    BY <1>4, <2>1 DEF Heeds
  <2>2. CASE GoesTo(t, task'[t].pc) /\ Op(t) # "detach"
    BY <1>2, <1>6, <2>2, StageOnTheWay
  <2>3. Moves(t) \/ Aborts(t) \/ Masks(t) \/ Places(t) \/ Signs(t) \/ Adds(t) => GoesTo(t, task'[t].pc)
    BY DEF Moves, Aborts, Masks, Places, Signs, Adds, GoesOn, Next1, GoesTo
  <2>4. Halts(t) => task'[t].pc = task[t].pc
    BY DEF Halts
  <2>5. ~Resumes(t)
    BY <1>3, ReturnsInside DEF Resumes, Bare
  <2>6. ~Leaps(t)
    <3>1. Op(t) = "longjmp" => Has(p, {"thread", "longjmp"})
      BY WhereItIs DEF Has, Op, Instruction
    <3> QED  BY <1>3, <3>1 DEF Leaps
  <2>7. ~CallsBack(t)
    BY <1>3 DEF CallsBack, Bare
  <2>8. Begins(t) => proc'[o].buf = <<>>
    <3>1. Me(t)' = proc'[o]
      BY <1>1 DEF Me
    <3> QED  BY <3>1 DEF Begins
  <2>9. ASSUME NEW n \in Tasks, Forks(t, n) \/ Creates(t, n)
        PROVE  FALSE
    BY <2>9 DEF Forks, Creates, Copied, Inner, Alone, Born, Alive
  <2> QED  BY <1>2, <1>4, <1>6, <2>1, <2>2, <2>3, <2>4, <2>5, <2>6, <2>7, <2>8, <2>9 DEF Calls
<1> QED  BY <1>5, <1>6 DEF Silent

(* Who shows its buffer because of a thread that did not move showed it    *)
(* before.                                                                 *)
LEMMA ShowsAsBefore ==
  ASSUME NEW stage, tty' = tty, NEW u \in Tasks, Alive(u)', task'[u] = task[u], NEW q \in Tasks,
         task[u].of = q, ~Silent(stage, u)', proc'[q].prog = proc[q].prog,
         proc'[q].fd = "out", proc'[q].fd \in {proc[q].fd, "null"}
  PROVE  Shows(stage, q)
<1>1. Alive(u) /\ proc[q].fd = "out"
  BY SMTT(20) DEF Alive
<1>2. ~Silent(stage, u)
  BY DEF Silent, Kind, Me
<1> QED  BY <1>1, <1>2 DEF Shows

(* fork and pthread_create at the places the staging gives them.           *)
LEMMA ForkPlaces ==
  ASSUME NEW stage, Rules, Stages(stage), ControlInv, StageInv(stage), LineInv(stage), tty' = tty,
         NEW t \in Tasks, Alive(t), NEW n \in Tasks, Forks(t, n)
  PROVE  /\ task[t].of \in Tasks /\ task[t].of # n /\ t # n /\ ~Silent(stage, t)
         /\ \A u \in Tasks : Alive(u)' /\ u # t /\ u # n => task'[u] = task[u] /\ task[u].of # n
         /\ proc'[n].buf = <<>> \/ Silent(stage, n)'
<1> DEFINE o == task[t].of
           p == Me(t).prog
           kind == Kind(stage, p, task[t].pc)
           after == Kind(stage, p, <<task[t].pc[1], task[t].pc[2] + 1>>)
<1>1. /\ o \in Tasks /\ o # n /\ t # n
  BY WhereItIs DEF Forks, ControlInv, Belongs, Born, Alive
<1>2. /\ Op(t) = "fork" /\ \A u \in Tasks : u # t /\ u # n => task'[u] = task[u]
      /\ Next1(t) /\ task'[n].of = n /\ task'[n].pc = task'[t].pc /\ task'[n].r = 0
      /\ proc'[n].prog = p /\ proc'[n].buf = Me(t).buf
  BY DEF Forks, Copied
<1>3. kind = "clean" \/ (kind = "bare" /\ after = "split")
  BY <1>2, StageSays
<1>4. ASSUME NEW u \in Tasks, Alive(u)', u # t, u # n
      PROVE  task'[u] = task[u] /\ task[u].of # n
  <2>1. task'[u] = task[u] /\ Alive(u)
    BY <1>2, <1>4 DEF Alive
  <2>2. Born(task[u].of)
    BY <2>1 DEF ControlInv, Belongs, Alive, Born
  <2> QED  BY <2>1, <2>2 DEF Forks
<1>5. CASE kind = "clean"
  <2>1. Me(t).buf = <<>>
    BY <1>5 DEF LineInv
  <2> QED  BY <1>1, <1>2, <1>4, <1>5, <2>1 DEF Silent
<1>6. CASE kind = "bare" /\ after = "split"
  <2>1. Silent(stage, n)'
    BY <1>2, <1>6, Zenon DEF Silent, Kind, Me, Next1
  <2> QED  BY <1>1, <1>4, <1>6, <2>1 DEF Silent
<1> QED  BY <1>3, <1>5, <1>6

(* A program that creates threads is open everywhere.                      *)
LEMMA ThreadsAreOpen ==
  ASSUME NEW stage, Rules, Stages(stage), ControlInv, ControlInv', StageInv(stage), tty' = tty,
         NEW t \in Tasks, Alive(t), NEW n \in Tasks, Creates(t, n)
  PROVE  /\ ~Silent(stage, t)
         /\ \A u \in {t, n} : Alive(u)' => Kind(stage, Me(u).prog, task[u].pc)' = "open"
<1> DEFINE p == Me(t).prog
<1>1. p \in Covered(tty) /\ tty \in BOOLEAN /\ Place(p, task[t].pc)
  BY StageSays
<1>2. /\ task'[t].of = task[t].of /\ task'[n].of = task[t].of /\ proc' = proc
  BY DEF Creates
<1>3. Has(p, {"thread"})
  BY WhereItIs DEF Creates, Has, Op, Instruction
<1>4. Has(p, {"thread", "longjmp"})
  BY <1>3 DEF Has
<1>5. Kind(stage, p, task[t].pc) = "open"
  BY <1>1, <1>4, StageAtPlace
<1>6. ASSUME NEW u \in {t, n}, Alive(u)'
      PROVE  Kind(stage, Me(u).prog, task[u].pc)' = "open"
  <2>1. Controlled(Me(u).prog, task[u])'
    BY <1>6 DEF ControlInv
  <2>2. Place(p, task'[u].pc) /\ Me(u)'.prog = p
    BY <1>2, <2>1, Zenon DEF Controlled, Place, Me
  <2>3. Kind(stage, p, task'[u].pc) = "open"
    BY <1>1, <1>4, <2>2, StageAtPlace
  <2> QED  BY <2>2, <2>3 DEF Kind
<1> QED  BY <1>5, <1>6 DEF Silent

(* Most steps make no thread.                                              *)
LEMMA InnerMakesNone ==
  ASSUME NEW t \in Tasks, Alive(t), Inner(t) \/ Finishes(t) \/ Begins(t), NEW n \in Tasks
  PROVE  ~Forks(t, n)
BY DEF Inner, Finishes, Begins, Alone, Forks, Copied, Born, Alive

(* A buffer that is to be shown is empty or was to be shown before.        *)
LEMMA ShowsKept ==
  ASSUME NEW stage, Rules, Stages(stage), ControlInv, ControlInv', StageInv(stage), LineInv(stage), tty' = tty,
         NEW t \in Tasks, Alive(t), Acts(t), Outputs(t),
         Heeds(t) \/ Finishes(t) \/ \E s \in Sigs : Interrupts(t, s),
         NEW q \in Tasks, Shows(stage, q)'
  PROVE  Shows(stage, q) \/ proc'[q].buf = <<>>
<1> DEFINE o == task[t].of
<1>1. PICK u \in Tasks : Alive(u)' /\ task'[u].of = q /\ ~Silent(stage, u)'
  BY DEF Shows
<1>2. proc'[q].fd = "out" /\ o \in Tasks
  BY WhereItIs DEF Shows
<1>3. CASE Finishes(t)
  <2>1. task'[u] = task[u] /\ proc'[q].prog = proc[q].prog
    BY <1>1, <1>3 DEF Finishes, Alike, Alive
  <2>2. proc'[q].fd \in {proc[q].fd, "null"}
    BY <1>3, InnerMakesNone, Elsewhere
  <2> QED  BY <1>1, <1>2, <2>1, <2>2, ShowsAsBefore
<1>4. CASE Inner(t) /\ ~Finishes(t)
  <2>1. proc'[q].prog = proc[q].prog
    BY <1>4 DEF Inner
  <2>2. proc'[q].fd \in {proc[q].fd, "null"}
    BY <1>4, InnerMakesNone, Elsewhere
  <2>3. CASE u # t
    <3>1. task'[u] = task[u]
      BY <1>4, <2>3 DEF Inner, Alone
    <3> QED  BY <1>1, <1>2, <2>1, <2>2, <3>1, ShowsAsBefore
  <2>4. CASE u = t
    <3>1. q = o /\ proc[q].fd = "out"
      BY <1>1, <1>2, <1>4, <2>2, <2>4 DEF Inner
    <3>2. CASE ~Silent(stage, t)
      BY <3>1, <3>2 DEF Shows
    <3>3. CASE Silent(stage, t)
      <4>1. (Calls(t) /\ Heeds(t) /\ ~Finishes(t)) \/ \E s \in Sigs : Interrupts(t, s)
        BY <1>4 DEF Acts
      <4> QED  BY <1>1, <1>2, <1>4, <2>4, <3>1, <3>3, <4>1, SilentStays
    <3> QED  BY <3>2, <3>3
  <2> QED  BY <2>3, <2>4
<1>5. CASE Begins(t)
  <2>1. CASE q = o
    <3>1. Me(t)' = proc'[o]
      BY <1>5 DEF Begins, Me
    <3> QED  BY <1>5, <2>1, <3>1 DEF Begins
  <2>2. CASE q # o
    <3>1. task'[u] = task[u] /\ proc'[q] = proc[q]
      BY <1>1, <1>5, <2>2 DEF Begins, Alone
    <3> QED  BY <1>1, <1>2, <3>1, ShowsAsBefore
  <2> QED  BY <2>1, <2>2
<1>6. ASSUME NEW n \in Tasks, Forks(t, n)
      PROVE  Shows(stage, q) \/ proc'[q].buf = <<>>
  <2>1. /\ o # n /\ ~Silent(stage, t) /\ task'[t].of = o /\ task'[n].of = n
        /\ \A v \in Tasks : Alive(v)' /\ v # t /\ v # n => task'[v] = task[v] /\ task[v].of # n
        /\ proc'[n].buf = <<>> \/ Silent(stage, n)'
        /\ \A x \in Tasks : x # n => proc'[x] = proc[x]
    BY <1>6, ForkPlaces DEF Forks
  <2>2. CASE q = n
    BY <1>1, <2>1, <2>2
  <2>3. CASE q # n /\ u = t
    BY <1>1, <1>2, <2>1, <2>3 DEF Shows
  <2>4. CASE q # n /\ u # t
    BY <1>1, <1>2, <2>1, <2>4, ShowsAsBefore
  <2> QED  BY <2>2, <2>3, <2>4
<1>7. ASSUME NEW n \in Tasks, Creates(t, n)
      PROVE  Shows(stage, q)
  <2>1. /\ ~Silent(stage, t) /\ proc' = proc /\ task'[t].of = o /\ task'[n].of = o
        /\ \A v \in Tasks : v # t /\ v # n => task'[v] = task[v]
    BY <1>7, ThreadsAreOpen DEF Creates
  <2>2. CASE u = t \/ u = n
    BY <1>1, <1>2, <2>1, <2>2 DEF Shows
  <2>3. CASE u # t /\ u # n
    BY <1>1, <1>2, <2>1, <2>3, ShowsAsBefore
  <2> QED  BY <2>2, <2>3
<1> QED  BY <1>3, <1>4, <1>5, <1>6, <1>7, Inners

(* What follows a call that keeps the buffer empty is an empty buffer.     *)
LEMMA CleanGoesOn ==
  ASSUME NEW stage, Rules, Stages(stage), ControlInv, StageInv(stage), LineInv(stage), tty' = tty,
         NEW t \in Tasks, Alive(t), Inner(t), Outputs(t), Heeds(t),
         GoesTo(t, task'[t].pc) \/ (Op(t) \in Waits /\ task'[t].pc = task[t].pc),
         Kind(stage, Me(t).prog, task'[t].pc) = "clean"
  PROVE  proc'[task[t].of].buf = <<>>
<1> DEFINE o == task[t].of
           kind == Kind(stage, Me(t).prog, task[t].pc)
<1>1. o \in Tasks /\ \A n \in Tasks : ~Forks(t, n)
  BY WhereItIs, InnerMakesNone
<1>2. \/ Op(t) = "flush" /\ Arg(t) = "always"
      \/ kind = "clean" /\ (Op(t) \in Waits \/ ~Fills(tty, Ins(t)))
  BY StageOnTheWay
<1>3. CASE Op(t) = "flush" /\ Arg(t) = "always"
  BY <1>3 DEF Heeds, Flushes
<1>4. CASE kind = "clean" /\ (Op(t) \in Waits \/ ~Fills(tty, Ins(t)))
  <2>1. Me(t).buf = <<>>
    BY <1>4 DEF LineInv
  <2>2. ~Buffers(t)
    BY <1>4 DEF Buffers, Waits
  <2> QED  BY <1>1, <2>1, <2>2 DEF Outputs, PrintsNothing, Prints, Writes, Flushes, Me
<1> QED  BY <1>2, <1>3, <1>4

(* A thread that did not move, and where it stands.                        *)
LEMMA CleanAsBefore ==
  ASSUME NEW stage, Stages(stage), ControlInv, StageInv(stage), LineInv(stage), tty' = tty,
         NEW t \in Tasks, Alive(t), NEW u \in Tasks, u # t, Alive(u)', task'[u] = task[u],
         proc'[task[u].of].prog = proc[task[u].of].prog,
         task[u].of # task[t].of => proc'[task[u].of].buf \in {proc[task[u].of].buf, <<>>},
         Kind(stage, Me(u).prog, task[u].pc)' = "clean"
  PROVE  proc'[task[u].of].buf = <<>>
<1>1. Alive(u) /\ Kind(stage, Me(u).prog, task[u].pc) = "clean"
  BY Zenon DEF Alive, Kind, Me
<1>2. Me(u).buf = <<>>
  BY <1>1 DEF LineInv
<1>3. ASSUME task[u].of = task[t].of
      PROVE  FALSE
  <2>1. Me(u).prog = Me(t).prog
    BY <1>3 DEF Me
  <2>2. Place(Me(t).prog, task[u].pc)
    BY <1>1, <2>1, WhereItIs DEF Controlled
  <2> QED  BY <1>1, <1>3, <2>1, <2>2, BareIsAlone
<1> QED  BY <1>2, <1>3 DEF Me

(* Where the staging says that the buffer is empty, it is.                 *)
LEMMA CleanKept ==
  ASSUME NEW stage, Rules, Stages(stage), ControlInv, ControlInv', StageInv(stage), StageInv(stage)',
         LineInv(stage), tty' = tty, NEW t \in Tasks, Alive(t), Acts(t), Outputs(t),
         Heeds(t) \/ Finishes(t) \/ \E s \in Sigs : Interrupts(t, s),
         NEW u \in Tasks, Alive(u)', Kind(stage, Me(u).prog, task[u].pc)' = "clean"
  PROVE  Me(u)'.buf = <<>>
<1> DEFINE o == task[t].of
<1>1. o \in Tasks /\ Me(u)' = proc'[task'[u].of]
  BY WhereItIs DEF Me
<1>2. ASSUME u # t, task'[u] = task[u]
      PROVE  task[u].of \in Tasks
  BY <1>2, WhereItIs DEF Alive
<1>3. CASE Finishes(t)
  <2>1. task'[u] = task[u] /\ u # t
    BY <1>3 DEF Finishes, Alive
  <2>2. task[u].of \in Tasks
    BY <1>2, <2>1
  <2>3. proc'[task[u].of].prog = proc[task[u].of].prog
    BY <1>3, <2>2 DEF Finishes, Alike
  <2>4. task[u].of # o => proc'[task[u].of].buf \in {proc[task[u].of].buf, <<>>}
    BY <1>3, <2>2, InnerMakesNone, Elsewhere
  <2> QED  BY <1>1, <2>1, <2>3, <2>4, CleanAsBefore
<1>4. CASE Inner(t) /\ u # t
  <2>1. task'[u] = task[u]
    BY <1>4 DEF Inner, Alone
  <2>2. task[u].of \in Tasks
    BY <1>2, <1>4, <2>1
  <2>3. proc'[task[u].of].prog = proc[task[u].of].prog
    BY <1>4, <2>2 DEF Inner
  <2>4. task[u].of # o => proc'[task[u].of].buf \in {proc[task[u].of].buf, <<>>}
    BY <1>4, <2>2, InnerMakesNone, Elsewhere
  <2> QED  BY <1>1, <1>4, <2>1, <2>3, <2>4, CleanAsBefore
<1>5. CASE Inner(t) /\ u = t /\ ~Finishes(t)
  <2>1. task'[t].of = o /\ proc'[o].prog = Me(t).prog
    BY <1>1, <1>5 DEF Inner, Me
  <2>2. Kind(stage, Me(t).prog, task'[t].pc) = "clean"
    BY <1>5, <2>1, Zenon DEF Kind, Me
  <2>3. task'[t].frames = <<>>
    BY <1>5 DEF StageInv, Staying, Bare
  <2>4. IsSeq(task[t].frames) /\ Len(task[t].frames) \in Nat /\ DOMAIN task[t].frames = 1..Len(task[t].frames)
    BY WhereItIs DEF ThreadShape
  <2>5. \A e : task'[t].frames # Append(task[t].frames, e)
    <3>1. ASSUME NEW e, task'[t].frames = Append(task[t].frames, e)
          PROVE  FALSE
      <4>1. DOMAIN Append(task[t].frames, e) = 1..(Len(task[t].frames) + 1)
        BY <2>4, OnTop
      <4>2. 1 \in DOMAIN task'[t].frames
        BY <2>4, <3>1, <4>1
      <4> QED  BY <2>3, <4>2, EmptyIsSeq
    <3> QED  BY <3>1
  <2>6. ~\E s \in Sigs : Interrupts(t, s)
    BY <2>5 DEF Interrupts
  <2>7. Calls(t) /\ Heeds(t)
    BY <1>5, <2>6 DEF Acts
  <2>8. CASE Moves(t) \/ Aborts(t) \/ Masks(t) \/ Places(t) \/ Signs(t) \/ Adds(t)
    <3>1. GoesTo(t, task'[t].pc)
      BY <2>8 DEF Moves, Aborts, Masks, Places, Signs, Adds, GoesOn, Next1, GoesTo
    <3> QED  BY <1>1, <1>5, <2>1, <2>2, <2>7, <3>1, CleanGoesOn
  <2>9. CASE Halts(t)
    <3>1. Op(t) \in Waits /\ task'[t].pc = task[t].pc
      BY <2>9 DEF Halts
    <3> QED  BY <1>1, <1>5, <2>1, <2>2, <2>7, <3>1, CleanGoesOn
  <2>10. ~Resumes(t)
    <3>1. ASSUME Resumes(t) PROVE FALSE
      <4> DEFINE f == task[t].frames
      <4>1. f # <<>>
        BY <3>1, ReturnsInside DEF Resumes
      <4>2. Len(f) >= 1 /\ Last(f) = f[Len(f)] /\ Len(f) \in DOMAIN f
        BY <2>4, <4>1, WithoutTop
      <4>3. Kind(stage, Me(t).prog, f[Len(f)].pc) = "open"
        BY <4>2 DEF StageInv, Staying
      <4> QED  BY <2>2, <3>1, <4>2, <4>3 DEF Resumes
    <3> QED  BY <3>1
  <2>11. ~Leaps(t)
    <3>1. Op(t) = "longjmp" => Has(Me(t).prog, {"thread", "longjmp"})
      BY WhereItIs DEF Has, Op, Instruction
    <3>2. Me(t).prog \in Covered(tty) /\ tty \in BOOLEAN
      BY StageSays, Zenon
    <3>3. Controlled(Me(t).prog, task[t])'
      BY <1>5 DEF ControlInv
    <3>4. Place(Me(t).prog, task'[t].pc)
      BY <2>1, <3>3, Zenon DEF Controlled, Place, Me
    <3> QED  BY <2>2, <3>1, <3>2, <3>4, StageAtPlace DEF Leaps
  <2>12. ~CallsBack(t)
    BY <2>5 DEF CallsBack
  <2>13. Begins(t) => proc'[o].buf = <<>>
    BY <1>1, <1>5, <2>1 DEF Begins, Me
  <2>14. \A n \in Tasks : ~Forks(t, n) /\ ~Creates(t, n)
    BY <1>5 DEF Forks, Creates, Copied, Inner, Alone, Born, Alive
  <2> QED  BY <1>1, <1>5, <2>1, <2>7, <2>8, <2>9, <2>10, <2>11, <2>12, <2>13, <2>14 DEF Calls
<1>6. CASE Begins(t)
  <2>1. CASE task'[u].of = o
    <3>1. Me(t)' = proc'[o] /\ Me(t)'.buf = <<>>
      BY <1>6 DEF Begins, Me
    <3> QED  BY <1>1, <2>1, <3>1
  <2>2. CASE task'[u].of # o
    <3>1. u # t /\ task'[u] = task[u]
      BY <1>6, <2>2 DEF Begins, Alone
    <3>2. proc'[task[u].of] = proc[task[u].of]
      BY <1>2, <1>6, <2>2, <3>1 DEF Begins
    <3> QED  BY <1>1, <3>1, <3>2, CleanAsBefore
  <2> QED  BY <2>1, <2>2
<1>7. ASSUME NEW n \in Tasks, Forks(t, n)
      PROVE  Me(u)'.buf = <<>>
  <2>1. /\ o # n /\ t # n /\ task'[t].of = o /\ task'[n].of = n /\ task'[n].pc = task'[t].pc
        /\ \A v \in Tasks : Alive(v)' /\ v # t /\ v # n => task'[v] = task[v] /\ task[v].of # n
        /\ \A x \in Tasks : x # n => proc'[x] = proc[x]
        /\ proc'[n].prog = Me(t).prog /\ proc'[n].buf = Me(t).buf
        /\ Op(t) = "fork" /\ Next1(t)
    BY <1>7, ForkPlaces DEF Forks, Copied
  <2>2. CASE u = t \/ u = n
    <3>1. Kind(stage, Me(t).prog, task'[t].pc) = "clean"
      <4>1. proc'[task'[u].of].prog = Me(t).prog /\ task'[u].pc = task'[t].pc
        BY <1>1, <2>1, <2>2 DEF Me
      <4> QED  BY <4>1, Zenon DEF Kind, Me
    <3>2. GoesTo(t, task'[t].pc)
      BY <2>1 DEF GoesTo, Next1
    <3>3. Kind(stage, Me(t).prog, task[t].pc) = "clean"
      BY <2>1, <3>1, <3>2, StageOnTheWay
    <3>4. Me(t).buf = <<>>
      BY <3>3 DEF LineInv
    <3> QED  BY <1>1, <2>1, <2>2, <3>4 DEF Me
  <2>3. CASE u # t /\ u # n
    <3>1. task'[u] = task[u] /\ task[u].of \in Tasks /\ proc'[task[u].of] = proc[task[u].of]
      BY <1>2, <2>1, <2>3
    <3> QED  BY <1>1, <2>3, <3>1, CleanAsBefore
  <2> QED  BY <2>2, <2>3
<1>8. ASSUME NEW n \in Tasks, Creates(t, n)
      PROVE  Me(u)'.buf = <<>>
  <2>1. u # t /\ u # n
    BY <1>8, ThreadsAreOpen
  <2>2. task'[u] = task[u] /\ proc' = proc
    BY <1>8, <2>1 DEF Creates
  <2> QED  BY <1>1, <2>1, <2>2, CleanAsBefore
<1> QED  BY <1>3, <1>4, <1>5, <1>6, <1>7, <1>8, Inners

(* What the lines are, before and after a step.                            *)
LEMMA LinesAre ==
  ASSUME NEW stage
  PROVE  /\ Screen \notin Tasks
         /\ DOMAIN Lines(stage) = Tasks \cup {Screen} /\ Lines(stage)[Screen] = out
         /\ \A q \in Tasks : Lines(stage)[q] = IF Shows(stage, q) THEN proc[q].buf ELSE <<>>
         /\ DOMAIN Lines(stage)' = Tasks \cup {Screen} /\ Lines(stage)'[Screen] = out'
         /\ \A q \in Tasks : Lines(stage)'[q] = IF Shows(stage, q)' THEN proc'[q].buf ELSE <<>>
<1>1. Screen \notin Tasks
  BY TasksAssumption DEF Screen
<1> QED  BY <1>1 DEF Lines

(* No thread is unborn again.                                              *)
LEMMA UsersStay ==
  ASSUME NEW t \in Tasks, Alive(t), Acts(t)
  PROVE  \A q \in Tasks : Born(q) => Born(q)'
<1> SUFFICES ASSUME NEW q \in Tasks, Born(q)
             PROVE  task'[q].st # "unborn"
  BY DEF Born
<1>1. CASE Inner(t)
  BY <1>1 DEF Inner, Alone, Born
<1>2. CASE Finishes(t)
  BY <1>2 DEF Finishes, Born
<1>3. CASE Begins(t)
  BY <1>3 DEF Begins, Alone, Born
<1>4. CASE \E n \in Tasks : Forks(t, n) \/ Creates(t, n)
  BY <1>4 DEF Forks, Creates, Copied, Born
<1> QED  BY <1>1, <1>2, <1>3, <1>4, Inners

(* The counts and the buffers after a step, and the counts only grow.      *)
LEMMA CountsGrow ==
  ASSUME NEW stage, LineInv(stage), NEW t \in Tasks, task[t].of \in Tasks, Outputs(t)
  PROVE  /\ \A q \in Tasks : proc'[q].n \in Nat /\ IsSeq(proc'[q].buf)
         /\ \A q \in Tasks : Born(q) => proc[q].n <= proc'[q].n
<1>1. \A q \in Tasks : proc[q].n \in Nat /\ IsSeq(proc[q].buf) /\ proc[q].n <= proc[q].n
  BY DEF LineInv
<1>2. CASE PrintsNothing
  BY <1>1, <1>2, EmptyIsSeq DEF PrintsNothing
<1>3. ASSUME OthersSame(t), proc'[task[t].of].n \in {Me(t).n, Me(t).n + 1}, IsSeq(proc'[task[t].of].buf)
      PROVE  /\ \A q \in Tasks : proc'[q].n \in Nat /\ IsSeq(proc'[q].buf)
             /\ \A q \in Tasks : Born(q) => proc[q].n <= proc'[q].n
  BY <1>1, <1>3 DEF OthersSame, SameOutput, Me
<1>4. CASE Buffers(t) \/ Prints(t) \/ Writes(t) \/ Flushes(t)
  <2>1. IsSeq(Append(Me(t).buf, Item(t))) /\ IsSeq(Me(t).buf)
    BY <1>1, OnTop DEF Me
  <2> QED  BY <1>3, <1>4, <2>1, EmptyIsSeq DEF Buffers, Prints, Writes, Flushes
<1>5. CASE \E n \in Tasks : Forks(t, n)
  <2>1. PICK n \in Tasks : Forks(t, n)
    BY <1>5
  <2>2. /\ ~Born(n) /\ proc'[n].n = 0 /\ proc'[n].buf = Me(t).buf
        /\ \A q \in Tasks : q # n => proc'[q] = proc[q]
    BY <2>1 DEF Forks
  <2> QED  BY <1>1, <2>2 DEF Me
<1> QED  BY <1>2, <1>4, <1>5 DEF Outputs

(* The invariant of the lines after a step.                                *)
LEMMA LinesNow ==
  ASSUME NEW stage, NEW m, m = Counts', NEW V, V = Users', NEW M, M = Lines(stage)',
         Single(M) /\ Counted(M, V, m)
  PROVE  Single(Lines(stage))' /\ Counted(Lines(stage), Users, Counts)'
BY DEF Single, Counted

(* A step that shows nothing more.                                         *)
LEMMA LinesLost ==
  ASSUME NEW stage, LineInv(stage), out' = out,
         \A q \in Tasks : /\ Born(q) => Born(q)' /\ proc[q].n <= proc'[q].n
                          /\ proc'[q].n \in Nat
                          /\ Shows(stage, q)' =>
                               (Shows(stage, q) /\ proc'[q].buf = proc[q].buf) \/ proc'[q].buf = <<>>
  PROVE  Single(Lines(stage))' /\ Counted(Lines(stage), Users, Counts)'
<1> DEFINE L == Lines(stage)
           M == Lines(stage)'
           V == Users'
           m == Counts'
<1>1. DOMAIN M = DOMAIN L /\ \A x \in DOMAIN L : M[x] \in {L[x], <<>>}
  BY LinesAre
<1>2. Single(L) /\ Counted(L, Users, Counts)
  BY DEF LineInv
<1>3. Users \subseteq V
  BY DEF Users
<1>4. \A u \in Users : Counts[u] \in Nat /\ m[u] \in Nat /\ Counts[u] <= m[u]
  BY DEF Users, Counts, LineInv
<1> HIDE DEF L, M, V, m
<1>5. Single(M) /\ Counted(M, V, m)
  BY <1>1, <1>2, <1>3, <1>4, LinesShrink
<1> QED  BY <1>5, LinesNow DEF M, V, m

(* One line behind others is Append.                                       *)
LEMMA OneMore == ASSUME NEW s, IsSeq(s), NEW e PROVE s \o <<e>> = Append(s, e)
<1> DEFINE S == {s[k] : k \in 1..Len(s)} \cup {e}
<1>1. s \in Seq(S) /\ e \in S
  BY DEF IsSeq
<1> HIDE DEF S
<1> QED  BY <1>1

(* The lines after a step of t that keeps silent who is.                   *)
LEMMA LinesStep ==
  ASSUME NEW stage, LineInv(stage), NEW t \in Tasks, Alive(t), task[t].of \in Tasks,
         Born(task[t].of), Outputs(t),
         Silent(stage, t) => Op(t) \notin {"exit", "pthread_exit", "flush"} /\ (Op(t) = "print" => ~tty),
         \A q \in Tasks : Born(q) => Born(q)',
         \A q \in Tasks : Shows(stage, q)' => Shows(stage, q) \/ proc'[q].buf = <<>>,
         \A n \in Tasks : Forks(t, n) => ~Shows(stage, n)' \/ proc'[n].buf = <<>>
  PROVE  Single(Lines(stage))' /\ Counted(Lines(stage), Users, Counts)'
<1>0. PICK o \in Tasks : o = task[t].of
  OBVIOUS
<1> DEFINE e == Item(t)
           L == Lines(stage)
           M == Lines(stage)'
           n == Counts
           m == Counts'
<1>1. /\ \A q \in Tasks : proc[q].n \in Nat /\ proc'[q].n \in Nat /\ IsSeq(proc[q].buf)
      /\ \A q \in Tasks : Born(q) => proc[q].n <= proc'[q].n
  BY CountsGrow DEF LineInv
<1>2. /\ Single(L) /\ Counted(L, Users, n)
      /\ \A u \in Users : n[u] \in Nat /\ m[u] \in Nat /\ n[u] <= m[u]
      /\ n[o] = Me(t).n /\ m[o] = proc'[o].n /\ o \in Users
  BY <1>0, <1>1 DEF LineInv, Users, Counts, Me
<1>3. e[3] = o /\ e[4] = n[o]
  BY <1>0, <1>2 DEF Item
<1>4. /\ o # Screen
      /\ DOMAIN L = Tasks \cup {Screen} /\ DOMAIN M = DOMAIN L
      /\ L[Screen] = out /\ M[Screen] = out'
      /\ \A q \in Tasks : /\ L[q] = IF Shows(stage, q) THEN proc[q].buf ELSE <<>>
                          /\ M[q] = IF Shows(stage, q)' THEN proc'[q].buf ELSE <<>>
  BY LinesAre
<1>5. ~Silent(stage, t) /\ Me(t).fd = "out" => Shows(stage, o)
  BY <1>0 DEF Shows, Me
<1>6. OthersSame(t) => \A x \in Tasks : x # o => M[x] \in {L[x], <<>>}
  BY <1>0, <1>4 DEF OthersSame, SameOutput
<1>7. ASSUME Single(M) /\ Counted(M, Users, m)
      PROVE  Single(Lines(stage))' /\ Counted(Lines(stage), Users, Counts)'
  <2>1. Users \subseteq Users'
    BY DEF Users
  <2>2. Counted(M, Users', m)
    BY <1>7, <2>1 DEF Counted
  <2> QED  BY <1>7, <2>2, LinesNow
<1>8. ASSUME out' = out, OthersSame(t) \/ PrintsNothing,
             proc'[o].buf \in {Me(t).buf, <<>>} \/ ~Shows(stage, o)'
      PROVE  Single(Lines(stage))' /\ Counted(Lines(stage), Users, Counts)'
  BY <1>0, <1>1, <1>8, LinesLost DEF OthersSame, SameOutput, PrintsNothing, Me
<1>9. CASE PrintsNothing
  BY <1>0, <1>8, <1>9 DEF PrintsNothing, Me
<1>10. CASE out' = out /\ \E k \in Tasks : Forks(t, k)
  <2>1. PICK k \in Tasks : Forks(t, k)
    BY <1>10
  <2>2. \A q \in Tasks : q # k => proc'[q] = proc[q]
    BY <2>1 DEF Forks
  <2>3. \A q \in Tasks : Shows(stage, q)' =>
          (Shows(stage, q) /\ proc'[q].buf = proc[q].buf) \/ proc'[q].buf = <<>>
    BY <2>1, <2>2
  <2>4. out' = out
    BY <1>10
  <2>5. \A q \in Tasks : Born(q) => Born(q)' /\ proc[q].n <= proc'[q].n
    BY <1>1
  <2>6. \A q \in Tasks : proc'[q].n \in Nat
    BY <1>1
  <2> QED  BY <2>3, <2>4, <2>5, <2>6, LinesLost
<1> HIDE DEF e, L, M, n, m
<1>11. CASE Buffers(t)
  <2>1. /\ OthersSame(t) /\ out' = out /\ proc'[o].n = Me(t).n + 1 /\ proc'[o].buf = Append(Me(t).buf, e)
    BY <1>0, <1>11 DEF Buffers, e
  <2>2. CASE ~Shows(stage, o)'
    BY <1>8, <2>1, <2>2
  <2>3. CASE Shows(stage, o)'
    <3>1. proc'[o].buf # <<>>
      <4>1. IsSeq(Me(t).buf)
        BY <1>0, <1>1 DEF Me
      <4>2. Len(Append(Me(t).buf, e)) = Len(Me(t).buf) + 1
        BY <4>1, OnTop
      <4>3. Len(Me(t).buf) \in Nat
        BY <4>1 DEF IsSeq
      <4> QED  BY <2>1, <4>2, <4>3, EmptyIsSeq
    <3>2. L[o] = Me(t).buf /\ M[o] = Append(L[o], e)
      <4>1. Shows(stage, o)
        BY <2>3, <3>1
      <4>2. L[o] = Me(t).buf
        BY <1>0, <1>4, <4>1 DEF Me
      <4>3. M[o] = Append(Me(t).buf, e)
        BY <1>4, <2>1, <2>3
      <4> QED  BY <4>2, <4>3
    <3>3. \A x \in DOMAIN L : x # o => M[x] \in {L[x], <<>>}
      BY <1>4, <1>6, <2>1
    <3>4. Single(M) /\ Counted(M, Users, m)
      <4>1. e[3] \in Users /\ e[4] = n[e[3]] /\ m[e[3]] = n[e[3]] + 1
        BY <1>2, <1>3, <2>1
      <4>2. o \in DOMAIN L /\ Screen \in DOMAIN L /\ DOMAIN M = DOMAIN L
        BY <1>4
      <4>3. Grown(L, M, Users, n, m, o, e)
        BY <1>2, <3>2, <3>3, <4>1, <4>2 DEF Grown
      <4> QED  BY <4>3, LinesGrow
    <3> QED  BY <1>7, <3>4
  <2> QED  BY <2>2, <2>3
<1>12. CASE Writes(t)
  <2>1. /\ OthersSame(t) /\ out' \in {out, out \o <<e>>, Append(out, e)}
        /\ proc'[o].n = Me(t).n + 1 /\ proc'[o].buf = Me(t).buf
    BY <1>0, <1>12 DEF Writes, e
  <2>2. CASE out' = out
    BY <1>8, <2>1, <2>2
  <2>3. CASE out' # out
    <3>1. IsSeq(L[Screen])
      BY <1>2, <1>4 DEF Counted
    <3>2. M[Screen] = Append(L[Screen], e)
      BY <1>4, <2>1, <2>3, <3>1, OneMore
    <3>3. \A x \in DOMAIN L : x # Screen => M[x] \in {L[x], <<>>}
      BY <1>0, <1>4, <1>6, <2>1 DEF Me
    <3>4. Single(M) /\ Counted(M, Users, m)
      <4>1. e[3] \in Users /\ e[4] = n[e[3]] /\ m[e[3]] = n[e[3]] + 1
        BY <1>2, <1>3, <2>1
      <4>2. o \in DOMAIN L /\ Screen \in DOMAIN L /\ DOMAIN M = DOMAIN L
        BY <1>4
      <4>3. Grown(L, M, Users, n, m, Screen, e)
        BY <1>2, <3>2, <3>3, <4>1, <4>2 DEF Grown
      <4> QED  BY <4>3, LinesGrow
    <3> QED  BY <1>7, <3>4
  <2> QED  BY <2>2, <2>3
<1>13. CASE Prints(t)
  <2>1. /\ OthersSame(t) /\ out' = IF Me(t).fd = "out" THEN out \o Append(Me(t).buf, e) ELSE out
        /\ proc'[o].n = Me(t).n + 1 /\ proc'[o].buf = <<>>
    BY <1>0, <1>13 DEF Prints, Sent, e
  <2>2. CASE Me(t).fd # "out"
    BY <1>8, <2>1, <2>2
  <2>3. CASE Me(t).fd = "out"
    <3>1. Shows(stage, o)
      BY <1>5, <1>13, <2>3 DEF Prints, Fills, Op
    <3> DEFINE K == [L EXCEPT ![o] = Append(L[o], e)]
    <3>2. /\ DOMAIN K = DOMAIN L /\ K[o] = Append(L[o], e) /\ L[o] = Me(t).buf
          /\ \A x \in DOMAIN L : x # o => K[x] = L[x]
      BY <1>0, <1>4, <3>1 DEF Me
    <3> HIDE DEF K
    <3>3. Single(K) /\ Counted(K, Users, m)
      <4>1. e[3] \in Users /\ e[4] = n[e[3]] /\ m[e[3]] = n[e[3]] + 1
        BY <1>2, <1>3, <2>1
      <4>2. o \in DOMAIN L /\ \A x \in DOMAIN L : x # o => K[x] \in {L[x], <<>>}
        BY <1>4, <3>2
      <4>3. Grown(L, K, Users, n, m, o, e)
        BY <1>2, <3>2, <4>1, <4>2 DEF Grown
      <4> QED  BY <4>3, LinesGrow
    <3>4. /\ M[Screen] = K[Screen] \o K[o] /\ M[o] = <<>>
          /\ \A x \in DOMAIN K : x # Screen => M[x] \in {K[x], <<>>}
      BY <1>4, <1>6, <2>1, <2>3, <3>2
    <3>5. Single(M) /\ Counted(M, Users, m)
      <4>1. \A u \in Users : m[u] \in Nat /\ m[u] \in Nat /\ m[u] <= m[u]
        BY <1>2
      <4>2. o \in DOMAIN K /\ Screen \in DOMAIN K /\ Screen # o /\ DOMAIN M = DOMAIN K
        BY <1>4, <3>2
      <4>3. Joining(K, M, Users, m, m, Screen, o)
        BY <3>3, <3>4, <4>1, <4>2 DEF Joining
      <4> QED  BY <4>3, LinesMove
    <3> QED  BY <1>7, <3>5
  <2> QED  BY <2>2, <2>3
<1>14. CASE Flushes(t)
  <2>1. /\ OthersSame(t) /\ out' = IF Me(t).fd = "out" THEN out \o Me(t).buf ELSE out
        /\ proc'[o].n = Me(t).n /\ proc'[o].buf = <<>>
    BY <1>0, <1>14 DEF Flushes, Sent
  <2>2. CASE Me(t).fd # "out"
    BY <1>8, <2>1, <2>2
  <2>3. CASE Me(t).fd = "out"
    <3>1. Shows(stage, o)
      BY <1>5, <1>14, <2>3, SMTT(20) DEF Flushes
    <3>2. /\ M[Screen] = L[Screen] \o L[o] /\ M[o] = <<>>
          /\ \A x \in DOMAIN L : x # Screen => M[x] \in {L[x], <<>>}
      BY <1>0, <1>4, <1>6, <2>1, <2>3, <3>1 DEF Me
    <3>3. Joining(L, M, Users, n, m, Screen, o)
      <4>1. {Screen, o} \subseteq DOMAIN L /\ Screen # o /\ DOMAIN M = DOMAIN L
        BY <1>2, <1>4
      <4> QED  BY <1>2, <3>2, <4>1 DEF Joining
    <3> QED  BY <1>7, <3>3, LinesMove
  <2> QED  BY <2>2, <2>3
<1> QED  BY <1>9, <1>10, <1>11, <1>12, <1>13, <1>14 DEF Outputs

(* A step that moves no thread.                                            *)
LEMMA LineIdles ==
  ASSUME NEW stage, ControlInv, LineInv(stage), tty' = tty, Idles, PrintsNothing
  PROVE  LineInv(stage)'
<1>1. /\ out' = out /\ task' = task
      /\ \A q \in Tasks : /\ proc'[q].prog = proc[q].prog /\ proc'[q].n = proc[q].n
                          /\ proc'[q].buf \in {proc[q].buf, <<>>} /\ proc'[q].fd \in {proc[q].fd, "null"}
  BY DEF Idles, Alike, PrintsNothing
<1>2. \A q \in Tasks : proc'[q].n \in Nat /\ IsSeq(proc'[q].buf)
  BY <1>1, EmptyIsSeq DEF LineInv
<1>3. ASSUME NEW u \in Tasks, Alive(u)', Kind(stage, Me(u).prog, task[u].pc)' = "clean"
      PROVE  Me(u)'.buf = <<>>
  <2>1. Alive(u)
    BY <1>1, <1>3 DEF Alive
  <2>2. task[u].of \in Tasks /\ Me(u)' = proc'[task[u].of]
    BY <1>1, <2>1, WhereItIs DEF Me
  <2>3. Kind(stage, Me(u).prog, task[u].pc) = "clean"
    BY <1>1, <1>3, <2>2, Zenon DEF Kind, Me
  <2>4. Me(u).buf = <<>>
    BY <2>1, <2>3 DEF LineInv
  <2> QED  BY <1>1, <2>2, <2>4 DEF Me
<1>4. ASSUME NEW q \in Tasks, Shows(stage, q)'
      PROVE  Shows(stage, q)
  <2>1. PICK u \in Tasks : Alive(u)' /\ task'[u].of = q /\ ~Silent(stage, u)'
    BY <1>4 DEF Shows
  <2>2. proc'[q].fd = "out"
    BY <1>4 DEF Shows
  <2> QED  BY <1>1, <2>1, <2>2, ShowsAsBefore
<1>5. \A q \in Tasks : Born(q) => Born(q)' /\ proc[q].n <= proc'[q].n
  BY <1>1 DEF Born, LineInv
<1>6. Single(Lines(stage))' /\ Counted(Lines(stage), Users, Counts)'
  BY <1>1, <1>2, <1>4, <1>5, LinesLost
<1> QED  BY <1>2, <1>3, <1>6 DEF LineInv

(* Every step keeps the lines apart ...                                    *)
LEMMA LineNext ==
  ASSUME NEW stage, Rules, Stages(stage), ControlInv, StageInv(stage), LineInv(stage), [Next]_vars
  PROVE  LineInv(stage)'
<1>1. ControlInv' /\ StageInv(stage)'
  BY ControlNext, StageNext
<1>2. CASE UNCHANGED vars
  <2>1. task' = task /\ proc' = proc /\ out' = out /\ tty' = tty
    BY <1>2 DEF vars
  <2>2. Idles /\ PrintsNothing
    BY <2>1 DEF ControlInv, Shape, Alike, Idles, PrintsNothing
  <2> QED  BY <2>1, <2>2, LineIdles
<1>3. CASE Next
  <2>1. tty' = tty
    BY <1>3, NextOutputs
  <2>2. CASE Idles /\ PrintsNothing
    BY <2>1, <2>2, LineIdles
  <2>3. ASSUME NEW t \in Tasks, Alive(t), Acts(t), Outputs(t),
               Heeds(t) \/ Finishes(t) \/ \E s \in Sigs : Interrupts(t, s)
        PROVE  LineInv(stage)'
    <3>1. task[t].of \in Tasks /\ Born(task[t].of)
      BY <2>3, WhereItIs DEF ControlInv, Belongs, Alive, Born
    <3>2. \A q \in Tasks : proc'[q].n \in Nat /\ IsSeq(proc'[q].buf)
      BY <2>3, <3>1, CountsGrow
    <3>3. \A u \in Tasks : Alive(u)' /\ Kind(stage, Me(u).prog, task[u].pc)' = "clean" => Me(u)'.buf = <<>>
      BY <1>1, <2>1, <2>3, CleanKept
    <3>4. Silent(stage, t) => Op(t) \notin {"exit", "pthread_exit", "flush"} /\ (Op(t) = "print" => ~tty)
      BY <2>3, StageSays DEF Silent
    <3>5. \A q \in Tasks : Born(q) => Born(q)'
      BY <2>3, UsersStay
    <3>6. \A q \in Tasks : Shows(stage, q)' => Shows(stage, q) \/ proc'[q].buf = <<>>
      BY <1>1, <2>1, <2>3, ShowsKept
    <3>7. ASSUME NEW n \in Tasks, Forks(t, n)
          PROVE  ~Shows(stage, n)' \/ proc'[n].buf = <<>>
      <4>1. /\ task'[t].of # n
            /\ proc'[n].buf = <<>> \/ Silent(stage, n)'
            /\ \A u \in Tasks : Alive(u)' /\ u # t /\ u # n => task'[u].of # n
        BY <2>1, <2>3, <3>7, ForkPlaces DEF Forks
      <4> QED  BY <4>1 DEF Shows
    <3>8. Single(Lines(stage))' /\ Counted(Lines(stage), Users, Counts)'
      BY <2>3, <3>1, <3>4, <3>5, <3>6, <3>7, LinesStep
    <3> QED  BY <3>2, <3>3, <3>8 DEF LineInv
  <2> QED  BY <1>3, <2>2, <2>3, NextOutputs
<1> QED  BY <1>2, <1>3

(* ... and at the start there are none.                                    *)
LEMMA LineInit ==
  ASSUME NEW stage, Init
  PROVE  LineInv(stage)
<1>1. out = <<>> /\ \A q \in Tasks : proc[q].n = 0 /\ proc[q].buf = <<>>
  BY AtStart DEF Init
<1>2. \A x \in DOMAIN Lines(stage) : Lines(stage)[x] = <<>>
  BY <1>1, LinesAre
<1>3. Single(Lines(stage)) /\ Counted(Lines(stage), Users, Counts)
  BY <1>2, EmptyIsSeq DEF Single, Counted
<1>4. \A t \in Tasks : Alive(t) => Me(t).buf = <<>>
  <2>1. \A t \in Tasks : Alive(t) => task[t].of \in Tasks
    BY AtStart DEF Alive, Born, Beginning
  <2> QED  BY <1>1, <2>1 DEF Me
<1> QED  BY <1>1, <1>3, <1>4, EmptyIsSeq DEF LineInv

(* No line of a program is shown twice: what is in the buffer of stdout    *)
(* when a process forks is shown by one of the two, unless stdout is a     *)
(* file and the program is ssu_fork_1 or ssu_wait_1.                       *)
THEOREM LinesAreShownOnce ==
  ASSUME Rules, NEW stage, Stages(stage)
  PROVE  Spec => []ShownOnce
<1> DEFINE Inv == ControlInv /\ (main \in Covered(tty) => StageInv(stage) /\ LineInv(stage))
<1>1. Init => Inv
  BY ControlInit, StageInit, LineInit
<1>2. Inv /\ [Next]_vars => Inv'
  <2> SUFFICES ASSUME Inv, [Next]_vars PROVE Inv'
    OBVIOUS
  <2>1. ControlInv'
    BY ControlNext
  <2>2. main' = main /\ tty' = tty
    BY MainStays, NextOutputs DEF vars
  <2>3. (main \in Covered(tty))' => main \in Covered(tty)
    BY <2>2 DEF Covered
  <2>4. main \in Covered(tty) => StageInv(stage)' /\ LineInv(stage)'
    BY StageNext, LineNext
  <2> QED  BY <2>1, <2>3, <2>4
<1>3. Inv => ShownOnce
  <2> SUFFICES ASSUME Inv, tty \/ main \notin {"ssu_fork_1", "ssu_wait_1"}
               PROVE  \A j, k \in DOMAIN out : out[j][3] = out[k][3] /\ out[j][4] = out[k][4] => j = k
    BY DEF ShownOnce
  <2>1. main \in Covered(tty)
    BY DEF ControlInv, Covered
  <2>2. Single(Lines(stage)) /\ Screen \in DOMAIN Lines(stage) /\ Lines(stage)[Screen] = out
    BY <2>1, LinesAre DEF LineInv
  <2> QED  BY <2>2 DEF Single
<1> QED  BY <1>1, <1>2, <1>3, PTL DEF Spec

(* All three for the programs of src/LSP: RulesKept is what Unix_rules.cfg *)
(* has TLC evaluate for their code, labels and staging.  No bound of a     *)
(* run, on tasks, keys or ticks, is in it.                                 *)
THEOREM ProgramsKeepMasksPlacesAndLines ==
  ASSUME RulesKept
  PROVE  Spec => [](MaskRestored /\ JumpsLand /\ ShownOnce)
<1>1. Rules /\ Keeps(KeptFrom, CanJump) /\ Stages(Staging)
  BY DEF RulesKept
<1>2. Spec => []MaskRestored
  BY <1>1, MasksAreGivenBack
<1>3. Spec => []JumpsLand
  BY <1>1, PlacesAreKept
<1>4. Spec => []ShownOnce
  BY <1>1, LinesAreShownOnce
<1> QED  BY <1>2, <1>3, <1>4, PTL
=============================================================================
