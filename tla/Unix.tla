-------------------------------- MODULE Unix --------------------------------
(***************************************************************************)
(* The part of Unix and of the C library that the example programs of      *)
(* src/LSP (chapters 5 to 8) run on: processes and threads, signals with   *)
(* their handlers and masks, non-local jumps, the alarm clock, sleeping,   *)
(* fork, exec and wait, and the buffer behind stdout.  None of it is code  *)
(* of this repository; it is modelled from how those programs use it.  The *)
(* programs are in LspSignals and LspProcesses: each is a record of blocks *)
(* (main, the handlers, the start routines of threads), a block is a       *)
(* sequence of calls, and one step of a task is one call.                  *)
(*                                                                         *)
(* Time is not measured: an alarm may ring at any moment after it was set, *)
(* a sleep may end at any moment, and the user types whenever he likes.    *)
(***************************************************************************)
EXTENDS Integers, Sequences, FiniteSets, SequencesExt

CONSTANTS Code,      \* program -> (block -> the sequence of its calls)
          Start,     \* the programs the user starts
          Outside,   \* program -> the signals that reach it from outside
          Endless,   \* the programs that never end by themselves
          Tasks,     \* threads and processes, numbered from 1
          Few,       \* bound: those used when the files to execute are missing
          MaxKeys,   \* bound: signals from outside
          MaxTicks   \* bound: sleeps and alarms of an endless program

(* The bounds are sets of numbers; Few are tasks.                          *)
ASSUME TasksAssumption == Tasks \subseteq Nat /\ Few \subseteq Tasks

VARIABLES main,      \* the program that was started
          tty,       \* stdout is a terminal: flushed at each end of line
          present,   \* the files given to exec exist
          task,      \* the threads; task 1 is the first of process 1
          proc,      \* the processes, numbered as their first thread
          out,       \* what stdout and stderr received, in order
          keys, ticks

world == <<main, tty, present>>
vars == <<main, tty, present, task, proc, out, keys, ticks>>

Sigs == {"INT", "QUIT", "USR1", "ALRM", "HUP", "TERM", "KILL", "TSTP", "ABRT", "FPE"}
Maskable == Sigs \ {"KILL"}
Number == [HUP |-> 1, INT |-> 2, QUIT |-> 3, ABRT |-> 6, FPE |-> 8, KILL |-> 9,
           USR1 |-> 10, ALRM |-> 14, TERM |-> 15, TSTP |-> 20]
Vars == {"i", "x", "y", "z", "func", "status", "pid", "s1", "s2", "s3"}

(* A pointer to a handler that was never set is null, which is SIG_DFL.    *)
Default == [h |-> "DFL", mask |-> {}, flags |-> {}]
NoJump == [set |-> FALSE]

Program(prog, parent, st) ==
  [prog |-> prog, parent |-> parent, st |-> st, status |-> 0, stopped |-> FALSE,
   mem |-> [v \in Vars |-> IF v = "func" THEN "DFL" ELSE 0], buf |-> <<>>, fd |-> "out", n |-> 0,
   act |-> [s \in Sigs |-> Default], pend |-> {}, clock |-> FALSE,
   jmp |-> [b \in {1, 2} |-> NoJump], exits |-> <<>>, sid |-> 1]

(* mask is the signal mask in force, own the one the program asked for     *)
(* with sigprocmask; frames are the contexts its handlers interrupted; arg *)
(* is the variable a start routine got a pointer to.                       *)
Thread(p, block, arg) ==
  [st |-> "run", of |-> p, pc |-> <<block, 1>>, r |-> 0, arg |-> arg, mask |-> {},
   own |-> {}, frames |-> <<>>]
Unborn == [Thread(0, "main", "") EXCEPT !.st = "unborn"]

Executes(p) == \E b \in DOMAIN Code[p] : \E k \in DOMAIN Code[p][b] : Code[p][b][k][1] = "exec"

Init ==
  /\ main \in Start /\ tty \in BOOLEAN
  /\ present \in IF Executes(main) THEN BOOLEAN ELSE {TRUE}
  /\ task = [t \in Tasks |-> IF t = 1 THEN Thread(1, "main", "") ELSE Unborn]
  /\ proc = [t \in Tasks |-> IF t = 1 THEN Program(main, 0, "live")
                                      ELSE Program("", 0, "unborn")]
  /\ out = <<>> /\ keys = 0 /\ ticks = 0

Me(t) == proc[task[t].of]
Ins(t) == Code[Me(t).prog][task[t].pc[1]][task[t].pc[2]]
Op(t) == Ins(t)[1]
Arg(t) == Ins(t)[2]
Alive(t) == task[t].st \notin {"unborn", "gone"}
Deliverable(t) == Me(t).pend \ task[t].mask
Handling(t) == \E k \in DOMAIN task[t].frames : task[t].frames[k].sig # ""

(* A signal is delivered before the interrupted code goes on: the next     *)
(* call is made only when nothing is left to deliver.                      *)
Runs(t) == task[t].st = "run" /\ ~Me(t).stopped /\ Deliverable(t) = {}

On(t) == [task[t] EXCEPT !.pc[2] = @ + 1]
Returns(t, r) == [On(t) EXCEPT !.r = r]
Jump(t, block) == [task[t] EXCEPT !.pc = <<block, 1>>]

Goes(t, tk) == task' = [task EXCEPT ![t] = tk]
Holds(t, p) == proc' = [proc EXCEPT ![task[t].of] = p]
Quiet == UNCHANGED <<out, keys, ticks>>

Value(t, v) == CASE v = "" -> 0
                 [] v = "r" -> task[t].r
                 [] v = "mask" -> task[t].mask
                 [] v = "self" -> t
                 [] v = "sid" -> Me(t).sid
                 [] v = "*arg" -> Me(t).mem[task[t].arg]
                 [] OTHER -> Me(t).mem[v]

(* What is written carries who wrote it and when, so that a line that is   *)
(* shown twice can be told from two equal lines.                           *)
Item(t) == <<Arg(t), Value(t, Ins(t)[3]), task[t].of, Me(t).n>>
Sent(p, items) == IF p.fd = "out" THEN out \o items ELSE out

(***************************************************************************)
(* Output: printf with and without an end of line, write and stderr, the   *)
(* system log, and the flush that getchar and fflush do.                   *)
(***************************************************************************)
Printf(t) ==
  /\ Op(t) \in {"print", "part"}
  /\ LET p == Me(t)
         b == Append(p.buf, Item(t))
         flush == tty /\ Op(t) = "print"
     IN /\ out' = IF flush THEN Sent(p, b) ELSE out
        /\ Holds(t, [p EXCEPT !.buf = IF flush THEN <<>> ELSE b, !.n = @ + 1])
  /\ Goes(t, On(t)) /\ UNCHANGED <<keys, ticks>>

DoWrite(t) ==
  /\ \/ Op(t) = "write" /\ out' = Sent(Me(t), <<Item(t)>>)
     \/ Op(t) = "syslog" /\ out' = Append(out, Item(t))
  /\ Holds(t, [Me(t) EXCEPT !.n = @ + 1])
  /\ Goes(t, On(t)) /\ UNCHANGED <<keys, ticks>>

DoFlush(t) ==
  /\ Op(t) = "flush"
  /\ IF tty \/ Arg(t) = "always"
     THEN out' = Sent(Me(t), Me(t).buf) /\ Holds(t, [Me(t) EXCEPT !.buf = <<>>])
     ELSE UNCHANGED <<out, proc>>
  /\ Goes(t, On(t)) /\ UNCHANGED <<keys, ticks>>

(***************************************************************************)
(* Variables and control.                                                  *)
(***************************************************************************)
DoStore(t) ==
  /\ Op(t) \in {"set", "add", "save"}
  /\ Holds(t, [Me(t) EXCEPT !.mem[Arg(t)] =
                 CASE Op(t) = "set" -> Ins(t)[3]
                   [] Op(t) = "add" -> @ + Ins(t)[3]
                   [] OTHER -> Value(t, Ins(t)[3])])
  /\ Goes(t, On(t)) /\ Quiet

(* A variable on the stack of a function that ended keeps its value or     *)
(* gets another.                                                           *)
DoOverwritten(t) ==
  /\ Op(t) = "garble"
  /\ \E v \in {Me(t).mem[Arg(t)], -1} : Holds(t, [Me(t) EXCEPT !.mem[Arg(t)] = v])
  /\ Goes(t, On(t)) /\ Quiet

DoBranch(t) ==
  /\ \/ Op(t) = "goto" /\ Goes(t, Jump(t, Arg(t)))
     \/ Op(t) = "if" /\ Goes(t, IF Value(t, Arg(t)) = Ins(t)[3]
                                THEN Jump(t, Ins(t)[4]) ELSE On(t))
     \/ Op(t) = "ifsig" /\ Goes(t, IF Last(task[t].frames).sig = Arg(t)
                                   THEN Jump(t, Ins(t)[3]) ELSE On(t))
     \/ Op(t) = "same" /\ Goes(t, IF task[t].r = Me(t).mem[Arg(t)]
                                  THEN Jump(t, Ins(t)[3]) ELSE On(t))
     \/ Op(t) = "load" /\ Goes(t, Returns(t, Value(t, Arg(t))))
  /\ UNCHANGED proc /\ Quiet

(* The end of a handler, or of a function registered with atexit: the      *)
(* interrupted context comes back, its mask with it.                       *)
DoReturn(t) ==
  /\ Op(t) = "return"
  /\ LET f == Last(task[t].frames)
     IN Goes(t, [task[t] EXCEPT !.pc = f.pc, !.mask = f.mask, !.r = f.r,
                                !.frames = Front(@)])
  /\ UNCHANGED proc /\ Quiet

(* setjmp keeps the place, sigsetjmp with a second argument that is not 0  *)
(* also the mask.  After longjmp a variable in a register may have either  *)
(* its value at setjmp or its last one; z stands for a volatile one.       *)
DoSetjmp(t) ==
  /\ Op(t) = "setjmp"
  /\ Holds(t, [Me(t) EXCEPT !.jmp[Arg(t)] =
       [set |-> TRUE, pc |-> On(t).pc, saved |-> Ins(t)[3], mask |-> task[t].mask,
        mem |-> Me(t).mem]])
  /\ Goes(t, Returns(t, 0)) /\ Quiet

DoLongjmp(t) ==
  /\ Op(t) = "longjmp"
  /\ LET j == Me(t).jmp[Arg(t)]
     IN /\ j.set
        /\ Goes(t, [task[t] EXCEPT !.pc = j.pc, !.r = Ins(t)[3], !.frames = <<>>,
                                   !.mask = IF j.saved THEN j.mask ELSE @])
        /\ \E v, w \in {Me(t).mem, j.mem} :
             Holds(t, [Me(t) EXCEPT !.mem["x"] = v["x"], !.mem["y"] = w["y"]])
  /\ Quiet
-----------------------------------------------------------------------------
(***************************************************************************)
(* Signals.                                                                *)
(***************************************************************************)
(* signal() of the C library: the handler stays installed, its signal is   *)
(* blocked while it runs, and a read it interrupts starts again.  It       *)
(* returns the action it replaces.                                         *)
DoSignal(t) ==
  /\ \/ /\ Op(t) = "signal"
        /\ Holds(t, [Me(t) EXCEPT !.act[Arg(t)] =
                       [h |-> Ins(t)[3], mask |-> {}, flags |-> {"RESTART"}]])
        /\ Goes(t, Returns(t, Me(t).act[Arg(t)].h))
     \/ /\ Op(t) = "resignal"
        /\ Holds(t, [Me(t) EXCEPT !.act[Arg(t)] =
                       [h |-> Me(t).mem[Ins(t)[3]], mask |-> {}, flags |-> {"RESTART"}]])
        /\ Goes(t, On(t))
     \/ /\ Op(t) = "sigaction"
        /\ \E m \in Ins(t)[4], f \in Ins(t)[5] :
             Holds(t, [Me(t) EXCEPT !.act[Arg(t)] = [h |-> Ins(t)[3], mask |-> m, flags |-> f]])
        /\ Goes(t, On(t))
  /\ Quiet

DoSigmask(t) ==
  /\ Op(t) \in {"block", "unblock", "setmask"}
  /\ LET m == CASE Op(t) = "block" -> task[t].mask \cup Arg(t)
                [] Op(t) = "unblock" -> task[t].mask \ Arg(t)
                [] OTHER -> Arg(t)
     IN Goes(t, [On(t) EXCEPT !.mask = m, !.own = m])
  /\ UNCHANGED proc /\ Quiet

DoSigpending(t) ==
  /\ Op(t) = "pending"
  /\ Goes(t, Returns(t, IF Arg(t) \in Me(t).pend THEN 1 ELSE 0))
  /\ UNCHANGED proc /\ Quiet

(* kill of the process itself, and of the process whose number is in pid;  *)
(* abort also unblocks its signal.                                         *)
DoKill(t) ==
  /\ \/ /\ Op(t) = "kill"
        /\ Holds(t, [Me(t) EXCEPT !.pend = @ \cup {Arg(t)}])
        /\ Goes(t, On(t))
     \/ /\ Op(t) = "abort"
        /\ Holds(t, [Me(t) EXCEPT !.pend = @ \cup {"ABRT"}])
        /\ Goes(t, [On(t) EXCEPT !.mask = @ \ {"ABRT"}])
     \/ /\ Op(t) = "killpid"
        /\ LET q == Me(t).mem["pid"]
           IN proc' = [proc EXCEPT ![q].pend = IF proc[q].st = "live" THEN @ \cup {Arg(t)} ELSE @]
        /\ Goes(t, On(t))
  /\ Quiet

(* An integer divided by zero stops the program with SIGFPE on one machine *)
(* and goes on with any value on another.                                  *)
DoDivideByZero(t) ==
  /\ Op(t) = "divzero"
  /\ \E s \in {{}, {"FPE"}} : Holds(t, [Me(t) EXCEPT !.pend = @ \cup s])
  /\ Goes(t, On(t)) /\ Quiet

DoAlarm(t) ==
  /\ Op(t) = "alarm"
  /\ Holds(t, [Me(t) EXCEPT !.clock = Arg(t)])
  /\ Goes(t, On(t)) /\ Quiet

(* A loop that looks at the clock until a moment after the alarm.          *)
DoBusyWait(t) ==
  /\ Op(t) = "outlast" /\ ~Me(t).clock
  /\ Goes(t, On(t)) /\ UNCHANGED proc /\ Quiet

(* Calls that wait.  sigsuspend puts its mask in force in the same step.   *)
(* A read by a process that lost its terminal fails.                       *)
Lost(t) == task[t].of # 1 /\ proc[1].st # "live"
DoSleep(t) ==
  /\ \/ /\ Op(t) \in {"pause", "sleep"}
        /\ Goes(t, [task[t] EXCEPT !.st = Op(t)])
     \/ /\ Op(t) = "sigsuspend"
        /\ Goes(t, [task[t] EXCEPT !.st = "suspend", !.mask = Arg(t)])
     \/ /\ Op(t) = "read"
        /\ Goes(t, IF Lost(t) THEN Returns(t, -1) ELSE [task[t] EXCEPT !.st = "read"])
  /\ UNCHANGED proc /\ Quiet

(* The bound on time never keeps a program from a signal it has to answer. *)
Timed == main \in Endless => ticks < MaxTicks \/ \E p \in Tasks : proc[p].pend # {}
Tick == ticks' = IF main \in Endless THEN ticks + 1 ELSE ticks

Wake(t) ==
  /\ task[t].st = "sleep" /\ ~Me(t).stopped /\ Deliverable(t) = {} /\ Timed
  /\ Goes(t, [Returns(t, 0) EXCEPT !.st = "run"])
  /\ Tick /\ UNCHANGED <<main, tty, present, proc, out, keys>>

(* The user answers: 1 stands for y or Y.                                  *)
Input(t) ==
  /\ task[t].st = "read" /\ ~Me(t).stopped /\ Deliverable(t) = {}
  /\ \E answer \in {0, 1} : Goes(t, [Returns(t, answer) EXCEPT !.st = "run"])
  /\ UNCHANGED <<world, proc, out, keys, ticks>>

Ring(p) ==
  /\ proc[p].st = "live" /\ proc[p].clock /\ Timed
  /\ proc' = [proc EXCEPT ![p].clock = FALSE, ![p].pend = @ \cup {"ALRM"}]
  /\ Tick /\ UNCHANGED <<main, tty, present, task, out, keys>>

Key(s) ==
  /\ keys < MaxKeys /\ s \in Outside[main] /\ proc[1].st = "live"
  /\ proc' = [proc EXCEPT ![1].pend = @ \cup {s}]
  /\ keys' = keys + 1 /\ UNCHANGED <<world, task, out, ticks>>
-----------------------------------------------------------------------------
(***************************************************************************)
(* The end of a process: its threads are gone, its children belong to      *)
(* nobody, its parent can collect the status.  When the first process ends *)
(* its group is an orphan, and a stopped member gets SIGHUP and goes on.   *)
(***************************************************************************)
Dies(p, status) ==
  /\ task' = [t \in Tasks |-> IF task[t].of = p THEN [task[t] EXCEPT !.st = "gone"] ELSE task[t]]
  /\ proc' = [q \in Tasks |->
       CASE q = p -> [proc[p] EXCEPT !.status = status, !.pend = {}, !.clock = FALSE, !.buf = <<>>,
                        !.st = IF @ = "live" /\ proc[p].parent # 0 THEN "zombie" ELSE "gone"]
         [] q # p /\ proc[q].parent = p /\ proc[q].st # "unborn" ->
              [proc[q] EXCEPT !.parent = 0, !.st = IF @ = "zombie" THEN "gone" ELSE @,
                 !.pend = IF proc[q].stopped /\ p = 1 /\ proc[q].sid = 1 THEN @ \cup {"HUP"} ELSE @,
                 !.stopped = @ /\ p # 1]
         [] OTHER -> proc[q]]

(* What a handler interrupts: a call that waits returns when the handler   *)
(* does, sigsuspend with the mask the program had before it; only a read   *)
(* starts again, if the handler was installed so.                          *)
Context(t, flags) ==
  LET tk == task[t]
      again == tk.st = "run" \/ (tk.st = "read" /\ "RESTART" \in flags)
  IN [pc |-> IF again THEN tk.pc ELSE On(t).pc,
      r |-> IF again THEN tk.r ELSE IF tk.st = "sleep" THEN 1 ELSE -1,
      mask |-> IF tk.st = "suspend" THEN tk.own ELSE tk.mask]

Deliver(t, s) ==
  /\ Alive(t) /\ s \in Deliverable(t) /\ (Me(t).stopped => s = "KILL")
  /\ LET p == Me(t)
         a == p.act[s]
         rest == [p EXCEPT !.pend = @ \ {s}]
     IN \/ a.h = "IGN" /\ Holds(t, rest) /\ UNCHANGED task
        \/ a.h = "DFL" /\ s # "TSTP" /\ Dies(task[t].of, Number[s])
        \/ /\ a.h = "DFL" /\ s = "TSTP"
           /\ Holds(t, [rest EXCEPT !.stopped = ~Lost(t)]) /\ UNCHANGED task
        \/ /\ a.h \in DOMAIN Code[p.prog]
           /\ Holds(t, [rest EXCEPT !.act[s] = IF "RESETHAND" \in a.flags THEN Default ELSE @])
           /\ LET c == Context(t, a.flags)
              IN Goes(t, [task[t] EXCEPT
                   !.st = "run", !.pc = <<a.h, 1>>,
                   !.mask = @ \cup a.mask \cup
                              (IF "NODEFER" \in a.flags THEN {} ELSE {s}),
                   !.frames = Append(@, [sig |-> s, pc |-> c.pc, r |-> c.r, mask |-> c.mask])])
  /\ UNCHANGED <<world, out, keys, ticks>>
-----------------------------------------------------------------------------
(***************************************************************************)
(* Processes and threads.                                                  *)
(***************************************************************************)
Free == {t \in IF present THEN Tasks ELSE Few : task[t].st = "unborn"}
New == CHOOSE t \in Free : \A u \in Free : t <= u

(* The child is a copy, with what is still in the buffer of stdout.        *)
DoFork(t) ==
  /\ Op(t) = "fork"
  /\ \/ Goes(t, Returns(t, -1)) /\ UNCHANGED proc
     \/ /\ Free # {}
        /\ task' = [task EXCEPT ![t] = Returns(t, New),
                                ![New] = [Returns(t, 0) EXCEPT !.of = New]]
        /\ proc' = [proc EXCEPT ![New] = [Me(t) EXCEPT !.parent = task[t].of, !.n = 0,
                                                       !.pend = {}, !.clock = FALSE]]
  /\ Quiet

DoExec(t) ==
  /\ Op(t) = "exec"
  /\ IF present
     THEN /\ Holds(t, [Program(Arg(t), Me(t).parent, "live") EXCEPT !.n = Me(t).n,
                         !.mem["pid"] = Me(t).mem["pid"], !.fd = Me(t).fd, !.sid = Me(t).sid])
          /\ Goes(t, [Thread(task[t].of, "main", "") EXCEPT !.mask = task[t].mask, !.own = task[t].own])
     ELSE Goes(t, Returns(t, -1)) /\ UNCHANGED proc
  /\ Quiet

(* pthread_create gives the new thread a pointer, and its number to the    *)
(* creator.                                                                *)
DoCreate(t) ==
  /\ Op(t) = "thread"
  /\ \/ Goes(t, Returns(t, -1))
     \/ /\ Free # {}
        /\ task' = [task EXCEPT ![t] = Returns(t, New), ![New] = Thread(task[t].of, Arg(t), Ins(t)[3])]
  /\ UNCHANGED proc /\ Quiet

DoJoin(t) ==
  /\ Op(t) = "join" /\ task[Me(t).mem[Arg(t)]].st = "gone"
  /\ Goes(t, On(t)) /\ UNCHANGED proc /\ Quiet

Children(p) == {q \in Tasks : proc[q].parent = p /\ proc[q].st \in {"live", "zombie"}}

DoWait(t) ==
  /\ Op(t) = "wait"
  /\ \/ /\ Children(task[t].of) = {}
        /\ Goes(t, Returns(t, -1)) /\ UNCHANGED proc
     \/ \E q \in Children(task[t].of) :
          /\ proc[q].st = "zombie"
          /\ proc' = [proc EXCEPT ![q].st = "gone",
                                  ![task[t].of].mem["status"] = proc[q].status]
          /\ Goes(t, Returns(t, q))
  /\ Quiet

DoAtexit(t) ==
  /\ Op(t) = "atexit"
  /\ Holds(t, [Me(t) EXCEPT !.exits = Append(@, Arg(t))])
  /\ Goes(t, On(t)) /\ Quiet

(* setsid makes a session of the process, out of the group it came from;   *)
(* detach is the loop that closes every descriptor before /dev/null is     *)
(* opened as 0, 1 and 2.                                                   *)
DoDetach(t) ==
  /\ \/ Op(t) = "setsid" /\ Holds(t, [Me(t) EXCEPT !.sid = task[t].of])
     \/ Op(t) = "detach" /\ Holds(t, [Me(t) EXCEPT !.fd = "null"])
  /\ Goes(t, On(t)) /\ Quiet

(* exit calls what atexit registered, the last first, and flushes stdout;  *)
(* _exit does neither.  The last thread that ends also ends the process.   *)
Others(t) == {u \in Tasks \ {t} : Alive(u) /\ task[u].of = task[t].of}
DoExit(t) ==
  /\ \/ /\ Op(t) = "exit" /\ Me(t).exits # <<>>
        /\ Holds(t, [Me(t) EXCEPT !.exits = Front(@)])
        /\ Goes(t, [task[t] EXCEPT !.pc = <<Last(Me(t).exits), 1>>,
             !.frames = Append(@, [sig |-> "", pc |-> task[t].pc, r |-> 0, mask |-> task[t].mask])])
        /\ UNCHANGED out
     \/ /\ \/ Op(t) = "exit" /\ Me(t).exits = <<>>
           \/ Op(t) = "pthread_exit" /\ Others(t) = {}
        /\ out' = Sent(Me(t), Me(t).buf)
        /\ Dies(task[t].of, 256 * Arg(t))
     \/ /\ Op(t) = "_exit"
        /\ Dies(task[t].of, 256 * Arg(t)) /\ UNCHANGED out
     \/ /\ Op(t) = "pthread_exit" /\ Others(t) # {}
        /\ Goes(t, [task[t] EXCEPT !.st = "gone"]) /\ UNCHANGED <<proc, out>>
  /\ UNCHANGED <<keys, ticks>>
-----------------------------------------------------------------------------
Step(t) ==
  /\ Runs(t)
  /\ \/ Printf(t) \/ DoWrite(t) \/ DoFlush(t)
     \/ DoStore(t) \/ DoOverwritten(t) \/ DoBranch(t) \/ DoReturn(t) \/ DoSetjmp(t) \/ DoLongjmp(t)
     \/ DoSignal(t) \/ DoSigmask(t) \/ DoSigpending(t) \/ DoKill(t) \/ DoDivideByZero(t)
     \/ DoAlarm(t) \/ DoBusyWait(t) \/ DoSleep(t)
     \/ DoFork(t) \/ DoExec(t) \/ DoCreate(t) \/ DoJoin(t) \/ DoWait(t)
     \/ DoAtexit(t) \/ DoDetach(t) \/ DoExit(t)
  /\ UNCHANGED world

Progress(t) == Step(t) \/ Wake(t) \/ \E s \in Sigs : Deliver(t, s)
Next == \/ \E t \in Tasks : Progress(t) \/ Ring(t) \/ Input(t)
        \/ \E s \in Sigs : Key(s)

(* The kernel runs each task, delivers what is pending and lets the time   *)
(* pass; nothing obliges the user to type.                                 *)
Spec == Init /\ [][Next]_vars
             /\ \A t \in Tasks : WF_vars(Progress(t) \/ Ring(t))

Finished == \A t \in Tasks : ~Alive(t)
=============================================================================
