------------------------------- MODULE MCUnix -------------------------------
(***************************************************************************)
(* The example programs of src/LSP, one at a time, and what their files    *)
(* say of them.                                                            *)
(***************************************************************************)
EXTENDS Unix, LspSignals, LspProcesses

AllCode == SignalPrograms @@ ProcessPrograms
Started == DOMAIN AllCode \ (Commands \cup {"ssu_kill_A", "ssu_kill_B", "ssu_execl_test_1"})
AllOutside == SignalOutside @@ [p \in DOMAIN ProcessPrograms |-> {}]
NeverEnd == {"ssu_alarm_1", "ssu_pause", "ssu_signal_1", "ssu_sigpending", "Background", "ssu_syslog"}
-----------------------------------------------------------------------------
Shown == [k \in DOMAIN out |-> out[k][1]]
Says(text) == \E k \in DOMAIN out : out[k][1] = text
Of(text) == {k \in DOMAIN out : out[k][1] = text}
Values(text) == {out[k][2] : k \in Of(text)}
ShownBy(p) == LET mine == SelectSeq(out, LAMBDA item : item[3] = p)
              IN [k \in DOMAIN mine |-> mine[k][1]]
After(text, other) == \A j \in Of(text), k \in Of(other) : k < j
Failed == \E text \in {"fork error", "pthread_create error", "argv[0]"} : Says(text)
Complete == Finished /\ ~Failed

(* What comments, messages and names in the files say of the programs      *)
(* named here (src/LSP/5 Process, 6 Signal, 7 Thread Library, 8 Daemon     *)
(* Process), under every order of the processes and every moment of a      *)
(* signal.  ssu_wait_3.c:23-24 puts the output of the children before the  *)
(* parent's.  That holds when stdout is a file; on a terminal the line     *)
(* "waiting" may come before theirs, so there only the line behind the     *)
(* loop of wait is judged.  ssu_sigprocmask.c:22: after a Ctrl-C during    *)
(* the count the sentence is not shown; so once it is shown, a Ctrl-C was  *)
(* typed later and ends the program.  The other programs (OTHER) have no   *)
(* such claim: three alarms and sleeps, pause, sigsetjmp_1 and _3,         *)
(* sigsuspend_1, atexit_1, execl_2, execv_1, system, and the thread        *)
(* programs but pthread_create_2 and pthread_join_1.                       *)
AsDescribed ==
  CASE main = "ssu_atexit_2" -> Finished =>
         Shown = <<"done", "ssu_exit1 handler", "ssu_exit1 handler", "ssu_exit2 handler">>
    [] main = "ssu__exit" -> out = <<>>
    [] main = "ssu_exit" -> Finished => Shown = <<"Good afternoon">>
    [] main \in {"ssu_abort", "ssu_execl_1", "ssu_execv_2", "ssu_execve"} -> Says("never") => ~present
    [] main = "ssu_fork_1" -> \A k \in Of("glob_val") : out[k][2] = IF out[k][3] = 1 THEN 10 ELSE 11
    [] main = "ssu_fork_2" -> Complete => ShownBy(1) = <<"A", "B", "C", "">> /\ ShownBy(2) = <<"a", "b", "c", "">>
    [] main = "ssu_race" -> Complete => ShownBy(1) = <<"p1", "p2">> /\ ShownBy(2) = <<"c1", "c2">>
    [] main = "ssu_setjmp" -> Values("loc_volatile") \subseteq {81}
    [] main = "ssu_wait_1" -> ~Says("wait error") /\ Complete =>
         \E a, b, c \in Of("status") : a < b /\ b < c /\ out[a][2] = 7 * 256 /\ out[b][2] = 6 /\ out[c][2] = 8
    [] main = "ssu_wait_2" -> Says("child") => Values("and shifted") \subseteq {256}
    [] main \in {"ssu_wait_3", "ssu_wait_4"} ->
         LET last == Of("parent: all children terminated") \cup Of("parent: all children termination")
         IN \A j, k \in DOMAIN out :
              out[j][3] = 1 /\ out[k][3] # 1 /\ (j \in last \/ ~tty) => k < j
    [] main = "ssu_sigaction_1" -> Finished =>
         Shown = <<"before first kill()", "handler", "before second kill()", "after second kill()">>
    [] main = "ssu_sigaction_2" -> Finished =>
         /\ Shown = <<"now blocked", "after kill()", "pending", "handler", "no longer blocked", "pending">>
         /\ out[3][2] = 1 /\ out[6][2] = 0
    [] main = "ssu_raise" -> Finished => Shown = <<"SIGINT", "SIGUSR1", "main return">>
    [] main = "ssu_sigaction_3" ->
         \A k \in DOMAIN out : k < Len(out) =>
           /\ Shown[k] = "handler of SIGINT" => Shown[k + 1] # "handler of SIGQUIT"
           /\ Shown[k] = "handler of SIGQUIT" => Shown[k + 1] # "handler of SIGINT"
    [] main = "ssu_signal_1" -> Cardinality(Of("SIGINT")) <= 1
    [] main = "ssu_signal_2" -> ~Says("unexpected signal")
    [] main = "ssu_sigpending" -> Says("SIGINT waits") => keys > 0
    [] main = "ssu_sigprocmask" ->
         Says("not shown after Ctrl-C") /\ keys > 0 => "INT" \in Deliverable(1) \/ Finished
    [] main = "ssu_sigsetjmp_2" ->
         Values("ending main") \subseteq {{}} /\ Values("in ssu_alarm") \subseteq {{"USR1", "ALRM"}}
    [] main = "ssu_sigsuspend_2" ->
         /\ Values("in critical region") \cup Values("after return from sigsuspend") \subseteq {{"INT"}}
         /\ \A j \in Of("in critical region"), k \in Of("in ssu_func") :
              j < k /\ out[k][2] # {"INT", "USR1"} => \E m \in Of("after return from sigsuspend") : m < k
         /\ Values("program exit") \subseteq {{}}
    [] main = "ssu_sigsuspend_3" -> Finished =>
         Shown = <<"before sigsuspend()", "in handler", "after sigsuspend()">>
    [] main = "ssu_pthread_create_2" -> \A j, k \in Of("Thread") : j # k => out[j][2] # out[k][2]
    [] main = "ssu_pthread_join_1" -> Complete =>
         \A v \in {1, 2} : \E j \in Of("0"), k \in Of("1") : j < k /\ out[j][2] = v /\ out[k][2] = v
    [] main = "ssu_setsid" -> After("after", "before") /\ 1 \notin Values("after")
    [] main \in {"ssu_daemon", "ssu_syslog"} -> Says("running as daemon") => tty
    [] main = "ssu_tcgetpgrp" -> Complete =>
         Says("read error") /\ \A k \in Of("ssu_SIG_HUP received") : \E j \in Of("child") : k < j
    [] OTHER -> TRUE

(* Outside of its handlers a program has the signals blocked that it asked *)
(* for and no others: handlers, sigsuspend and the jumps out of a handler  *)
(* give the mask back.  ssu_sigsetjmp_1.c is the program that shows what   *)
(* happens without (lines 1-5).                                            *)
MaskRestored ==
  \A t \in Tasks : Alive(t) /\ ~Handling(t) /\ task[t].st # "suspend" /\ main # "ssu_sigsetjmp_1"
                     => task[t].mask = task[t].own

(* A handler never jumps to a place that was not kept yet, at whatever     *)
(* moment the signal comes (can_jump of ssu_sigsetjmp_2.c:13, 78; the      *)
(* order of lines 20-33 of ssu_sigsetjmp_3.c).  In ssu_sigsetjmp_1.c it    *)
(* can: the handler is installed at line 18, the place kept at line 20.    *)
JumpsLand ==
  \A t \in Tasks : Alive(t) /\ Op(t) = "longjmp" /\ main # "ssu_sigsetjmp_1"
                     => Me(t).jmp[Arg(t)].set

(* Each printed line is shown once, however many processes had it in their *)
(* buffers when they ended.  Two programs fork with a line in the buffer   *)
(* when stdout is a file: ssu_fork_1.c:18 and ssu_wait_1.c:26-43, whose    *)
(* children can come back to exit.                                         *)
ShownOnce ==
  tty \/ main \notin {"ssu_fork_1", "ssu_wait_1"} =>
    \A j, k \in DOMAIN out : out[j][3] = out[k][3] /\ out[j][4] = out[k][4] => j = k

(* The programs that wait for nobody end, and so do their children: no     *)
(* wait, join, sleep or sigsuspend lasts for ever.  Left out are those     *)
(* that loop, those that wait for a signal or a line from the user, and    *)
(* ssu_sigsuspend_3, whose alarm may ring before it waits.                 *)
MustEnd == Started \ ((NeverEnd \ {"Background"}) \cup
  {"ssu_alarm_2", "ssu_sigaction_3", "ssu_signal_2", "ssu_sigprocmask", "ssu_sigsetjmp_1",
   "ssu_sigsetjmp_2", "ssu_sigsuspend_1", "ssu_sigsuspend_2", "ssu_sigsuspend_3"})
AllEnd == main \in MustEnd ~> Finished

(* A Ctrl-C is not left pending for ever: it is delivered, or the program  *)
(* sees it or ends (the unblocking of ssu_sigprocmask.c:21, the mask of    *)
(* ssu_sigsuspend_2.c:32, the poll of ssu_sigpending.c:18).  Not so in     *)
(* ssu_sigsetjmp_1.c.                                                      *)
Answered ==
  "INT" \in proc[1].pend /\ main # "ssu_sigsetjmp_1" ~> "INT" \notin proc[1].pend

(* Both: the programs of the two chapters do not hang.                     *)
NobodyWaitsForEver == AllEnd /\ Answered
=============================================================================
