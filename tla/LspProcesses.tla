---------------------------- MODULE LspProcesses ----------------------------
(***************************************************************************)
(* The programs of src/LSP/5 Process, 7 Thread Library and 8 Daemon        *)
(* Process that create processes or threads, or show how one ends.         *)
(***************************************************************************)
EXTENDS LspCode, TLC

CONSTANT THREAD_NUM   \* 5 and 8 in the programs

(* The commands that are executed, outside of this repository.             *)
Command(name) == [main |-> <<Puts(name), Exit(0)>>]

ssu__exit == [main |-> <<Part("Good afternoon?"), <<"_exit", 0>> >>]
ssu_exit == [main |-> <<Part("Good afternoon"), Exit(0)>>]

ssu_atexit_1 ==
  [main |-> << <<"atexit", "ssu_out">>, Exit(0)>>, ssu_out |-> <<Puts("atexit succeeded!"), Return>>]
ssu_atexit_2 ==
  [main |-> << <<"atexit", "ssu_exit2">>, <<"atexit", "ssu_exit1">>, <<"atexit", "ssu_exit1">>,
               Puts("done"), Exit(0)>>,
   ssu_exit1 |-> <<Puts("ssu_exit1 handler"), Return>>,
   ssu_exit2 |-> <<Puts("ssu_exit2 handler"), Return>>]

ssu_execl_test_1 == [main |-> <<Puts("argv and environ"), Exit(0)>>]
ssu_execl_1 ==
  [main |-> <<Puts("the original program"), Exec("ssu_execl_test_1"), Puts("never"), Exit(0)>>]
ssu_execv_2 ==
  [main |-> <<Puts("the original program"), Exec("ssu_execl_test_1"), Puts("never"), Exit(0)>>]
ssu_execve ==
  [main |-> <<Puts("the original program"), Exec("ssu_execl_test_1"), Puts("never"), Exit(0)>>]

ssu_execl_2 ==
  [main |-> <<Fork, If("r", 0, "one"), Fork, If("r", 0, "two"), Fork, If("r", 0, "three"),
              Puts("Parent program ending"), Exit(0)>>,
   one |-> <<Exec("echo one")>> \o Fails("exec error"),
   two |-> <<Exec("echo two")>> \o Fails("exec error"),
   three |-> <<Exec("echo three")>> \o Fails("exec error")]

(* wait3 without a child also returns the -1 of a fork that failed.        *)
ssu_execv_1 ==
  [main |-> <<Fork, Save("pid", "r"), If("r", 0, "child"), Wait, <<"same", "pid", "info">>,
              Goto("failed")>>,
   info |-> <<Puts("Termination info follows"), Show("status", "status"), Exit(0)>>,
   child |-> <<Exec("find")>> \o Fails("execv error"),
   failed |-> Fails("wait3 error")]

(* glob_val is x and loc_val y.                                            *)
ssu_fork_1 ==
  [main |-> <<Set("x", 10), Set("y", 100), Write("write to standard output"), Puts("before fork")>>
            \o ForkTo("child", "failed") \o <<Sleep, Goto("both")>>,
   child |-> << <<"add", "x", 1>>, <<"add", "y", 1>>, Goto("both")>>,
   both |-> <<Show("glob_val", "x"), Show("loc_val", "y"), Exit(0)>>,
   failed |-> Fails("fork error")]

(* Three letters stand for the alphabet.                                   *)
ssu_fork_2 ==
  [main |-> ForkTo("child", "failed") \o <<Write("A"), Write("B"), Write("C"), Puts(""), Exit(0)>>,
   child |-> <<Write("a"), Write("b"), Write("c"), Puts(""), Exit(0)>>,
   failed |-> Fails("argv[0]")]

(* setbuf takes the buffer away: each character is written by itself.      *)
ssu_race ==
  [main |-> ForkTo("child", "failed") \o <<Write("p1"), Sleep, Write("p2"), Sleep, Exit(0)>>,
   child |-> <<Write("c1"), Sleep, Write("c2"), Sleep, Exit(0)>>,
   failed |-> Fails("fork error")]

(* x is loc_var, y loc_register and z loc_volatile.                        *)
ssu_setjmp ==
  [main |-> <<Set("x", 10), Set("z", 11), Set("y", 12), <<"setjmp", 1, FALSE>>, If("r", 1, "after"),
              Set("x", 80), Set("z", 81), Set("y", 83),
              Show("before loc_var", "x"), Show("before loc_volatile", "z"),
              Show("before loc_register", "y"), <<"longjmp", 1, 1>> >>,
   after |-> <<Show("loc_var", "x"), Show("loc_volatile", "z"), Show("loc_register", "y"), Exit(0)>>]

(* system() forks a shell and waits for it.                                *)
ssu_system ==
  [main |-> <<Puts("before system()"), Fork, If("r", 0, "shell"), If("r", -1, "after"), Wait, Goto("after")>>,
   shell |-> <<Exec("pwd"), <<"_exit", 127>> >>,
   after |-> <<Puts("after system()"), Exit(0)>>]

(* ssu_echo_exit shows the status.  A division by zero need not stop the   *)
(* third child: it then waits itself, in vain.                             *)
ssu_wait_1 ==
  [main |-> ForkTo("seven", "failed") \o <<Wait, If("r", -1, "alone"), Show("status", "status")>>
            \o ForkTo("aborts", "failed") \o <<Wait, If("r", -1, "alone"), Show("status", "status")>>
            \o ForkTo("divides", "failed") \o <<Goto("last")>>,
   last |-> <<Wait, If("r", -1, "alone"), Show("status", "status"), Exit(0)>>,
   seven |-> <<Exit(7)>>,
   aborts |-> << <<"abort">>, Goto("last")>>,
   divides |-> << <<"divzero">>, Goto("last")>>,
   alone |-> Fails("wait error"),
   failed |-> Fails("fork error")]

(* pid gets the truth of fork() == 0, and a failed fork is a parent.       *)
ssu_wait_2 ==
  [main |-> <<Fork, If("r", 0, "child"), Set("pid", 0), Show("parent: waiting for child", "pid"), Wait,
              ShowPart("parent: return value", "r"), ShowPart("child's status", "status"),
              Show("and shifted", "status"), Exit(0)>>,
   child |-> <<Puts("child"), Exit(1)>>]

(* As ssu_wait_3, waiting until wait returns 0.                            *)
ssu_wait_3_waiting ==
  [main |-> <<Fork, If("r", 0, "one"), Goto("loop")>>,
   one |-> <<Exec("echo one"), Goto("loop")>>,
   loop |-> <<Wait, If("r", 0, "done"), Goto("loop")>>,
   done |-> <<Puts("parent: all children terminated"), Exit(0)>>]
(* A child that cannot execute its command goes on as a parent.            *)
ssu_wait_3 ==
  [main |-> <<Fork, If("r", 0, "one"), Goto("second")>>,
   one |-> <<Exec("echo one"), Goto("second")>>,
   second |-> <<Fork, If("r", 0, "two"), Goto("parent")>>,
   two |-> <<Exec("echo two"), Goto("parent")>>,
   parent |-> <<Puts("parent: waiting for children"), Goto("loop")>>,
   loop |-> <<Wait, If("r", -1, "done"), Goto("loop")>>,
   done |-> <<Puts("parent: all children terminated"), Exit(0)>>]

(* child1 is x and child2 y.                                               *)
ssu_wait_4 ==
  [main |-> <<Fork, Save("x", "r"), If("r", 0, "one"), Goto("second")>>,
   one |-> <<Exec("date"), Goto("second")>>,
   second |-> <<Fork, Save("y", "r"), If("r", 0, "two"), Goto("parent")>>,
   two |-> <<Exec("who"), Goto("parent")>>,
   parent |-> <<Puts("parent: waiting for children"), Goto("loop")>>,
   loop |-> <<Wait, If("r", -1, "done"), <<"same", "x", "first">>, <<"same", "y", "other">>, Goto("loop")>>,
   first |-> <<Show("parent: first child", "status"), Goto("loop")>>,
   other |-> <<Show("parent: second child", "status"), Goto("loop")>>,
   done |-> <<Puts("parent: all children termination"), Exit(0)>>]
-----------------------------------------------------------------------------
(***************************************************************************)
(* Threads.  The end of a start routine is a pthread_exit.                 *)
(***************************************************************************)
Ends == <<"pthread_exit", 0>>
CreateThread(block, v) == << <<"thread", block, v>>, If("r", -1, "failed")>>
NotCreated == Fails("pthread_create error")

ssu_pthread_create_1 ==
  [main |-> CreateThread("ssu_thread", "") \o <<Show("Main Thread", "self"), Sleep, Exit(0)>>,
   ssu_thread |-> <<Show("New Thread", "self"), Ends>>,
   failed |-> NotCreated]

(* Each thread has a place of its own in thread_data_array.                *)
Data(k) == IF k = 1 THEN "s1" ELSE IF k = 2 THEN "s2" ELSE "s3"
(* As the next, with one place for all threads.                            *)
ssu_pthread_create_2_shared ==
  [main |-> FlattenSeq([k \in 1..THREAD_NUM |->
              <<Set("s1", k), Puts("Creating thread")>> \o CreateThread("ssu_printhello", "s1")])
            \o <<Sleep, Exit(0)>>,
   ssu_printhello |-> <<Sleep, Show("Thread", "*arg"), Ends>>,
   failed |-> NotCreated]
ssu_pthread_create_2 ==
  [main |-> FlattenSeq([k \in 1..THREAD_NUM |->
              <<Set(Data(k), k), Puts("Creating thread")>> \o CreateThread("ssu_printhello", Data(k))])
            \o <<Sleep, Exit(0)>>,
   ssu_printhello |-> <<Sleep, Show("Thread", "*arg"), Ends>>,
   failed |-> NotCreated]

(* glo_tid is x and loc_tid y.                                             *)
ssu_pthread_create_3 ==
  [main |-> CreateThread("ssu_thread", "") \o <<Save("y", "r"), Sleep, <<"load", "x">>,
              <<"same", "y", "equal">>, Puts("different threads"), Exit(0)>>,
   equal |-> <<Puts("the same thread"), Exit(0)>>,
   ssu_thread |-> <<Puts("assigns its number"), Save("x", "self"), Ends>>,
   failed |-> NotCreated]

(* All threads read the loop's own counter, also when main has ended.      *)
ssu_pthread_exit_1 ==
  [main |-> FlattenSeq([k \in 1..THREAD_NUM |->
              <<Set("i", k - 1), Puts("creating thread")>> \o CreateThread("ssu_printhello", "i")])
            \o <<Set("i", THREAD_NUM), <<"garble", "i">>, Ends>>,
   ssu_printhello |-> << <<"load", "*arg">>, Show("Hello World!", "r"), Ends>>,
   failed |-> NotCreated]

ssu_pthread_exit_2 ==
  [main |-> CreateThread("ssu_thread", "") \o <<Sleep, Puts("a thread dies with main"), Puts("main ends"), Exit(0)>>,
   ssu_thread |-> <<Puts("thread starts"), Sleep, Puts("thread done"), Ends>>,
   failed |-> NotCreated]

(* The loop of a thread runs to 5 in the code and to 2 here.               *)
ssu_pthread_join_1 ==
  [main |-> <<Set("s1", 1), Set("s2", 2)>> \o CreateThread("ssu_thread", "s1") \o <<Save("x", "r")>>
            \o CreateThread("ssu_thread", "s2") \o <<Save("y", "r"), <<"join", "x">>, <<"join", "y">>, Exit(0)>>,
   ssu_thread |-> <<Show("0", "*arg"), Sleep, Show("1", "*arg"), Sleep, Ends>>,
   failed |-> NotCreated]

ssu_pthread_self ==
  [main |-> CreateThread("ssu_thread", "") \o <<Save("x", "r"), Show("tid", "x")>>
            \o CreateThread("ssu_thread", "") \o <<Save("x", "r"), Show("tid", "x"), Sleep, Exit(0)>>,
   ssu_thread |-> <<Show("->tid", "self"), Ends>>,
   failed |-> NotCreated]
-----------------------------------------------------------------------------
(***************************************************************************)
(* Daemons.  ssu_daemon_init is the same function in both programs.        *)
(***************************************************************************)
InitDaemon(then) ==
  [init |-> ForkTo("child", "failed") \o <<Exit(0)>>,
   child |-> <<Puts("running as daemon"), <<"setsid">>, Signal("TSTP", "IGN"), <<"detach">>, Goto("null")>>,
   null |-> then,
   failed |-> Fails("fork error")]

ssu_daemon ==
  [main |-> <<Puts("parent process"), Puts("daemon process initialization"), Goto("init")>>]
  @@ InitDaemon(<<Exit(0)>>)

ssu_syslog ==
  [main |-> <<Puts("daemon process initialization"), Goto("init")>>]
  @@ InitDaemon(<< <<"syslog", "open failed", "">>, Sleep, Goto("null")>>)

ssu_setsid ==
  [main |-> ForkTo("child", "failed") \o <<Exit(1)>>,
   child |-> <<Show("before", "sid"), <<"setsid">>, Show("after", "sid"), Exit(0)>>,
   failed |-> Fails("fork error")]

(* ssu_print_ids flushes what it printed; the first does not.              *)
ssu_print_ids_unflushed(name) == <<Puts(name)>>
ssu_print_ids(name) == <<Puts(name), <<"flush", "always">> >>
ssu_tcgetpgrp ==
  [main |-> ssu_print_ids("parent") \o ForkTo("child", "failed") \o <<Sleep, Exit(0)>>,
   child |-> ssu_print_ids("child") \o <<Signal("HUP", "ssu_sig_hup"), <<"kill", "TSTP">> >>
             \o ssu_print_ids("child") \o << <<"read">>, If("r", -1, "failedread"), Exit(0)>>,
   failedread |-> <<Write("read error"), Exit(0)>>,
   failed |-> Fails("fork error"),
   ssu_sig_hup |-> <<Puts("ssu_SIG_HUP received"), Return>>]
-----------------------------------------------------------------------------
Commands == {"echo one", "echo two", "echo three", "find", "date", "who", "pwd"}
ProcessPrograms ==
  [ssu__exit |-> ssu__exit, ssu_exit |-> ssu_exit,
   ssu_atexit_1 |-> ssu_atexit_1, ssu_atexit_2 |-> ssu_atexit_2,
   ssu_execl_test_1 |-> ssu_execl_test_1, ssu_execl_1 |-> ssu_execl_1,
   ssu_execv_2 |-> ssu_execv_2, ssu_execve |-> ssu_execve,
   ssu_execl_2 |-> ssu_execl_2, ssu_execv_1 |-> ssu_execv_1,
   ssu_fork_1 |-> ssu_fork_1, ssu_fork_2 |-> ssu_fork_2,
   ssu_race |-> ssu_race, ssu_setjmp |-> ssu_setjmp,
   ssu_system |-> ssu_system, ssu_wait_1 |-> ssu_wait_1,
   ssu_wait_2 |-> ssu_wait_2, ssu_wait_3 |-> ssu_wait_3,
   ssu_wait_4 |-> ssu_wait_4,
   ssu_pthread_create_1 |-> ssu_pthread_create_1,
   ssu_pthread_create_2 |-> ssu_pthread_create_2,
   ssu_pthread_create_3 |-> ssu_pthread_create_3,
   ssu_pthread_exit_1 |-> ssu_pthread_exit_1,
   ssu_pthread_exit_2 |-> ssu_pthread_exit_2,
   ssu_pthread_join_1 |-> ssu_pthread_join_1,
   ssu_pthread_self |-> ssu_pthread_self, ssu_daemon |-> ssu_daemon,
   ssu_syslog |-> ssu_syslog, ssu_setsid |-> ssu_setsid,
   ssu_tcgetpgrp |-> ssu_tcgetpgrp]
  @@ [c \in Commands |-> Command(c)]
=============================================================================
