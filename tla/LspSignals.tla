----------------------------- MODULE LspSignals -----------------------------
(***************************************************************************)
(* The programs of src/LSP/6 Signal.  Calls that cannot fail on the        *)
(* arguments they get are given without their error branch.                *)
(***************************************************************************)
EXTENDS LspCode

All == {"INT", "QUIT", "USR1", "ALRM", "HUP", "TERM", "TSTP", "ABRT", "FPE"}

ssu_abort == [main |-> <<Puts("abort terminate"), <<"abort">>, Puts("never"), Exit(0)>>]

ssu_alarm_1 ==
  [main |-> <<Signal("ALRM", "handler"), <<"alarm", TRUE>>, Goto("spin")>>,
   spin |-> <<Goto("spin")>>,
   handler |-> <<Show("alarm", "i"), <<"add", "i", 1>>, <<"alarm", TRUE>>, Return>>]

ssu_alarm_2 ==
  [main |-> <<Signal("ALRM", "handler"), <<"alarm", TRUE>>, <<"read">>,
              If("r", -1, "failed"), <<"alarm", FALSE>>, Write("line"), Exit(0)>>,
   failed |-> Fails("read() error"),
   handler |-> <<Puts("ssu_alarm() called"), Return>>]

(* ssu_kill_B is run in the background, and then ssu_kill_A on its number. *)
ssu_kill_A == [main |-> << <<"killpid", "KILL">>, Exit(0)>>]
ssu_kill_B == [main |-> <<Puts(""), Part("[OSLAB]"), Sleep, Goto("main")>>]
Background ==
  [main |-> ForkTo("B", "out") \o <<Save("pid", "r"), Exec("ssu_kill_A"), Exit(127)>>,
   B |-> <<Exec("ssu_kill_B"), Exit(127)>>,
   out |-> <<Exit(1)>>]

ssu_pause ==
  [main |-> <<Puts("Alarm Setting"), Signal("ALRM", "ssu_alarm"), <<"alarm", TRUE>>, Goto("loop")>>,
   loop |-> <<Puts("done"), Pause, <<"alarm", TRUE>>, Goto("loop")>>,
   ssu_alarm |-> <<Puts("alarm..!!!"), Return>>]

ssu_raise ==
  [main |-> <<Signal("INT", "handler1"), Signal("USR1", "handler2"),
              <<"kill", "INT">>, <<"kill", "USR1">>, Puts("main return"), Exit(0)>>,
   handler1 |-> <<Puts("SIGINT"), Return>>,
   handler2 |-> <<Puts("SIGUSR1"), Return>>]

ssu_sigaction_1 ==
  [main |-> <<Sigaction("USR1", "handler", {}), Puts("before first kill()"), <<"kill", "USR1">>,
              <<"setmask", {"USR1"}>>, Puts("before second kill()"), <<"kill", "USR1">>,
              Puts("after second kill()"), Exit(0)>>,
   handler |-> <<Puts("handler"), Return>>]

(* ssu_check_pending stands in line, once for each of its two calls.       *)
ssu_sigaction_2 ==
  [main |-> <<Sigaction("USR1", "handler", {}), <<"setmask", {"USR1"}>>, Puts("now blocked"),
              <<"kill", "USR1">>, Puts("after kill()"),
              <<"pending", "USR1">>, Show("pending", "r"),
              <<"setmask", {}>>, Puts("no longer blocked"),
              <<"pending", "USR1">>, Show("pending", "r"), Exit(0)>>,
   handler |-> <<Puts("handler"), Return>>]

(* The flags of the first action are set only after it was installed: its  *)
(* handler may be installed with any.                                      *)
ssu_sigaction_3 ==
  [main |-> << <<"sigaction", "INT", "handler1", {{"QUIT"}}, SUBSET {"NODEFER", "RESETHAND"}>>,
               Sigaction("QUIT", "handler2", {"INT"}), Pause, Exit(0)>>,
   handler1 |-> <<Puts("handler of SIGINT"), Sleep, Puts("handler of SIGINT ended"), Return>>,
   handler2 |-> <<Puts("handler of SIGQUIT"), Sleep, Puts("handler of SIGQUIT ended"), Return>>]

ssu_signal_1 ==
  [main |-> <<Signal("INT", "handler"), Save("func", "r"), Goto("loop")>>,
   loop |-> <<Puts("process running"), Sleep, Goto("loop")>>,
   handler |-> <<Puts("SIGINT"), Puts("SIG_DFL"), <<"resignal", "INT", "func">>, Return>>]

ssu_signal_2 ==
  [main |-> <<Signal("INT", "handler"), Signal("TERM", "handler"), Signal("HUP", "IGN"), Goto("loop")>>,
   loop |-> <<Pause, Goto("loop")>>,
   handler |-> << <<"ifsig", "INT", "int">>, <<"ifsig", "TERM", "term">>,
                  Write("unexpected signal"), Exit(1)>>,
   int |-> <<Puts("caught SIGINT"), Exit(0)>>,
   term |-> <<Puts("caught SIGTERM"), Exit(0)>>]

ssu_sigpending ==
  [main |-> << <<"setmask", All>>, Goto("loop")>>,
   loop |-> <<Show("count", "i"), <<"add", "i", 1>>, Sleep, <<"pending", "INT">>,
              If("r", 0, "loop"), Puts("SIGINT waits"), Exit(0)>>]

(* As ssu_sigprocmask without its SIG_UNBLOCK.                             *)
ssu_sigprocmask_blocked ==
  [main |-> << <<"block", {"INT"}>>, Puts("count 3"), Sleep, Puts("no longer blocked"), Goto("spin")>>,
   spin |-> <<Goto("spin")>>]
ssu_sigprocmask ==
  [main |-> << <<"block", {"INT"}>>, Puts("count 3"), Sleep, Puts("count 2"), Sleep,
               Puts("count 1"), Sleep, Puts("no longer blocked"), <<"unblock", {"INT"}>>,
               Puts("not shown after Ctrl-C"), Goto("spin")>>,
   spin |-> <<Goto("spin")>>]

(* setjmp keeps no mask.                                                   *)
ssu_sigsetjmp_1 ==
  [main |-> <<Signal("INT", "handler"), Goto("loop")>>,
   loop |-> << <<"setjmp", 1, FALSE>>, If("r", 1, "loop"), Puts("Hit Ctrl-c"), Pause, Goto("loop")>>,
   handler |-> <<Signal("INT", "IGN"), Puts("Did you hit Ctrl-c?"), Part("Do you want to quit?"),
                 <<"flush", "tty">>, <<"read">>, If("r", 1, "yes"),
                 Signal("INT", "handler"), <<"longjmp", 1, 1>> >>,
   yes |-> <<Exit(0)>>]

(* As the next, with a sigsetjmp that keeps no mask, and without the look  *)
(* at can_jump.                                                            *)
ssu_sigsetjmp_2_as(kept, guarded) ==
  [main |-> <<Signal("USR1", "ssu_func"), Signal("ALRM", "ssu_alarm"), Show("starting main", "mask"),
              <<"setjmp", 1, kept>>, If("r", 1, "jumped"), Set("i", 1), Goto("loop")>>,
   jumped |-> <<Show("ending main", "mask"), Exit(0)>>,
   loop |-> <<Pause, Goto("loop")>>,
   ssu_func |-> <<If("i", guarded, "back"), <<"alarm", TRUE>>, <<"outlast">>, Set("i", 0), <<"longjmp", 1, 1>> >>,
   back |-> <<Return>>,
   ssu_alarm |-> <<Return>>]
ssu_sigsetjmp_2_unsaved == ssu_sigsetjmp_2_as(FALSE, 0)
ssu_sigsetjmp_2_unguarded == ssu_sigsetjmp_2_as(TRUE, 2)

(* can_jump is i; ssu_mask shows the mask.                                 *)
ssu_sigsetjmp_2 ==
  [main |-> <<Signal("USR1", "ssu_func"), Signal("ALRM", "ssu_alarm"), Show("starting main", "mask"),
              <<"setjmp", 1, TRUE>>, If("r", 1, "jumped"), Set("i", 1), Goto("loop")>>,
   jumped |-> <<Show("ending main", "mask"), Exit(0)>>,
   loop |-> <<Pause, Goto("loop")>>,
   ssu_func |-> <<If("i", 0, "back"), Show("starting ssu_func", "mask"), <<"alarm", TRUE>>,
                  <<"outlast">>, Show("ending ssu_func", "mask"), Set("i", 0), <<"longjmp", 1, 1>> >>,
   back |-> <<Return>>,
   ssu_alarm |-> <<Show("in ssu_alarm", "mask"), Return>>]

(* The masks and flags of both actions are never set.  The loop runs to 20 *)
(* in the code and to 1 here.                                              *)
AnyMask == {{}, {"INT", "USR1"}}
AnyFlags == {{}, {"NODEFER"}}
ssu_sigsetjmp_3 ==
  [main |-> <<Puts("My PID"), <<"setjmp", 1, TRUE>>, If("r", 3, "again"),
              <<"sigaction", "INT", "handler1", AnyMask, AnyFlags>>,
              Goto("start")>>,
   again |-> <<Puts("----"), Goto("start")>>,
   start |-> <<Puts("Starting"), <<"setjmp", 2, TRUE>>,
               <<"sigaction", "USR1", "handler2", AnyMask, AnyFlags>>,
               Set("i", 0), Goto("loop")>>,
   loop |-> <<Show("i", "i"), Sleep, <<"add", "i", 1>>, If("i", 1, "end"), Goto("loop")>>,
   end |-> <<Exit(0)>>,
   handler1 |-> <<Write("Interrupted"), <<"longjmp", 1, 3>> >>,
   handler2 |-> <<Write("SIGUSR1"), <<"longjmp", 2, 2>> >>]

ssu_sigsuspend_1 == [main |-> << <<"block", {"INT"}>>, <<"sigsuspend", {}>>, Exit(0)>>]

ssu_sigsuspend_2 ==
  [main |-> <<Show("program start", "mask"), Signal("INT", "ssu_func"), <<"block", {"INT"}>>,
              Show("in critical region", "mask"), <<"sigsuspend", {"USR1"}>>,
              If("r", 0, "failed"), Show("after return from sigsuspend", "mask"),
              <<"setmask", {}>>, Show("program exit", "mask"), Exit(0)>>,
   failed |-> Fails("sigsuspend() error"),
   ssu_func |-> <<Show("in ssu_func", "mask"), Return>>]

ssu_sigsuspend_3 ==
  [main |-> <<Sigaction("ALRM", "handler", {}), Puts("before sigsuspend()"), <<"alarm", TRUE>>,
              <<"sigsuspend", All \ {"ALRM"}>>, Puts("after sigsuspend()"), Exit(0)>>,
   handler |-> <<Puts("in handler"), Return>>]

ssu_sleep ==
  [main |-> <<Puts("before sleep()"), Sleep, Puts("after sleep()"), Show("sleep() returned", "r"), Exit(0)>>]

SignalPrograms ==
  [ssu_abort |-> ssu_abort, ssu_alarm_1 |-> ssu_alarm_1, ssu_alarm_2 |-> ssu_alarm_2,
   ssu_kill_A |-> ssu_kill_A, ssu_kill_B |-> ssu_kill_B, Background |-> Background,
   ssu_pause |-> ssu_pause, ssu_raise |-> ssu_raise, ssu_sigaction_1 |-> ssu_sigaction_1,
   ssu_sigaction_2 |-> ssu_sigaction_2, ssu_sigaction_3 |-> ssu_sigaction_3,
   ssu_signal_1 |-> ssu_signal_1, ssu_signal_2 |-> ssu_signal_2,
   ssu_sigpending |-> ssu_sigpending, ssu_sigprocmask |-> ssu_sigprocmask,
   ssu_sigsetjmp_1 |-> ssu_sigsetjmp_1, ssu_sigsetjmp_2 |-> ssu_sigsetjmp_2,
   ssu_sigsetjmp_3 |-> ssu_sigsetjmp_3, ssu_sigsuspend_1 |-> ssu_sigsuspend_1,
   ssu_sigsuspend_2 |-> ssu_sigsuspend_2, ssu_sigsuspend_3 |-> ssu_sigsuspend_3,
   ssu_sleep |-> ssu_sleep]

(* What the user types or sends from another terminal while they run.      *)
SignalOutside ==
  [p \in DOMAIN SignalPrograms |->
     CASE p = "ssu_sigaction_3" -> {"INT", "QUIT"}
       [] p \in {"ssu_signal_1", "ssu_sigpending", "ssu_sigprocmask", "ssu_sigsetjmp_1",
                 "ssu_sigsuspend_1"} -> {"INT"}
       [] p = "ssu_signal_2" -> {"INT", "TERM", "HUP"}
       [] p = "ssu_sigsetjmp_2" -> {"USR1"}
       [] p \in {"ssu_sigsetjmp_3", "ssu_sigsuspend_2"} -> {"INT", "USR1"}
       [] OTHER -> {}]
=============================================================================
