-------------------------------- MODULE Cron --------------------------------
(***************************************************************************)
(* The editor and the daemon together: ssu_crontab changes the file that   *)
(* ssu_crond, once started, reads.  Neither locks it.                      *)
(***************************************************************************)
EXTENDS Crontab

CONSTANTS FieldsOf, Times, MaxThreads,   \* see Crond
          MaxEdits                       \* bound: additions and removals

ASSUME CronAssumption == MaxThreads \in Nat /\ MaxEdits \in Nat /\ Len(Times) > 0

VARIABLES mpc, offset, unread, buf, k, timetable, command, exe_period, created,
          mutex, destroyed, tpc, rawtime, tm, ran, noted, seen, line_of, now

VARIABLES on,       (* whether the daemon has been started                 *)
          wanted,   (* the commands added and not removed                  *)
          allowed,  (* ... when the daemon was started, and those added    *)
                    (* since                                               *)
          edits     (* how many additions and removals so far              *)

Daemon == INSTANCE Crond

daemonVars == <<mpc, offset, unread, buf, k, timetable, command, exe_period, created,
                mutex, destroyed, tpc, rawtime, tm, ran, noted, seen, line_of, now>>
allVars == <<vars, daemonVars, on, wanted, allowed, edits>>

-----------------------------------------------------------------------------
CronInit ==
  /\ Init
  /\ Daemon!DaemonInit
  /\ on = FALSE
  /\ wanted = {} /\ allowed = {}
  /\ edits = 0

(* The user enters a command once: the daemon could not tell copies apart. *)
AddWanted(c) ==
  /\ add_command(c)
  /\ c \notin wanted
  /\ edits < MaxEdits /\ edits' = edits + 1
  /\ wanted' = wanted \cup {c}
  /\ allowed' = IF on THEN allowed \cup {c} ELSE allowed

RemoveWanted(n) ==
  /\ remove_command(n)
  /\ edits < MaxEdits /\ edits' = edits + 1
  /\ wanted' = IF n < Len(table) THEN wanted \ {table[n + 1].command} ELSE wanted
  /\ UNCHANGED allowed

OtherStep == Start \/ Open \/ Refused \/ Unknown \/ Exit \/ Close \/ CloseLog \/ Crash

Edit ==
  /\ \/ \E c \in Commands : AddWanted(c)
     \/ \E n \in 0 .. line_counter + 1 : RemoveWanted(n)
     \/ OtherStep /\ UNCHANGED <<wanted, allowed, edits>>
  /\ UNCHANGED <<daemonVars, on>>

StartDaemon ==
  /\ ~on
  /\ on' = TRUE
  /\ allowed' = wanted
  /\ UNCHANGED <<vars, daemonVars, wanted, edits>>

Run ==
  /\ on
  /\ Daemon!DaemonNext
  /\ UNCHANGED <<vars, on, wanted, allowed, edits>>

CronNext == Edit \/ StartDaemon \/ Run

CronSpec == CronInit /\ [][CronNext]_allVars

-----------------------------------------------------------------------------
(* Properties                                                              *)

(* A command that was removed before the daemon was started, and not added *)
(* again, is not run: however the removals have rewritten the file, and    *)
(* whatever the user removes while the daemon reads it.                    *)
RemovedStaysOut == \A t \in Daemon!Threads : ran[t].of \subseteq allowed

(* The globals only move on: what a thread runs is the command of its own  *)
(* line or of a later one, never of a line before it.                      *)
NoOlderCommand ==
  \A t \in Daemon!Threads :
    ran[t].of \subseteq {line_of[u].command : u \in t .. created} \cup {buf.command}

(* Whether the command is due at the moment tm, as the editor's symbols    *)
(* say; tm_mon counts the months from 0.                                   *)
Now(tm_value, f) == IF f = "month" THEN tm_value[f] + 1 ELSE tm_value[f]
Due(c, tm_value) ==
  \A f \in Daemon!Fields : Now(tm_value, f) \in Daemon!make_timetable(f, FieldsOf[c][f])

(* The globals of the last line of the file stay as they are: its thread   *)
(* runs the command if it is due, and nothing if it is not, as long as the *)
(* minute is the same for all threads.                                     *)
LastLineExact ==
  LET line == line_of[created] IN
  mpc = "sleep" /\ created > 0 /\ now = 1 /\ tpc[created] = "done" /\ ~Daemon!Shifted(line) =>
    ran[created] = IF Due(line.command, Times[1]) THEN Daemon!Text(line) ELSE Daemon!Nothing

(* "If the period matches the current time" (ssu_crond.c:63): a command    *)
(* that is run is one command, and due when its thread looked at the clock.*)
RunsAreDue ==
  \A t \in Daemon!Threads : \A c \in ran[t].of :
    ran[t].of = {c} /\ Due(c, Times[rawtime[t]])
=============================================================================
