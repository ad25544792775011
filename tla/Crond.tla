------------------------------- MODULE Crond --------------------------------
(***************************************************************************)
(* ssu_rsync/ssu_crond.c: the daemon reads ssu_crontab_file line by line,  *)
(* puts each line's command and time tables into globals, and leaves it to *)
(* a thread per line to compare them with the clock and run the command.   *)
(* Nothing keeps the globals still while a thread reads them: the mutex is *)
(* taken around the command only, and destroyed after every line.          *)
(***************************************************************************)
EXTENDS Schedule

CONSTANTS
  Commands,    (* what a line holds behind its number                      *)
  FieldsOf,    (* the five fields of each, as in Schedule                  *)
  Times,       (* the moments the clock passes through: values of struct tm*)
  MaxThreads   (* bound: threads                                           *)

Threads == 1 .. MaxThreads

VARIABLES
  table,               (* ssu_crontab_file                                 *)
  mpc,                 (* main; "dead" when the process has died           *)
  offset, unread,      (* crontab_fp: how many lines have been read from   *)
                       (* the file, and those not yet returned by fgets    *)
  buf, k,              (* the line being treated, the field being filled   *)
  timetable,           (* min, hour, mday, month, wday                     *)
  command, exe_period, (* the other globals of the line                    *)
  created,             (* how many threads have been created               *)
  mutex, destroyed,    (* its holder or 0; whether it has been destroyed   *)
  tpc, rawtime,        (* the threads, and the time each has read          *)
  tm,                  (* the one struct tm, which localtime returns       *)
  ran, noted,          (* what each thread has run, and what it has logged *)
  seen, line_of,       (* ghosts: the lines taken from the file, and the   *)
                       (* line each thread was created for                 *)
  now                  (* the clock: an index into Times                   *)

stream == <<offset, unread>>
globals == <<timetable, command, exe_period>>
lock == <<mutex, destroyed>>
ghosts == <<seen, line_of>>
threads == <<tpc, rawtime, tm, ran, noted>>
daemonVars == <<mpc, stream, buf, k, globals, created, lock, threads, ghosts, now>>

-----------------------------------------------------------------------------
Order == <<"min", "hour", "mday", "month", "wday">>

(* A text is the set of the commands it is made of: two while it is being  *)
(* overwritten.                                                            *)
NoLine == [index |-> <<>>, command |-> {}]
Nothing == [of |-> {}, shifted |-> FALSE]

(* command_separation skips three characters, whatever the number's length:*)
(* behind a longer number the first token is empty and the others move up. *)
Shifted(line) == Len(line.index) > 1
Text(line) == [of |-> {line.command}, shifted |-> Shifted(line)]
Torn(t, u) == [of |-> t.of \cup u.of, shifted |-> t.shifted \/ u.shifted]

Token(line, m) ==
  IF ~Shifted(line) THEN FieldsOf[line.command][Order[m]]
  ELSE IF m = 1 THEN <<>> ELSE FieldsOf[line.command][Order[m - 1]]

DaemonInit ==
  /\ mpc = "fgets"
  /\ offset = 0 /\ unread = <<>>
  /\ buf = NoLine /\ k = 1
  /\ timetable = [f \in Fields |-> {}]
  /\ command = Nothing /\ exe_period = Nothing
  /\ created = 0
  /\ mutex = 0 /\ destroyed = FALSE
  /\ tpc = [t \in Threads |-> "none"]
  /\ rawtime = [t \in Threads |-> 1]
  /\ tm = 1
  /\ ran = [t \in Threads |-> Nothing] /\ noted = [t \in Threads |-> Nothing]
  /\ seen = {} /\ line_of = [t \in Threads |-> NoLine]
  /\ now = 1

-----------------------------------------------------------------------------
(* main.  fgets returns what its buffer holds, and reads on when that is   *)
(* used up; at the end of the file the stream is closed.                   *)
Fgets ==
  LET rest == SubSeq(table, offset + 1, Len(table))
      have == IF unread # <<>> THEN unread ELSE rest IN
  /\ mpc = "fgets"
  /\ \/ /\ have # <<>>
        /\ created < MaxThreads
        /\ buf' = Head(have)
        /\ unread' = Tail(have)
        /\ offset' = IF unread # <<>> THEN offset ELSE Len(table)
        /\ seen' = seen \cup ToSet(have)
        /\ mpc' = "separate"
     \/ /\ have = <<>>
        /\ mpc' = "sleep"
        /\ UNCHANGED <<buf, stream, seen>>
  /\ UNCHANGED <<k, globals, created, lock, threads, line_of, now>>

(* Faulty variant: the command is not copied to its end.                   *)
SeparatedPartly ==
  /\ mpc = "separated"
  /\ exe_period' = Text(buf)
  /\ mpc' = "clear"
  /\ UNCHANGED <<stream, buf, k, timetable, command, created, lock, threads, ghosts, now>>

(* command_separation: the strcpys into the globals, begun and ended.      *)
Overwrite ==
  /\ mpc = "separate"
  /\ exe_period' = Torn(exe_period, Text(buf))
  /\ command' = Torn(command, Text(buf))
  /\ mpc' = "separated"
  /\ UNCHANGED <<stream, buf, k, timetable, created, lock, threads, ghosts, now>>

Separated ==
  /\ mpc = "separated"
  /\ exe_period' = Text(buf)
  /\ command' = Text(buf)
  /\ mpc' = "clear"
  /\ UNCHANGED <<stream, buf, k, timetable, created, lock, threads, ghosts, now>>

(* Faulty variant: what the line before has marked stays.                  *)
ClearNothing ==
  /\ mpc = "clear"
  /\ k' = 1
  /\ mpc' = "fill"
  /\ UNCHANGED <<stream, buf, globals, created, lock, threads, ghosts, now>>

(* make_timetable: everything is cleared, then the five fields are filled. *)
Clear ==
  /\ mpc = "clear"
  /\ timetable' = [f \in Fields |-> {}]
  /\ k' = 1
  /\ mpc' = "fill"
  /\ UNCHANGED <<stream, buf, command, exe_period, created, lock, threads, ghosts, now>>

Fill ==
  LET items == Token(buf, k) IN
  /\ mpc = "fill"
  /\ \/ /\ \E j \in DOMAIN items : Kills(Order[k], items[j])
        /\ mpc' = "dead"
        /\ UNCHANGED <<timetable, k>>
     \/ /\ \A j \in DOMAIN items : ~Kills(Order[k], items[j])
        /\ timetable' = [timetable EXCEPT ![Order[k]] = @ \cup make_timetable(Order[k], items)]
        /\ k' = k + 1
        /\ mpc' = IF k = 5 THEN "create" ELSE "fill"
  /\ UNCHANGED <<stream, buf, command, exe_period, created, lock, threads, ghosts, now>>

Create ==
  /\ mpc = "create"
  /\ created' = created + 1
  /\ tpc' = [tpc EXCEPT ![created'] = "time"]
  /\ line_of' = [line_of EXCEPT ![created'] = buf]
  /\ mpc' = "destroy"
  /\ UNCHANGED <<stream, buf, k, globals, lock, rawtime, tm, ran, noted, seen, now>>

(* EBUSY if a thread holds the mutex.                                      *)
Destroy ==
  /\ mpc = "destroy"
  /\ destroyed' = (destroyed \/ mutex = 0)
  /\ mpc' = "fgets"
  /\ UNCHANGED <<stream, buf, k, globals, created, mutex, threads, ghosts, now>>

(* After sleep(60) main goes on with the stream it has closed: undefined;  *)
(* the freed FILE gives nothing any more, if the process survives it.      *)
Wake ==
  /\ mpc = "sleep"
  /\ mpc' \in {"sleep", "dead"}
  /\ UNCHANGED <<stream, buf, k, globals, created, lock, threads, ghosts, now>>

-----------------------------------------------------------------------------
(* ssu_thread                                                              *)
Time(t) ==
  /\ tpc[t] = "time"
  /\ rawtime' = [rawtime EXCEPT ![t] = now]
  /\ tm' = now
  /\ tpc' = [tpc EXCEPT ![t] = "min"]
  /\ UNCHANGED <<ran, noted, globals, lock>>

(* One of the five tests, in their order.  tm_mon counts from 0.           *)
Test(t, m) ==
  LET f == Order[m] IN
  /\ tpc[t] = f
  /\ tpc' = [tpc EXCEPT ![t] = IF Times[tm][f] \notin timetable[f] THEN "done"
                               ELSE IF m < 5 THEN Order[m + 1] ELSE "lock"]
  /\ UNCHANGED <<rawtime, tm, ran, noted, globals, lock>>

(* A mutex that has been destroyed may still work, or not lock at all.     *)
Lock(t) ==
  /\ tpc[t] = "lock"
  /\ \/ mutex = 0 /\ mutex' = t
     \/ destroyed /\ UNCHANGED mutex
  /\ tpc' = [tpc EXCEPT ![t] = "system"]
  /\ UNCHANGED <<rawtime, tm, ran, noted, globals, destroyed>>

System(t) ==
  /\ tpc[t] = "system"
  /\ ran' = [ran EXCEPT ![t] = command]
  /\ tpc' = [tpc EXCEPT ![t] = "log"]
  /\ UNCHANGED <<rawtime, tm, noted, globals, lock>>

(* ctime overwrites the struct tm as localtime does.                       *)
Log(t) ==
  /\ tpc[t] = "log"
  /\ tm' = rawtime[t]
  /\ noted' = [noted EXCEPT ![t] = Torn(exe_period, command)]
  /\ tpc' = [tpc EXCEPT ![t] = "unlock"]
  /\ UNCHANGED <<rawtime, ran, globals, lock>>

Unlock(t) ==
  /\ tpc[t] = "unlock"
  /\ mutex' = IF mutex = t THEN 0 ELSE mutex
  /\ tpc' = [tpc EXCEPT ![t] = "done"]
  /\ UNCHANGED <<rawtime, tm, ran, noted, globals, destroyed>>

ssu_thread(t) ==
  /\ mpc # "dead"
  /\ \/ Time(t) \/ \E m \in 1 .. 5 : Test(t, m)
     \/ Lock(t) \/ System(t) \/ Log(t) \/ Unlock(t)
  /\ UNCHANGED <<mpc, stream, buf, k, created, ghosts, now>>

Tick ==
  /\ now < Len(Times)
  /\ now' = now + 1
  /\ UNCHANGED <<mpc, stream, buf, k, globals, created, lock, threads, ghosts>>

-----------------------------------------------------------------------------
Main ==
  \/ Fgets \/ Overwrite \/ Separated \/ Clear \/ Fill
  \/ Create \/ Destroy \/ Wake

DaemonNext == Main \/ (\E t \in Threads : ssu_thread(t)) \/ Tick
=============================================================================
