---------------------------- MODULE CommandTable ----------------------------
(***************************************************************************)
(* What the crontab editor promises, as its two commands put it: a list to *)
(* which a command is appended, and from which the one with a given number *)
(* is removed.  A crash loses what was being added; during a removal it    *)
(* loses the whole list.                                                   *)
(***************************************************************************)
EXTENDS Integers, SequencesExt

CONSTANT Commands

VARIABLES list,    (* the commands, in the order of their numbers from 0   *)
          saved,   (* what a crash would leave of it                       *)
          entry    (* the change that goes into the log                    *)

vars == <<list, saved, entry>>

Change(by, c) == [by |-> by, command |-> {c}]
NoChange == [by |-> 0, command |-> {}]

Init == list = <<>> /\ saved = <<>> /\ entry = NoChange

Add(c) ==
  /\ list' = Append(list, c)
  /\ saved' = list
  /\ entry' = Change(1, c)

Delete(n) ==
  /\ n < Len(list)
  /\ list' = RemoveAt(list, n + 1)
  /\ saved' = <<>>
  /\ entry' = Change(-1, list[n + 1])

Saved == saved' = list /\ UNCHANGED <<list, entry>>

Logged == entry' = NoChange /\ UNCHANGED <<list, saved>>

Crash == list' = saved /\ entry' = NoChange /\ UNCHANGED saved

Next ==
  \/ \E c \in Commands : Add(c)
  \/ \E n \in 0 .. Len(list) : Delete(n)
  \/ Saved \/ Logged \/ Crash

Spec == Init /\ [][Next]_vars
=============================================================================
