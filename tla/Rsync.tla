------------------------------- MODULE Rsync --------------------------------
(***************************************************************************)
(* ssu_rsync/ssu_rsync.c: the files of the directory src that dst lacks,   *)
(* or has with another size or modification time, are copied over; what    *)
(* they replace is kept as <name>.swp until all are copied.  The command   *)
(* for a single file does something else (StartFile).                      *)
(*                                                                         *)
(* A step is one or two system calls on a file, so that SIGINT, a crash    *)
(* and a user who edits src may come between any two of them.  After a     *)
(* crash the command is run again (cron repeats it).                       *)
(***************************************************************************)
EXTENDS Naturals, SequencesExt

CONSTANTS
  Names,      (* the file names used in src and dst: sequences, see Swp    *)
  Contents,   (* what a file may hold, as far as src files are concerned   *)
  Empty,      (* the content of a file just opened with "w+"               *)
  SizeOf,     (* the size of each content                                  *)
  Copied,     (* what is left of it when fgets and fputs have copied it    *)
  Conflicts,  (* the names that may be directories in dst, one at a time    *)
  EditsTick,  (* whether the clock moves to another second for every edit  *)
  MaxTime,    (* bound: the clock                                          *)
  MaxTrouble, (* bounds: edits of src, deaths and commands for a single    *)
  MaxEdits, MaxDeaths, MaxSingles   (* file, together and of each kind     *)

Swp(n) == Append(n, "swp")
Paths == Names \cup {Swp(n) : n \in Names}

(* A name is a sequence of its parts; Swp adds one.                        *)
ASSUME NameAssumption == Names \subseteq Seq(STRING)

ASSUME FileAssumption ==
  /\ Empty \notin Contents
  /\ SizeOf \in [Contents \cup {Empty} -> Nat]
  /\ Copied \in [Contents -> Contents]
  /\ Conflicts \subseteq Paths
  /\ EditsTick \in BOOLEAN
  /\ {MaxTime, MaxTrouble, MaxEdits, MaxDeaths, MaxSingles} \subseteq Nat

VARIABLES
  src, dst,            (* the two directories                              *)
  now,                 (* the clock, in seconds                            *)
  pc,                  (* where the process is; "idle" when there is none  *)
  outcome,             (* how the last process ended                       *)
  todo,                (* the entries of src not yet compared              *)
  rm_list, add_list,   (* the names to remove and to add                   *)
  i,                   (* the index into the list being worked on          *)
  fp,                  (* what is read from the src file that is open      *)
  linked,              (* ... and whether it still has its name            *)
  st_mtime,            (* its modification time as stat returned it        *)
  started, quiet,      (* dst when the process started, and whether src    *)
                       (* has not been edited since                        *)
  copied,              (* the names it has copied completely               *)
  single,              (* whether it was started for a single file         *)
  edits, deaths, singles   (* how many of each so far                      *)

lists == <<todo, rm_list, add_list>>
open == <<fp, linked, st_mtime>>
ghosts == <<started, quiet, copied, single, singles>>
user == <<src, now, edits>>
vars == <<user, dst, pc, outcome, lists, i, open, ghosts, deaths>>

-----------------------------------------------------------------------------
Absent == [kind |-> "absent"]
Directory == [kind |-> "directory"]
File(data, mtime) == [kind |-> "file", data |-> data, mtime |-> mtime]
Files == [kind : {"file"}, data : Contents, mtime : Nat]
Entries == {Absent, Directory} \cup
           [kind : {"file"}, data : Contents \cup {Empty}, mtime : Nat]
IsFile(f) == f.kind = "file"
Dated(T) == {Absent} \cup {File(d, t) : d \in Contents, t \in T}

(* Faulty variant: the size is not compared.                               *)
SameTime(f, g) == f.mtime = g.mtime

(* What is taken for the same file.                                        *)
SameFile(f, g) == SizeOf[f.data] = SizeOf[g.data] /\ f.mtime = g.mtime

(* At the start dst has what earlier runs left: the same file as src has   *)
(* now, or one that is older.                                              *)
Init ==
  /\ now = 1
  /\ src \in [Names -> Dated({1})]
  /\ \E d0 \in [Names -> Dated(0 .. 1)],
        C \in {{}} \cup {{p} : p \in Conflicts} :
       /\ dst = [p \in Paths |-> IF p \in C THEN Directory
                                 ELSE IF p \in Names THEN d0[p] ELSE Absent]
       /\ \A n \in Names : IsFile(d0[n]) => d0[n].mtime = 0 \/ d0[n] = src[n]
  /\ pc = "idle"
  /\ outcome = "none"
  /\ todo = {} /\ rm_list = <<>> /\ add_list = <<>>
  /\ i = 1
  /\ fp = Empty /\ linked = FALSE /\ st_mtime = 0
  /\ started = dst /\ quiet = TRUE /\ copied = {}
  /\ single = FALSE /\ singles = 0
  /\ edits = 0
  /\ deaths = 0

-----------------------------------------------------------------------------
MoreTrouble == edits + deaths + singles < MaxTrouble

(* The user edits src: a file is written in place, or replaced or created  *)
(* under another inode, or deleted.  The clock moves with edits and        *)
(* between runs: times are only compared with each other.                  *)
Edited ==
  /\ edits < MaxEdits /\ MoreTrouble
  /\ edits' = edits + 1
  /\ now' \in IF EditsTick THEN {now + 1} ELSE {now, now + 1}
  /\ now' <= MaxTime
  /\ quiet' = FALSE
  /\ UNCHANGED <<dst, pc, outcome, rm_list, add_list, i, st_mtime, started, copied, single, singles, deaths>>

Reading(n) == pc \in {"add_stat", "add_truncate", "add_fill"} /\ add_list[i] = n

EditInPlace(n, d) ==
  /\ Edited
  /\ IsFile(src[n])
  /\ src' = [src EXCEPT ![n] = File(d, now')]
  /\ fp' = IF Reading(n) /\ linked THEN d ELSE fp
  /\ UNCHANGED <<todo, linked>>

(* An entry that appears or disappears while readdir is under way may be   *)
(* returned or not.                                                        *)
Replace(n, d) ==
  /\ Edited
  /\ src' = [src EXCEPT ![n] = File(d, now')]
  /\ todo' \in IF pc = "compare" /\ src[n] = Absent
                 THEN {todo, todo \cup {n}} ELSE {todo}
  /\ linked' = (linked /\ ~Reading(n))
  /\ UNCHANGED fp

Delete(n) ==
  /\ Edited
  /\ IsFile(src[n])
  /\ src' = [src EXCEPT ![n] = Absent]
  /\ todo' \in {todo, todo \ {n}}
  /\ linked' = (linked /\ ~Reading(n))
  /\ UNCHANGED fp

-----------------------------------------------------------------------------
End(how) ==
  /\ pc' = "idle"
  /\ outcome' = how

(* No src file is open, and what was known of one is of no use any more.   *)
Closed == fp' = Empty /\ linked' = FALSE /\ st_mtime' = 0

(* exit(1): everything in dst stays as it is.                              *)
Fail ==
  /\ End("failed") /\ Closed
  /\ UNCHANGED <<user, dst, lists, i, ghosts, deaths>>

(* The next label of a loop over list, or the label behind it.             *)
Loop(list, index, again, after) ==
  /\ i' = IF index <= Len(list) THEN index ELSE 1
  /\ pc' = IF index <= Len(list) THEN again ELSE after

AfterRemoving == IF add_list = <<>> THEN "finish" ELSE "add_open"

-----------------------------------------------------------------------------
(* rsync_dir: opendir, then the entries one by one, each looked up in dst. *)
Start ==
  /\ pc = "idle"
  /\ pc' = "compare"
  /\ todo' = {n \in Names : IsFile(src[n])}
  /\ rm_list' = <<>> /\ add_list' = <<>>
  /\ i' = 1
  /\ started' = dst /\ quiet' = TRUE /\ copied' = {}
  /\ single' = FALSE
  /\ outcome' = "none"
  /\ UNCHANGED <<user, dst, open, singles, deaths>>

(* rsync_file: the file asked for is ./name, so that src is also where the *)
(* program runs.  It is looked for as "/name", which no entry of dst is    *)
(* called; what is added instead is the entry of dst that readdir returns  *)
(* last: a name that src may lack, a .swp or "." (for which no copy can be *)
(* made).                                                                  *)
StartFile ==
  /\ pc = "idle" /\ singles < MaxSingles /\ MoreTrouble
  /\ singles' = singles + 1
  /\ \E n \in Names : IsFile(src[n])
  /\ todo' = {} /\ rm_list' = <<>>
  /\ i' = 1
  /\ started' = dst /\ quiet' = TRUE /\ copied' = {}
  /\ single' = TRUE
  /\ \/ /\ \E last \in Names : dst[last] # Absent /\ add_list' = <<last>>
        /\ pc' = "add_open"
        /\ outcome' = "none"
     \/ add_list' = <<>> /\ End("failed")
  /\ UNCHANGED <<user, dst, open, deaths>>

(* Faulty variant: a file that is replaced is not kept.                    *)
ListedUnkept(n) ==
  IF IsFile(dst[n])
    THEN [rm |-> <<>>, add |-> IF SameFile(src[n], dst[n]) THEN <<>> ELSE <<n>>]
    ELSE [rm |-> <<>>, add |-> <<n>>]

(* How the entry n of src is listed: not at all if dst has the same file,  *)
(* to be removed and added if dst has another file of that name, else to   *)
(* be added.                                                               *)
Listed(n) ==
  IF IsFile(dst[n])
    THEN IF SameFile(src[n], dst[n]) THEN [rm |-> <<>>, add |-> <<>>]
                                     ELSE [rm |-> <<n>>, add |-> <<n>>]
    ELSE [rm |-> <<>>, add |-> <<n>>]

Compare ==
  \E n \in todo :
    /\ pc = "compare"
    /\ \/ /\ IsFile(src[n])
          /\ todo' = todo \ {n}
          /\ rm_list' = rm_list \o Listed(n).rm
          /\ add_list' = add_list \o Listed(n).add
          /\ UNCHANGED <<user, dst, pc, outcome, i, open, ghosts, deaths>>
       \/ src[n] = Absent /\ Fail

CompareDone ==
  /\ pc = "compare"
  /\ todo = {}
  /\ pc' = IF rm_list = <<>> THEN AfterRemoving ELSE "rm_open"
  /\ UNCHANGED <<user, dst, outcome, lists, i, open, ghosts, deaths>>

-----------------------------------------------------------------------------
(* rsync, the files to remove: copied to .swp with their time, removed.    *)
InDst(p, f, next) ==
  /\ dst' = [dst EXCEPT ![p] = f]
  /\ pc' = next
  /\ UNCHANGED <<user, outcome, lists, i, open, ghosts, deaths>>

(* Faulty variant: a file that cannot be kept is skipped.                  *)
RmOpenSkipping ==
  LET n == rm_list[i]
      opened == IsFile(dst[n]) /\ dst[Swp(n)] # Directory IN
  /\ pc = "rm_open"
  /\ \/ opened /\ InDst(Swp(n), File(Empty, now), "rm_fill")
     \/ /\ ~opened
        /\ Loop(rm_list, i + 1, "rm_open", AfterRemoving)
        /\ UNCHANGED <<user, dst, outcome, lists, open, ghosts, deaths>>

RmOpen ==
  LET n == rm_list[i]
      opened == IsFile(dst[n]) /\ dst[Swp(n)] # Directory IN
  /\ pc = "rm_open"
  /\ \/ opened /\ InDst(Swp(n), File(Empty, now), "rm_fill")
     \/ ~opened /\ Fail

CopyOf(data) == IF data = Empty THEN Empty ELSE Copied[data]

RmFill ==
  LET n == rm_list[i] IN
  /\ pc = "rm_fill"
  /\ InDst(Swp(n), File(CopyOf(dst[n].data), now), "rm_utime")

RmUtime ==
  LET n == rm_list[i] IN
  /\ pc = "rm_utime"
  /\ InDst(Swp(n), [dst[Swp(n)] EXCEPT !.mtime = dst[n].mtime], "rm_remove")

RmRemove ==
  /\ pc = "rm_remove"
  /\ dst' = [dst EXCEPT ![rm_list[i]] = Absent]
  /\ Loop(rm_list, i + 1, "rm_open", AfterRemoving)
  /\ UNCHANGED <<user, outcome, lists, open, ghosts, deaths>>

-----------------------------------------------------------------------------
(* rsync, the files to add.                                                *)
AddOpen ==
  LET n == add_list[i] IN
  /\ pc = "add_open"
  /\ \/ /\ IsFile(src[n])
        /\ fp' = src[n].data
        /\ linked' = TRUE
        /\ pc' = "add_stat"
        /\ UNCHANGED <<user, dst, outcome, lists, i, st_mtime, ghosts, deaths>>
     \/ src[n] = Absent /\ Fail

AddStat ==
  LET n == add_list[i] IN
  /\ pc = "add_stat"
  /\ \/ /\ IsFile(src[n])
        /\ st_mtime' = src[n].mtime
        /\ pc' = "add_truncate"
        /\ UNCHANGED <<user, dst, outcome, lists, i, fp, linked, ghosts, deaths>>
     \/ src[n] = Absent /\ Fail

AddTruncate ==
  LET n == add_list[i] IN
  /\ pc = "add_truncate"
  /\ \/ dst[n] # Directory /\ InDst(n, File(Empty, now), "add_fill")
     \/ dst[n] = Directory /\ Fail

AddFill ==
  LET n == add_list[i] IN
  /\ pc = "add_fill"
  /\ dst' = [dst EXCEPT ![n] = File(Copied[fp], now)]
  /\ copied' = copied \cup {n}
  /\ fp' = Empty /\ linked' = FALSE             \* fclose(fp)
  /\ pc' = "add_utime"
  /\ UNCHANGED <<user, outcome, lists, i, st_mtime, started, quiet, single, singles, deaths>>

AddUtime ==
  /\ pc = "add_utime"
  /\ dst' = [dst EXCEPT ![add_list[i]].mtime = st_mtime]
  /\ Loop(add_list, i + 1, "add_open", "finish")
  /\ Closed
  /\ UNCHANGED <<user, outcome, lists, ghosts, deaths>>

-----------------------------------------------------------------------------
(* The synchronisation is over: only now is the SIGINT handler installed.  *)
Finish ==
  /\ pc = "finish"
  /\ i' = 1
  /\ pc' = "remove_swp"
  /\ UNCHANGED <<user, dst, outcome, lists, open, ghosts, deaths>>

HandlerInstalled == pc = "remove_swp"

(* Faulty variant: the last .swp is left behind.                           *)
RemoveSwpShort ==
  /\ pc = "remove_swp"
  /\ \/ /\ i < Len(rm_list)
        /\ dst' = [dst EXCEPT ![Swp(rm_list[i])] = Absent]
        /\ i' = i + 1
        /\ UNCHANGED <<pc, outcome>>
     \/ /\ i >= Len(rm_list)
        /\ End("done")
        /\ UNCHANGED <<dst, i>>
  /\ UNCHANGED <<user, lists, open, ghosts, deaths>>

(* remove_swp, then the log is written and the process exits.              *)
RemoveSwp ==
  /\ pc = "remove_swp"
  /\ \/ /\ i <= Len(rm_list)
        /\ dst' = [dst EXCEPT ![Swp(rm_list[i])] = Absent]
        /\ i' = i + 1
        /\ UNCHANGED <<pc, outcome>>
     \/ /\ i > Len(rm_list)
        /\ End("done")
        /\ UNCHANGED <<dst, i>>
  /\ UNCHANGED <<user, lists, open, ghosts, deaths>>

-----------------------------------------------------------------------------
(* What the process knew is gone.  The command is run again in the same    *)
(* second or later.                                                        *)
Dies(how) ==
  /\ pc # "idle"
  /\ deaths < MaxDeaths /\ MoreTrouble
  /\ deaths' = deaths + 1
  /\ End(how) /\ Closed
  /\ todo' = {} /\ rm_list' = <<>> /\ i' = 1
  /\ now' \in {now, now + 1} /\ now' <= MaxTime
  /\ UNCHANGED <<src, edits, add_list, ghosts>>

(* The process is killed, or the machine goes down.                        *)
Crash == Dies("crashed") /\ UNCHANGED dst

(* ssu_signal_handler: files that are gone come back from their .swp; the  *)
(* files copied are not removed, because access() never returns more than  *)
(* 0.  Before the handler is installed SIGINT just ends the process.       *)
RolledBack ==
  LET gone == {n \in ToSet(rm_list) : dst[n] = Absent /\ dst[Swp(n)] # Absent} IN
  [p \in Paths |-> IF p \in gone THEN dst[Swp(p)]
                   ELSE IF \E n \in gone : p = Swp(n) THEN Absent ELSE dst[p]]

Interrupt ==
  /\ Dies("interrupted")
  /\ dst' = IF HandlerInstalled THEN RolledBack ELSE dst

-----------------------------------------------------------------------------
Process ==
  \/ Compare \/ CompareDone
  \/ RmOpen \/ RmFill \/ RmUtime \/ RmRemove
  \/ AddOpen \/ AddStat \/ AddTruncate \/ AddFill \/ AddUtime
  \/ Finish \/ RemoveSwp

Editor ==
  \E n \in Names :
    \/ \E d \in Contents : EditInPlace(n, d) \/ Replace(n, d)
    \/ Delete(n)

Next ==
  \/ Start \/ StartFile \/ Process
  \/ Editor
  \/ Crash \/ Interrupt

Spec == Init /\ [][Next]_vars

(* The process is scheduled, and the command is run again and again.       *)
FairSpec == Spec /\ WF_vars(Process \/ Start)

-----------------------------------------------------------------------------
(* Properties                                                              *)

Removing == {"rm_open", "rm_fill", "rm_utime", "rm_remove"}
Adding == {"add_open", "add_stat", "add_truncate", "add_fill", "add_utime"}

TypeOK ==
  /\ src \in [Names -> {Absent} \cup Files]
  /\ dst \in [Paths -> Entries] /\ started \in [Paths -> Entries]
  /\ now \in Nat /\ st_mtime \in Nat
  /\ edits \in Nat /\ deaths \in Nat /\ singles \in Nat
  /\ pc \in {"idle", "compare", "finish", "remove_swp"} \cup Removing \cup Adding
  /\ outcome \in {"none", "done", "failed", "crashed", "interrupted"}
  /\ todo \subseteq Names /\ copied \subseteq Names
  /\ rm_list \in Seq(Names) /\ add_list \in Seq(Names)
  /\ i \in Nat \ {0}
  /\ fp \in Contents \cup {Empty}
  /\ linked \in BOOLEAN /\ quiet \in BOOLEAN /\ single \in BOOLEAN

Version(f, data) == IsFile(f) /\ f.data = data

(* Whatever stops the process, and wherever: of every file that dst held   *)
(* when it started, dst still has the old content, as the file or as its   *)
(* .swp, or already has the complete new one.  Not so the entry that the   *)
(* command for a single file came upon: it is overwritten as it is.        *)
NoVersionLost ==
  \A n \in Names : IsFile(started[n]) =>
    \/ Version(dst[n], started[n].data)
    \/ Version(dst[Swp(n)], started[n].data)
    \/ n \in copied /\ IsFile(dst[n]) /\ dst[n].data # Empty
    \/ single /\ add_list = <<n>>

(* A run that ends well, with nobody editing src meanwhile, leaves in dst  *)
(* every file of src, with its content and its time, whatever earlier runs *)
(* left there when they died; for a single file it leaves the one it took. *)
DoneMeansSynced ==
  outcome = "done" /\ pc = "idle" /\ quiet =>
    \A n \in IF single THEN ToSet(add_list) ELSE Names : IsFile(src[n]) => dst[n] = src[n]

(* ... and changes nothing else in dst: what src does not have, or has in  *)
(* the same version, is left alone, and every .swp it made is gone.        *)
OnlyListedChange ==
  outcome = "done" /\ pc = "idle" =>
    \A p \in Paths \ ToSet(add_list) :
      dst[p] = IF \E n \in ToSet(rm_list) : p = Swp(n) THEN Absent ELSE started[p]

(* However often the process dies, also when it has just truncated the     *)
(* .swp that an earlier death left, and whatever is edited meanwhile: dst  *)
(* ends up with the files of src if the command is run again, provided     *)
(* that no directory in dst has the name of a file or of its .swp.         *)
InSync == \A n \in Names : IsFile(src[n]) => IsFile(dst[n]) /\ dst[n].data = src[n].data
Converges == <>[]((\A p \in Paths : dst[p] # Directory) => InSync)

(* A directory of dst is never touched, not even one that is called like   *)
(* the .swp of a file (remove() would remove it if it is empty).           *)
DirectoriesKept ==
  [][\A p \in Paths : dst[p] = Directory => dst'[p] = Directory]_dst

(* "On SIGINT the synchronisation is stopped and dst is put back as it     *)
(* was" (ssu_rsync.c:359).                                                 *)
RestoredOnSigint ==
  outcome = "interrupted" /\ pc = "idle" => dst = started
=============================================================================
