---------------------------- MODULE RsyncProofs ----------------------------
(***************************************************************************)
(* Theorems about Rsync, for all files, contents and bounds.               *)
(***************************************************************************)
EXTENDS Rsync, SequenceTheorems, TLAPS

-----------------------------------------------------------------------------
(* What always holds.                                                      *)

(* Where the process is in its lists, and what is open there.              *)
Place ==
  /\ pc = "compare" => i = 1 /\ dst = started /\ ~single
  /\ pc \in Removing => i \in 1 .. Len(rm_list)
  /\ pc \in Adding => i \in 1 .. Len(add_list)
  /\ pc \in {"rm_fill", "rm_utime", "rm_remove"} =>
       IsFile(dst[rm_list[i]]) /\ IsFile(dst[Swp(rm_list[i])])
  /\ pc \in {"add_stat", "add_truncate", "add_fill"} => fp \in Contents
  /\ pc \in {"add_fill", "add_utime"} => IsFile(dst[add_list[i]])

(* What is removed is added again, and was a file; what is added and was a *)
(* file is removed first, but for the command for a single file.           *)
Listing ==
  /\ \A n \in ToSet(rm_list) : n \in ToSet(add_list) /\ IsFile(started[n])
  /\ single => rm_list = <<>> /\ Len(add_list) <= 1
  /\ pc # "idle" /\ ~single =>
       \A n \in ToSet(add_list) : IsFile(started[n]) => n \in ToSet(rm_list)

(* The directories of dst are those it had, and a .swp that has been       *)
(* opened is none of them.                                                 *)
Directories ==
  /\ \A p \in Paths : dst[p] = Directory <=> started[p] = Directory
  /\ pc \in Removing =>
       \A j \in 1 .. i - 1 : started[Swp(rm_list[j])] # Directory
  /\ pc \in Adding \cup {"finish", "remove_swp"} =>
       \A n \in ToSet(rm_list) : started[Swp(n)] # Directory

(* Besides the files listed only their .swp are touched.                   *)
OnlyListed ==
  /\ pc # "idle" => \A p \in Paths \ ToSet(add_list) :
                      dst[p] = started[p] \/ \E n \in ToSet(rm_list) : p = Swp(n)
  /\ pc = "remove_swp" => \A j \in 1 .. i - 1 :
       Swp(rm_list[j]) \notin ToSet(add_list) => dst[Swp(rm_list[j])] = Absent

BasicInv == TypeOK /\ Place /\ Listing /\ Directories /\ OnlyListed /\ OnlyListedChange

-----------------------------------------------------------------------------
(* No file of src is called like a .swp.                                   *)
NoSwpNames == \A n \in Names : Swp(n) \notin Names

(* The contents are text: fgets and fputs copy them as they are.           *)
TextOnly == \A d \in Contents : Copied[d] = d

Ahead(list, n) == \E j \in i .. Len(list) : list[j] = n
Complete(n) == n \in copied /\ IsFile(dst[n]) /\ dst[n].data # Empty

(* The old version of a file listed stays where it is until its .swp has   *)
(* been filled, and there until the new version is complete.               *)
Kept ==
  /\ pc \in {"compare"} \cup Removing =>
       \A n \in Names : IsFile(dst[n]) => dst[n] = started[n]
  /\ pc \in {"rm_utime", "rm_remove"} =>
       dst[Swp(rm_list[i])].data = dst[rm_list[i]].data
  /\ pc \in Removing => \A n \in ToSet(rm_list) :
       Ahead(rm_list, n) \/ Version(dst[Swp(n)], started[n].data)
  /\ pc \in Adding \cup {"finish"} => \A n \in ToSet(rm_list) :
       Version(dst[Swp(n)], started[n].data)
  /\ pc \in Adding => \A n \in ToSet(add_list) : Ahead(add_list, n) \/ Complete(n)
  /\ pc = "add_utime" => Complete(add_list[i])
  /\ pc \in {"finish", "remove_swp"} => \A n \in ToSet(add_list) : Complete(n)
  /\ single => \A n \in Names \ ToSet(add_list) : dst[n] = started[n]

KeptInv == BasicInv /\ Kept /\ NoVersionLost

-----------------------------------------------------------------------------
(* Versions of a file differ in size.                                      *)
SizesDiffer == \A c, d \in Contents \cup {Empty} : SizeOf[c] = SizeOf[d] => c = d

(* As long as src is not edited, each of its files is still to be looked   *)
(* at, listed, or in dst; what is copied is what src has.                  *)
Synced ==
  quiet /\ pc # "idle" =>
    /\ ~single => \A n \in Names : IsFile(src[n]) =>
         (pc = "compare" /\ n \in todo) \/ n \in ToSet(add_list) \/ dst[n] = src[n]
    /\ pc \in Adding => \A n \in ToSet(add_list) : Ahead(add_list, n) \/ dst[n] = src[n]
    /\ pc \in {"finish", "remove_swp"} => \A n \in ToSet(add_list) : dst[n] = src[n]
    /\ pc \in Adding \ {"add_open"} => IsFile(src[add_list[i]])
    /\ pc \in {"add_stat", "add_truncate", "add_fill"} => fp = src[add_list[i]].data
    /\ pc \in {"add_truncate", "add_fill", "add_utime"} =>
         st_mtime = src[add_list[i]].mtime
    /\ pc = "add_utime" => dst[add_list[i]].data = src[add_list[i]].data

SyncedInv == KeptInv /\ Synced /\ DoneMeansSynced

-----------------------------------------------------------------------------
(* Names and the .swp made of them.                                        *)
LEMMA SwpNames ==
  /\ \A n \in Names : n \in Paths /\ Swp(n) \in Paths /\ Swp(n) # n
  /\ \A n, m \in Names : Swp(n) = Swp(m) => n = m
<1> USE NameAssumption
<1>1. ASSUME NEW n \in Names, NEW m \in Names
      PROVE  Swp(n) # n /\ (Swp(n) = Swp(m) => n = m)
  <2> DEFINE Parts == STRING \cup {"swp"}
  <2>1. n \in Seq(Parts) /\ m \in Seq(Parts) /\ "swp" \in Parts
    <3>1. n \in Seq(STRING) /\ m \in Seq(STRING) /\ STRING \subseteq Parts
      OBVIOUS
    <3> QED
      BY <3>1, SeqMonotonic
  <2> HIDE DEF Parts
  <2>2. Len(Swp(n)) = Len(n) + 1 /\ Len(n) \in Nat
    BY <2>1, AppendProperties, LenProperties DEF Swp
  <2>3. Swp(n) = Swp(m) => n = m
    BY <2>1, AppendInjective DEF Swp
  <2> QED
    BY <2>2, <2>3
<1> QED
  BY <1>1 DEF Paths

LEMMA Elements ==
  /\ \A s \in Seq(Names) : /\ ToSet(s) = {s[j] : j \in 1 .. Len(s)}
                           /\ ToSet(s) \subseteq Names
                           /\ Len(s) \in Nat
                           /\ \A j \in 1 .. Len(s) : s[j] \in Names /\ s[j] \in ToSet(s)
  /\ ToSet(<<>>) = {}
<1>1. ASSUME NEW s \in Seq(Names)
      PROVE  DOMAIN s = 1 .. Len(s) /\ Len(s) \in Nat /\ \A j \in 1 .. Len(s) : s[j] \in Names
  BY LenProperties, ElementOfSeq
<1> QED
  BY <1>1 DEF ToSet

LEMMA Concatenated ==
  ASSUME NEW s \in Seq(Names), NEW n \in Names
  PROVE  /\ <<>> \in Seq(Names) /\ <<n>> \in Seq(Names)
         /\ s \o <<>> = s
         /\ s \o <<n>> \in Seq(Names)
         /\ ToSet(s \o <<n>>) = ToSet(s) \cup {n}
<1>1. <<n>> \in Seq(Names) /\ Len(<<n>>) = 1 /\ <<n>>[1] = n
  OBVIOUS
<1>2. /\ s \o <<n>> \in Seq(Names)
      /\ Len(s \o <<n>>) = Len(s) + 1
      /\ \A j \in 1 .. Len(s) + 1 : (s \o <<n>>)[j] = IF j <= Len(s) THEN s[j] ELSE n
  BY <1>1, ConcatProperties, LenProperties
<1>3. ToSet(s \o <<n>>) = ToSet(s) \cup {n}
  <2>1. Len(s) \in Nat
    BY LenProperties
  <2> DEFINE t == s \o <<n>>
  <2>1a. t \in Seq(Names) /\ Len(t) = Len(s) + 1
    BY <1>2
  <2> HIDE DEF t
  <2>1b. ToSet(t) = {t[j] : j \in 1 .. Len(s) + 1}
    BY <2>1a, Elements
  <2>2. \A x : x \in ToSet(t) <=> \E j \in 1 .. Len(s) + 1 : t[j] = x
    BY <2>1b
  <2> USE DEF t
  <2>3. \A x : x \in ToSet(s) <=> \E j \in 1 .. Len(s) : s[j] = x
    BY Elements
  <2>4. \A x : x \in ToSet(s \o <<n>>) <=> x \in ToSet(s) \/ x = n
    BY <1>2, <2>1, <2>2, <2>3
  <2> QED
    BY <2>4
<1>4. s \o <<>> = s
  BY ConcatEmptySeq
<1> QED
  BY <1>1, <1>2, <1>3, <1>4

(* What an entry of dst may be.                                            *)
LEMMA EntryKinds ==
  /\ \A f \in Entries : /\ f.kind \in {"absent", "directory", "file"}
                        /\ f.kind = "directory" <=> f = Directory
                        /\ f.kind = "absent" <=> f = Absent
                        /\ IsFile(f) => /\ f.data \in Contents \cup {Empty} /\ f.mtime \in Nat
                                        /\ f = File(f.data, f.mtime)
  /\ Absent \in Entries /\ ~IsFile(Absent) /\ ~IsFile(Directory) /\ Directory # Absent
  /\ {Absent} \cup Files \subseteq Entries \ {Directory}
BY DEF Entries, Files, File, Absent, Directory, IsFile

LEMMA FileType ==
  ASSUME NEW d, NEW t
  PROVE  /\ IsFile(File(d, t)) /\ File(d, t).data = d /\ File(d, t).mtime = t
         /\ d \in Contents /\ t \in Nat => File(d, t) \in Files
         /\ d \in Contents \cup {Empty} /\ t \in Nat => File(d, t) \in Entries \ {Directory}
BY DEF Entries, Files, File, Directory, IsFile

LEMMA DatedType ==
  /\ Dated({1}) \subseteq {Absent} \cup Files
  /\ Dated(0 .. 1) \subseteq Entries
<1>1. \A d \in Contents, t \in 0 .. 1 :
        File(d, t) \in Files /\ File(d, t) \in Entries /\ File(d, 1) \in Files
  BY FileType
<1> QED
  BY <1>1, EntryKinds DEF Dated

-----------------------------------------------------------------------------
LEMMA BasicInit == Init => BasicInv
<1> SUFFICES ASSUME Init PROVE BasicInv
  OBVIOUS
<1> USE FileAssumption
<1>1. TypeOK
  <2>1. src \in [Names -> {Absent} \cup Files]
    BY DatedType DEF Init
  <2>2. dst \in [Paths -> Entries] /\ started = dst
    <3>1. PICK d0 \in [Names -> Dated(0 .. 1)], C \in {{}} \cup {{p} : p \in Conflicts} :
            dst = [p \in Paths |-> IF p \in C THEN Directory
                                   ELSE IF p \in Names THEN d0[p] ELSE Absent]
      BY Zenon DEF Init
    <3>2. \A n \in Names : d0[n] \in Entries
      BY <3>1, DatedType
    <3>3. Directory \in Entries /\ Absent \in Entries
      BY DEF Entries
    <3> QED
      BY <3>1, <3>2, <3>3 DEF Init
  <2>3. rm_list \in Seq(Names) /\ add_list \in Seq(Names)
    BY DEF Init
  <2>4. /\ now = 1 /\ pc = "idle" /\ outcome = "none" /\ todo = {} /\ copied = {} /\ i = 1
        /\ fp = Empty /\ linked = FALSE /\ quiet = TRUE /\ single = FALSE
        /\ st_mtime = 0 /\ edits = 0 /\ deaths = 0 /\ singles = 0
    BY DEF Init
  <2> QED
    <3>1. dst \in [Paths -> Entries] /\ started \in [Paths -> Entries]
      BY <2>2
    <3>2. now \in Nat /\ st_mtime \in Nat /\ edits \in Nat /\ deaths \in Nat /\ singles \in Nat
      BY <2>4
    <3>3. linked \in BOOLEAN /\ quiet \in BOOLEAN /\ single \in BOOLEAN
      BY <2>4
    <3>4. /\ pc \in {"idle", "compare", "finish", "remove_swp"} \cup Removing \cup Adding
          /\ outcome \in {"none", "done", "failed", "crashed", "interrupted"}
          /\ todo \subseteq Names /\ copied \subseteq Names
          /\ i \in Nat \ {0} /\ fp \in Contents \cup {Empty}
      BY <2>4
    <3> QED
      BY <2>1, <2>3, <3>1, <3>2, <3>3, <3>4 DEF TypeOK
<1>2. ToSet(rm_list) = {}
  BY Elements DEF Init
<1> QED
  BY <1>1, <1>2 DEF Init, BasicInv, Place, Listing, Directories, OnlyListed,
     OnlyListedChange, Removing, Adding

(* The user changes src, the clock and what readdir is going to return.    *)
LEMMA BasicEditor ==
  ASSUME BasicInv, Editor
  PROVE  BasicInv'
<1> USE FileAssumption
<1>1. PICK n \in Names : (\E d \in Contents : EditInPlace(n, d) \/ Replace(n, d)) \/ Delete(n)
  BY DEF Editor
<1>a. Edited
  BY <1>1 DEF EditInPlace, Replace, Delete
<1>2. /\ UNCHANGED <<dst, pc, outcome, rm_list, add_list, i, st_mtime, started, copied,
                    single, singles, deaths>>
      /\ now' \in Nat /\ edits' \in Nat /\ quiet' = FALSE
  BY <1>a DEF Edited, BasicInv, TypeOK
<1>3. /\ src' \in [Names -> {Absent} \cup Files]
      /\ todo' \in SUBSET Names
      /\ fp' \in Contents \cup {Empty}
      /\ linked' \in BOOLEAN
      /\ fp \in Contents => fp' \in Contents
  <2>1. \A d \in Contents : File(d, now') \in Files
    BY <1>2 DEF File, Files
  <2> QED
    BY <1>1, <2>1 DEF EditInPlace, Replace, Delete, BasicInv, TypeOK
<1>4. TypeOK'
  BY <1>2, <1>3 DEF BasicInv, TypeOK
<1>5. Place'
  BY <1>2, <1>3 DEF BasicInv, Place
<1> QED
  BY <1>2, <1>4, <1>5 DEF BasicInv, Listing, Directories, OnlyListed, OnlyListedChange

(* The process ends: no list is being worked on any more.                  *)
LEMMA BasicEnd ==
  ASSUME BasicInv, pc # "idle", pc' = "idle", outcome' \in {"failed", "crashed", "interrupted"},
         TypeOK', \A p \in Paths : dst'[p] = Directory <=> dst[p] = Directory,
         rm_list' = rm_list \/ rm_list' = <<>>,
         UNCHANGED <<add_list, started, single>>
  PROVE  BasicInv'
<1>1. \A n \in ToSet(rm_list') : n \in ToSet(rm_list)
  BY Elements
<1> QED
  BY <1>1 DEF BasicInv, Place, Listing, Directories, OnlyListed, OnlyListedChange,
              Removing, Adding

LEMMA BasicFail ==
  ASSUME BasicInv, pc # "idle", Fail
  PROVE  BasicInv'
<1>1. TypeOK'
  BY DEF Fail, End, Closed, user, lists, ghosts, BasicInv, TypeOK
<1> QED
  BY <1>1, BasicEnd DEF Fail, End, lists, ghosts

LEMMA BasicStart ==
  ASSUME BasicInv, Start
  PROVE  BasicInv'
<1>1. <<>> \in Seq(Names) /\ ToSet(<<>>) = {} /\ Len(<<>>) = 0
  BY Elements
<1>2. TypeOK'
  <2>1. UNCHANGED <<src, dst, now, edits, fp, linked, st_mtime, singles, deaths>> /\ started' = dst
    BY DEF Start, user, open
  <2>2. /\ rm_list' \in Seq(Names) /\ add_list' \in Seq(Names)
        /\ todo' \subseteq Names /\ copied' \subseteq Names
    BY <1>1 DEF Start
  <2>3. i' = 1 /\ pc' = "compare" /\ outcome' = "none"
    BY DEF Start
  <2>4. quiet' \in BOOLEAN /\ single' \in BOOLEAN
    BY DEF Start
  <2> QED
    BY <2>1, <2>2, <2>3, <2>4 DEF BasicInv, TypeOK
<1> QED
  BY <1>1, <1>2 DEF Start, user, open, BasicInv, Place, Listing, Directories, OnlyListed,
                    OnlyListedChange, Removing, Adding

LEMMA BasicStartFile ==
  ASSUME BasicInv, StartFile
  PROVE  BasicInv'
<1>1. <<>> \in Seq(Names) /\ ToSet(<<>>) = {} /\ Len(<<>>) = 0
  BY Elements
<1>2. /\ add_list' \in Seq(Names) /\ Len(add_list') <= 1
      /\ pc' = "add_open" => Len(add_list') = 1
      /\ pc' = "add_open" \/ pc' = "idle"
      /\ outcome' \in {"none", "failed"}
  <2>1. CASE pc' = "add_open"
    <3>1. outcome' = "none" /\ \E last \in Names : add_list' = <<last>>
      BY <2>1 DEF StartFile, End
    <3>2. PICK last \in Names : add_list' = <<last>>
      BY <3>1
    <3>3. add_list' \in Seq(Names) /\ Len(add_list') = 1
      BY <3>2
    <3> QED
      BY <2>1, <3>1, <3>3
  <2>2. CASE pc' # "add_open"
    <3>1. pc' = "idle" /\ outcome' = "failed" /\ add_list' = <<>>
      BY <2>2 DEF StartFile, End
    <3> QED
      BY <1>1, <3>1
  <2> QED
    BY <2>1, <2>2
<1>3. TypeOK'
  BY <1>1, <1>2 DEF StartFile, user, open, BasicInv, TypeOK, Adding
<1> QED
  BY <1>1, <1>2, <1>3 DEF StartFile, user, open, BasicInv, Place, Listing, Directories,
                          OnlyListed, OnlyListedChange, Removing, Adding

LEMMA BasicCompare ==
  ASSUME BasicInv, Compare
  PROVE  BasicInv'
<1>1. PICK n \in todo :
        /\ pc = "compare"
        /\ \/ /\ IsFile(src[n])
              /\ todo' = todo \ {n}
              /\ rm_list' = rm_list \o Listed(n).rm
              /\ add_list' = add_list \o Listed(n).add
              /\ UNCHANGED <<user, dst, pc, outcome, i, open, ghosts, deaths>>
           \/ src[n] = Absent /\ Fail
  BY DEF Compare
<1>2. CASE Fail
  BY <1>1, <1>2, BasicFail
<1>3. CASE ~Fail
  <2>1. n \in Names /\ rm_list \in Seq(Names) /\ add_list \in Seq(Names)
    BY DEF BasicInv, TypeOK
  <2>2. /\ rm_list' \in Seq(Names) /\ add_list' \in Seq(Names)
        /\ \/ ToSet(rm_list') = ToSet(rm_list) /\ ToSet(add_list') = ToSet(add_list)
           \/ /\ ToSet(rm_list') = ToSet(rm_list) \cup {n} /\ IsFile(dst[n])
              /\ ToSet(add_list') = ToSet(add_list) \cup {n}
           \/ /\ ToSet(rm_list') = ToSet(rm_list) /\ ~IsFile(dst[n])
              /\ ToSet(add_list') = ToSet(add_list) \cup {n}
    BY <1>1, <1>3, <2>1, Concatenated DEF Listed
  <2>3. TypeOK'
    BY <1>1, <1>3, <2>2 DEF BasicInv, TypeOK, user, open, ghosts
  <2> QED
    BY <1>1, <1>3, <2>2, <2>3 DEF user, open, ghosts, BasicInv, Place, Listing, Directories,
                      OnlyListed, OnlyListedChange, Removing, Adding
<1> QED
  BY <1>2, <1>3

(* A list is gone through from its first element.                          *)
LEMMA AfterRemovingPlace ==
  ASSUME TypeOK, pc' = AfterRemoving, i' = 1, UNCHANGED add_list
  PROVE  /\ pc' \in {"finish", "add_open"}
         /\ pc' = "add_open" => i' \in 1 .. Len(add_list)
<1>1. add_list # <<>> => Len(add_list) \in Nat \ {0}
  BY EmptySeq DEF TypeOK
<1> QED
  BY <1>1 DEF AfterRemoving

LEMMA BasicCompareDone ==
  ASSUME BasicInv, CompareDone
  PROVE  BasicInv'
<1>1. rm_list # <<>> => Len(rm_list) \in Nat \ {0}
  BY EmptySeq DEF BasicInv, TypeOK
<1>2. /\ UNCHANGED <<user, dst, outcome, lists, i, open, ghosts, deaths>>
      /\ i = 1
      /\ pc = "compare"
  BY DEF CompareDone, BasicInv, Place
<1>3. /\ pc' \in {"rm_open", "add_open", "finish"}
      /\ pc' = "rm_open" => i' \in 1 .. Len(rm_list)
      /\ pc' = "add_open" => i' \in 1 .. Len(add_list)
      /\ pc' # "rm_open" => ToSet(rm_list) = {}
  BY <1>1, <1>2, AfterRemovingPlace, Elements DEF CompareDone, BasicInv, lists
<1>4. TypeOK'
  BY <1>2, <1>3 DEF BasicInv, TypeOK, user, lists, open, ghosts, Removing, Adding
<1> QED
  BY <1>2, <1>3, <1>4 DEF user, lists, open, ghosts, BasicInv, Place, Listing, Directories,
       OnlyListed, OnlyListedChange, Removing, Adding

(* What writing one entry of dst changes.                                  *)
LEMMA Write ==
  ASSUME BasicInv, NEW p \in Paths, NEW f \in Entries \ {Directory},
         dst[p] # Directory, dst' = [dst EXCEPT ![p] = f]
  PROVE  /\ dst' \in [Paths -> Entries]
         /\ \A q \in Paths : dst'[q] = IF q = p THEN f ELSE dst[q]
         /\ \A q \in Paths : dst'[q] = Directory <=> dst[q] = Directory
BY DEF BasicInv, TypeOK

(* The file worked on.                                                     *)
LEMMA Current ==
  ASSUME BasicInv
  PROVE  /\ pc \in Removing => /\ rm_list[i] \in Names
                              /\ rm_list[i] \in ToSet(rm_list)
                              /\ rm_list[i] \in Paths /\ Swp(rm_list[i]) \in Paths
                              /\ Swp(rm_list[i]) # rm_list[i]
         /\ pc \in Adding => /\ add_list[i] \in Names
                            /\ add_list[i] \in ToSet(add_list)
                            /\ add_list[i] \in Paths
BY Elements, SwpNames DEF BasicInv, TypeOK, Place

(* Whatever file the .swp of the current file becomes.                     *)
LEMMA BasicKeeping ==
  ASSUME BasicInv, pc \in Removing, IsFile(dst[rm_list[i]]), dst[Swp(rm_list[i])] # Directory,
         NEW f \in Entries \ {Directory}, IsFile(f), dst' = [dst EXCEPT ![Swp(rm_list[i])] = f],
         pc' \in {"rm_fill", "rm_utime", "rm_remove"},
         UNCHANGED <<user, outcome, lists, i, open, ghosts, deaths>>
  PROVE  BasicInv'
<1> DEFINE n == rm_list[i]
<1>1. n \in Names /\ n \in ToSet(rm_list) /\ n \in Paths /\ Swp(n) \in Paths /\ Swp(n) # n
  BY Current
<1>2. /\ dst' \in [Paths -> Entries]
      /\ \A q \in Paths : dst'[q] = IF q = Swp(n) THEN f ELSE dst[q]
      /\ \A q \in Paths : dst'[q] = Directory <=> dst[q] = Directory
  BY <1>1, Write
<1>3. TypeOK'
  BY <1>2 DEF BasicInv, TypeOK, user, lists, open, ghosts, Removing
<1>4. Place'
  BY <1>1, <1>2 DEF BasicInv, Place, lists, Removing, Adding
<1>5. Directories'
  BY <1>2 DEF BasicInv, Directories, lists, ghosts, Removing, Adding
<1>6. OnlyListed' /\ OnlyListedChange'
  BY <1>1, <1>2 DEF BasicInv, OnlyListed, OnlyListedChange, lists, ghosts, Removing
<1> QED
  BY <1>3, <1>4, <1>5, <1>6 DEF BasicInv, Listing, lists, ghosts, Removing

LEMMA BasicRmOpen ==
  ASSUME BasicInv, RmOpen
  PROVE  BasicInv'
<1>1. CASE Fail
  BY <1>1, BasicFail DEF RmOpen
<1>2. CASE ~Fail
  <2>1. File(Empty, now) \in Entries \ {Directory} /\ IsFile(File(Empty, now))
    BY FileType DEF BasicInv, TypeOK
  <2> QED
    BY <1>2, <2>1, BasicKeeping DEF RmOpen, InDst, Removing
<1> QED
  BY <1>1, <1>2

LEMMA CopyType ==
  ASSUME NEW d \in Contents \cup {Empty}
  PROVE  CopyOf(d) \in Contents \cup {Empty}
BY FileAssumption DEF CopyOf

LEMMA BasicRmFill ==
  ASSUME BasicInv, RmFill
  PROVE  BasicInv'
<1> DEFINE n == rm_list[i]
           f == File(CopyOf(dst[n].data), now)
<1>1. n \in Paths /\ Swp(n) \in Paths /\ IsFile(dst[n]) /\ IsFile(dst[Swp(n)])
  BY Current DEF RmFill, Removing, BasicInv, Place
<1>2. dst[n] \in Entries /\ dst[Swp(n)] # Directory
  BY <1>1, EntryKinds DEF BasicInv, TypeOK
<1>3. CopyOf(dst[n].data) \in Contents \cup {Empty}
  BY <1>1, <1>2, EntryKinds, CopyType
<1>4. f \in Entries \ {Directory} /\ IsFile(f)
  BY <1>3, FileType DEF BasicInv, TypeOK
<1> QED
  BY <1>1, <1>2, <1>4, BasicKeeping DEF RmFill, InDst, Removing

(* A file that is given a time.                                            *)
LEMMA Redate ==
  ASSUME NEW f \in Entries, IsFile(f), NEW t \in Nat
  PROVE  /\ [f EXCEPT !.mtime = t] = File(f.data, t)
         /\ [f EXCEPT !.mtime = t] \in Entries \ {Directory}
         /\ IsFile([f EXCEPT !.mtime = t])
         /\ [f EXCEPT !.mtime = t].data = f.data
<1>1. f = File(f.data, f.mtime) /\ f.data \in Contents \cup {Empty}
  BY EntryKinds
<1>2. [f EXCEPT !.mtime = t] = File(f.data, t)
  BY <1>1 DEF File
<1> QED
  BY <1>1, <1>2, FileType

LEMMA BasicRmUtime ==
  ASSUME BasicInv, RmUtime
  PROVE  BasicInv'
<1> DEFINE n == rm_list[i]
           f == [dst[Swp(n)] EXCEPT !.mtime = dst[n].mtime]
<1>1. n \in Paths /\ Swp(n) \in Paths /\ IsFile(dst[n]) /\ IsFile(dst[Swp(n)])
  BY Current DEF RmUtime, Removing, BasicInv, Place
<1>2. dst[n] \in Entries /\ dst[Swp(n)] \in Entries /\ dst[Swp(n)] # Directory
  BY <1>1, EntryKinds DEF BasicInv, TypeOK
<1>3. f \in Entries \ {Directory} /\ IsFile(f)
  BY <1>1, <1>2, EntryKinds, Redate
<1> QED
  BY <1>1, <1>2, <1>3, BasicKeeping DEF RmUtime, InDst, Removing

LEMMA BasicRmRemove ==
  ASSUME BasicInv, RmRemove
  PROVE  BasicInv'
<1> DEFINE n == rm_list[i]
<1>1. n \in Names /\ n \in ToSet(rm_list) /\ n \in Paths /\ Swp(n) \in Paths /\ Swp(n) # n
  BY Current DEF RmRemove, Removing
<1>2. IsFile(dst[n]) /\ IsFile(dst[Swp(n)]) /\ i \in 1 .. Len(rm_list)
  BY DEF RmRemove, BasicInv, Place, Removing
<1>3. /\ dst' = [dst EXCEPT ![n] = Absent]
      /\ UNCHANGED <<user, outcome, lists, open, ghosts, deaths>>
      /\ pc = "rm_remove"
  BY DEF RmRemove
<1>4. Absent \in Entries \ {Directory} /\ dst[n] # Directory /\ dst[Swp(n)] # Directory
  BY <1>2, EntryKinds
<1>5. /\ dst' \in [Paths -> Entries]
      /\ \A q \in Paths : dst'[q] = IF q = n THEN Absent ELSE dst[q]
      /\ \A q \in Paths : dst'[q] = Directory <=> dst[q] = Directory
  BY <1>1, <1>3, <1>4, Write
<1>6. /\ Len(rm_list) \in Nat /\ ToSet(rm_list) = {rm_list[j] : j \in 1 .. Len(rm_list)}
      /\ UNCHANGED <<rm_list, add_list, started, single>>
  BY <1>3, Elements DEF BasicInv, TypeOK, lists, ghosts
<1>7. \/ pc' = "rm_open" /\ i' = i + 1 /\ i' \in 1 .. Len(rm_list)
      \/ /\ i = Len(rm_list) /\ i' = 1 /\ pc' \in {"finish", "add_open"}
         /\ pc' = "add_open" => i' \in 1 .. Len(add_list)
  <2>1. CASE i + 1 <= Len(rm_list)
    BY <1>2, <1>6, <2>1 DEF RmRemove, Loop
  <2>2. CASE ~(i + 1 <= Len(rm_list))
    <3>1. i = Len(rm_list) /\ i' = 1 /\ pc' = AfterRemoving
      BY <1>2, <1>6, <2>2 DEF RmRemove, Loop
    <3> QED
      BY <3>1, <1>6, AfterRemovingPlace DEF BasicInv
  <2> QED
    BY <2>1, <2>2
<1>8. TypeOK'
  BY <1>3, <1>5, <1>7 DEF BasicInv, TypeOK, user, lists, open, ghosts, Removing, Adding
<1>9. Place'
  BY <1>6, <1>7 DEF BasicInv, Place, Removing, Adding
<1>10. Directories'
  <2>1. started[Swp(n)] # Directory
    BY <1>1, <1>4 DEF BasicInv, Directories
  <2>2. \A j \in 1 .. i : started[Swp(rm_list[j])] # Directory
    BY <1>2, <1>3, <2>1 DEF BasicInv, Directories, Removing
  <2>3. \A p \in Paths : dst'[p] = Directory <=> started'[p] = Directory
    BY <1>5, <1>6 DEF BasicInv, Directories
  <2> QED
    BY <1>2, <1>6, <1>7, <2>2, <2>3 DEF Directories, Removing, Adding
<1>11. OnlyListed' /\ OnlyListedChange'
  BY <1>1, <1>3, <1>5, <1>6, <1>7 DEF BasicInv, Listing, OnlyListed, OnlyListedChange
<1> QED
  BY <1>3, <1>6, <1>7, <1>8, <1>9, <1>10, <1>11 DEF BasicInv, Listing

-----------------------------------------------------------------------------
LEMMA BasicAddOpen ==
  ASSUME BasicInv, AddOpen
  PROVE  BasicInv'
<1> DEFINE n == add_list[i]
<1>1. CASE Fail
  BY <1>1, BasicFail DEF AddOpen
<1>2. CASE ~Fail
  <2>1. n \in Names /\ i \in 1 .. Len(add_list)
    BY Current DEF AddOpen, Adding, BasicInv, Place
  <2>2. /\ IsFile(src[n]) /\ fp' = src[n].data /\ linked' = TRUE
        /\ pc = "add_open" /\ pc' = "add_stat"
        /\ UNCHANGED <<user, dst, outcome, lists, i, st_mtime, ghosts, deaths>>
    BY <1>2 DEF AddOpen
  <2>3. fp' \in Contents
    BY <2>1, <2>2 DEF BasicInv, TypeOK, Files, Absent, IsFile
  <2>4. linked' \in BOOLEAN
    BY <2>2
  <2>5. TypeOK'
    BY <2>2, <2>3, <2>4 DEF BasicInv, TypeOK, user, lists, ghosts, Adding
  <2> QED
    BY <2>1, <2>2, <2>3, <2>5 DEF user, lists, ghosts, BasicInv, Place, Listing, Directories,
         OnlyListed, OnlyListedChange, Removing, Adding
<1> QED
  BY <1>1, <1>2

LEMMA BasicAddStat ==
  ASSUME BasicInv, AddStat
  PROVE  BasicInv'
<1> DEFINE n == add_list[i]
<1>1. CASE Fail
  BY <1>1, BasicFail DEF AddStat
<1>2. CASE ~Fail
  <2>1. n \in Names
    BY Current DEF AddStat, Adding
  <2>2. /\ IsFile(src[n]) /\ st_mtime' = src[n].mtime
        /\ pc = "add_stat" /\ pc' = "add_truncate"
        /\ UNCHANGED <<user, dst, outcome, lists, i, fp, linked, ghosts, deaths>>
    BY <1>2 DEF AddStat
  <2>3. st_mtime' \in Nat
    BY <2>1, <2>2 DEF BasicInv, TypeOK, Files, Absent, IsFile
  <2>4. TypeOK'
    BY <2>2, <2>3 DEF BasicInv, TypeOK, user, lists, ghosts, Adding
  <2> QED
    BY <2>2, <2>4 DEF user, lists, ghosts, BasicInv, Place, Listing, Directories,
         OnlyListed, OnlyListedChange, Removing, Adding
<1> QED
  BY <1>1, <1>2

(* Whatever file the current entry becomes.                                *)
LEMMA BasicCopying ==
  ASSUME BasicInv, pc \in Adding, dst[add_list[i]] # Directory,
         NEW f \in Entries \ {Directory}, IsFile(f), dst' = [dst EXCEPT ![add_list[i]] = f],
         \/ pc' = "add_fill" /\ i' = i /\ fp' \in Contents
         \/ pc' = "add_utime" /\ i' = i
         \/ pc' = "add_open" /\ i' \in 1 .. Len(add_list)
         \/ pc' = "finish" /\ i' \in Nat \ {0},
         TypeOK',
         UNCHANGED <<outcome, lists, started, single>>
  PROVE  BasicInv'
<1> DEFINE n == add_list[i]
<1>1. n \in Names /\ n \in ToSet(add_list) /\ n \in Paths
  BY Current
<1>2. /\ dst' \in [Paths -> Entries]
      /\ \A q \in Paths : dst'[q] = IF q = n THEN f ELSE dst[q]
      /\ \A q \in Paths : dst'[q] = Directory <=> dst[q] = Directory
  BY <1>1, Write
<1>3. pc' \in {"add_fill", "add_utime"} => IsFile(dst'[n]) /\ n = add_list'[i']
  BY <1>1, <1>2 DEF lists
<1>4. Place'
  BY <1>3 DEF BasicInv, Place, lists, Removing, Adding
<1>5. Directories'
  BY <1>2 DEF BasicInv, Directories, lists, Removing, Adding
<1>6. OnlyListed' /\ OnlyListedChange'
  BY <1>1, <1>2 DEF BasicInv, OnlyListed, OnlyListedChange, lists, Adding
<1> QED
  BY <1>4, <1>5, <1>6 DEF BasicInv, Listing, lists, Adding

LEMMA BasicAddTruncate ==
  ASSUME BasicInv, AddTruncate
  PROVE  BasicInv'
<1>1. CASE Fail
  BY <1>1, BasicFail DEF AddTruncate
<1>2. CASE ~Fail
  <2>1. /\ dst[add_list[i]] # Directory /\ dst' = [dst EXCEPT ![add_list[i]] = File(Empty, now)]
        /\ pc = "add_truncate" /\ pc' = "add_fill"
        /\ UNCHANGED <<user, outcome, lists, i, open, ghosts, deaths>>
    BY <1>2 DEF AddTruncate, InDst
  <2>2. File(Empty, now) \in Entries \ {Directory} /\ IsFile(File(Empty, now))
    BY FileType DEF BasicInv, TypeOK
  <2>3. TypeOK'
    BY <2>1, <2>2, Current, Write DEF BasicInv, TypeOK, user, lists, open, ghosts, Adding
  <2>4. fp' \in Contents
    BY <2>1 DEF BasicInv, Place, open
  <2> QED
    BY <2>1, <2>2, <2>3, <2>4, BasicCopying DEF ghosts, Adding
<1> QED
  BY <1>1, <1>2

LEMMA BasicAddFill ==
  ASSUME BasicInv, AddFill
  PROVE  BasicInv'
<1> DEFINE n == add_list[i]
           f == File(Copied[fp], now)
<1>1. /\ dst' = [dst EXCEPT ![n] = f]
      /\ copied' = copied \cup {n}
      /\ fp' = Empty /\ linked' = FALSE
      /\ pc = "add_fill" /\ pc' = "add_utime"
      /\ UNCHANGED <<user, outcome, lists, i, st_mtime, started, quiet, single, singles, deaths>>
  BY DEF AddFill
<1>2. n \in Names /\ n \in Paths /\ dst[n] \in Entries /\ dst[n] # Directory
  BY <1>1, Current, EntryKinds DEF BasicInv, TypeOK, Place, Adding
<1>3. f \in Entries \ {Directory} /\ IsFile(f)
  BY <1>1, FileType, FileAssumption DEF BasicInv, TypeOK, Place
<1>4. linked' \in BOOLEAN
  BY <1>1
<1>5. TypeOK'
  BY <1>1, <1>2, <1>3, <1>4, Write DEF BasicInv, TypeOK, user, lists, Adding
<1> QED
  BY <1>1, <1>2, <1>3, <1>5, BasicCopying DEF Adding

LEMMA BasicAddUtime ==
  ASSUME BasicInv, AddUtime
  PROVE  BasicInv'
<1> DEFINE n == add_list[i]
           f == [dst[n] EXCEPT !.mtime = st_mtime]
<1>1. /\ dst' = [dst EXCEPT ![n].mtime = st_mtime]
      /\ Loop(add_list, i + 1, "add_open", "finish")
      /\ fp' = Empty /\ linked' = FALSE /\ st_mtime' = 0
      /\ pc = "add_utime"
      /\ UNCHANGED <<user, outcome, lists, ghosts, deaths>>
  BY DEF AddUtime, Closed
<1>2. /\ n \in Names /\ n \in Paths /\ dst[n] \in Entries /\ dst[n] # Directory /\ IsFile(dst[n])
      /\ i \in 1 .. Len(add_list) /\ Len(add_list) \in Nat
  BY <1>1, Current, EntryKinds, Elements DEF BasicInv, TypeOK, Place, Adding
<1>3. f \in Entries \ {Directory} /\ IsFile(f) /\ dst' = [dst EXCEPT ![n] = f]
  BY <1>1, <1>2, Redate DEF BasicInv, TypeOK
<1>4. \/ pc' = "add_open" /\ i' \in 1 .. Len(add_list)
      \/ pc' = "finish" /\ i' \in Nat \ {0}
  BY <1>1, <1>2 DEF Loop
<1>5. linked' \in BOOLEAN
  BY <1>1
<1>6. i' \in Nat \ {0}
  BY <1>2, <1>4
<1>7. TypeOK'
  BY <1>1, <1>2, <1>3, <1>4, <1>5, <1>6, Write DEF BasicInv, TypeOK, user, lists, ghosts, Adding
<1>8. pc \in Adding /\ UNCHANGED <<outcome, lists, started, single>>
  BY <1>1 DEF Adding, ghosts
<1> QED
  BY <1>2, <1>3, <1>4, <1>7, <1>8, BasicCopying

-----------------------------------------------------------------------------
LEMMA BasicFinish ==
  ASSUME BasicInv, Finish
  PROVE  BasicInv'
<1>1. TypeOK'
  BY DEF Finish, BasicInv, TypeOK, user, lists, open, ghosts
<1> QED
  BY <1>1 DEF Finish, user, lists, open, ghosts, BasicInv, Place, Listing, Directories,
       OnlyListed, OnlyListedChange, Removing, Adding

LEMMA BasicRemoveSwp ==
  ASSUME BasicInv, RemoveSwp
  PROVE  BasicInv'
<1>1. /\ pc = "remove_swp" /\ Len(rm_list) \in Nat
      /\ ToSet(rm_list) = {rm_list[j] : j \in 1 .. Len(rm_list)}
      /\ UNCHANGED <<user, lists, open, ghosts, deaths>>
  BY Elements DEF RemoveSwp, BasicInv, TypeOK
<1>2. CASE i <= Len(rm_list)
  <2> DEFINE n == rm_list[i]
  <2>1. /\ dst' = [dst EXCEPT ![Swp(n)] = Absent]
        /\ i' = i + 1
        /\ UNCHANGED <<pc, outcome>>
    BY <1>1, <1>2 DEF RemoveSwp, BasicInv, TypeOK
  <2>2. n \in ToSet(rm_list) /\ n \in Names /\ Swp(n) \in Paths
    BY <1>1, <1>2, Elements, SwpNames DEF BasicInv, TypeOK
  <2>3. Absent \in Entries \ {Directory} /\ dst[Swp(n)] # Directory
    BY <1>1, <2>2, EntryKinds DEF BasicInv, Directories
  <2>4. /\ dst' \in [Paths -> Entries]
        /\ \A q \in Paths : dst'[q] = IF q = Swp(n) THEN Absent ELSE dst[q]
        /\ \A q \in Paths : dst'[q] = Directory <=> dst[q] = Directory
    BY <2>1, <2>2, <2>3, Write
  <2>5. TypeOK'
    BY <1>1, <2>1, <2>4 DEF BasicInv, TypeOK, user, lists, open, ghosts
  <2>6. \A j \in 1 .. i : Swp(rm_list[j]) \in Paths
    BY <1>1, <1>2, Elements, SwpNames DEF BasicInv, TypeOK
  <2>7. OnlyListed' /\ OnlyListedChange'
    BY <1>1, <2>1, <2>2, <2>4, <2>6 DEF BasicInv, TypeOK, OnlyListed, OnlyListedChange, lists, ghosts
  <2>8. Directories'
    BY <1>1, <2>1, <2>4 DEF BasicInv, Directories, lists, ghosts, Removing, Adding
  <2> QED
    BY <1>1, <2>1, <2>5, <2>7, <2>8 DEF BasicInv, Place, Listing, lists, ghosts, Removing, Adding
<1>3. CASE i > Len(rm_list)
  <2>1. pc' = "idle" /\ outcome' = "done" /\ UNCHANGED <<dst, i>>
    BY <1>1, <1>3 DEF RemoveSwp, End, BasicInv, TypeOK
  <2>2. TypeOK'
    BY <1>1, <2>1 DEF BasicInv, TypeOK, user, lists, open, ghosts
  <2>3. \A n \in ToSet(rm_list) : Swp(n) \notin ToSet(add_list) => dst[Swp(n)] = Absent
    BY <1>1, <1>3 DEF BasicInv, TypeOK, OnlyListed
  <2>4. OnlyListed' /\ OnlyListedChange'
    BY <1>1, <2>1, <2>3 DEF BasicInv, OnlyListed, OnlyListedChange, lists, ghosts
  <2> QED
    BY <1>1, <2>1, <2>2, <2>4 DEF BasicInv, Place, Listing, Directories, lists, ghosts,
         Removing, Adding
<1> QED
  BY <1>1, <1>2, <1>3 DEF BasicInv, TypeOK

(* What a death leaves alone.                                              *)
LEMMA DeathType ==
  ASSUME BasicInv, NEW how \in {"crashed", "interrupted"}, Dies(how),
         dst' \in [Paths -> Entries]
  PROVE  /\ TypeOK'
         /\ pc # "idle" /\ pc' = "idle" /\ outcome' = how /\ rm_list' = <<>>
         /\ UNCHANGED <<add_list, started, single>>
<1>1. /\ pc # "idle" /\ pc' = "idle" /\ outcome' = how /\ rm_list' = <<>>
      /\ UNCHANGED <<src, edits, add_list, started, quiet, copied, single, singles>>
      /\ now' \in {now, now + 1} /\ deaths' = deaths + 1
      /\ fp' = Empty /\ st_mtime' = 0 /\ todo' = {} /\ i' = 1
      /\ linked' = FALSE
  BY DEF Dies, End, Closed, ghosts
<1>2. linked' \in BOOLEAN
  BY <1>1
<1>3. now' \in Nat /\ rm_list' \in Seq(Names)
  BY <1>1 DEF BasicInv, TypeOK
<1> QED
  BY <1>1, <1>2, <1>3 DEF BasicInv, TypeOK

(* The handler brings no directory about, and removes none: the entries it *)
(* renames are the .swp of files, which have been opened.                  *)
LEMMA RolledBackEntries ==
  ASSUME BasicInv, pc = "remove_swp"
  PROVE  /\ RolledBack \in [Paths -> Entries]
         /\ \A p \in Paths : RolledBack[p] = Directory <=> dst[p] = Directory
<1> DEFINE gone == {n \in ToSet(rm_list) : dst[n] = Absent /\ dst[Swp(n)] # Absent}
<1>1. \A p \in Paths : RolledBack[p] = IF p \in gone THEN dst[Swp(p)]
                      ELSE IF \E n \in gone : p = Swp(n) THEN Absent ELSE dst[p]
  BY DEF RolledBack
<1>2. \A n \in gone : /\ n \in Paths /\ Swp(n) \in Paths
                     /\ dst[n] = Absent /\ dst[Swp(n)] # Directory /\ dst[Swp(n)] \in Entries
  BY Elements, SwpNames DEF BasicInv, TypeOK, Directories
<1>3. \A p \in Paths : RolledBack[p] \in Entries
  BY <1>1, <1>2, EntryKinds DEF BasicInv, TypeOK
<1>4. RolledBack = [p \in Paths |-> RolledBack[p]]
  BY DEF RolledBack
<1> QED
  BY <1>1, <1>2, <1>3, <1>4, EntryKinds

LEMMA BasicDeath ==
  ASSUME BasicInv, Crash \/ Interrupt
  PROVE  /\ BasicInv'
         /\ \A p \in Paths : dst'[p] = Directory <=> dst[p] = Directory
<1>1. PICK how \in {"crashed", "interrupted"} : Dies(how)
  BY DEF Crash, Interrupt
<1>2. dst' = dst \/ (pc = "remove_swp" /\ dst' = RolledBack)
  BY DEF Crash, Interrupt, HandlerInstalled
<1>3. dst' \in [Paths -> Entries] /\ \A p \in Paths : dst'[p] = Directory <=> dst[p] = Directory
  BY <1>2, RolledBackEntries DEF BasicInv, TypeOK
<1> QED
  BY <1>1, <1>3, DeathType, BasicEnd

LEMMA BasicNext ==
  ASSUME BasicInv, [Next]_vars
  PROVE  BasicInv'
<1>1. CASE UNCHANGED vars
  BY <1>1 DEF vars, user, lists, open, ghosts, BasicInv, TypeOK, Place, Listing, Directories,
       OnlyListed, OnlyListedChange
<1>2. CASE Process
  BY <1>2, BasicCompare, BasicCompareDone, BasicRmOpen, BasicRmFill, BasicRmUtime,
     BasicRmRemove, BasicAddOpen, BasicAddStat, BasicAddTruncate, BasicAddFill,
     BasicAddUtime, BasicFinish, BasicRemoveSwp DEF Process
<1> QED
  BY <1>1, <1>2, BasicStart, BasicStartFile, BasicEditor, BasicDeath DEF Next

(* The variables keep their types: no list is indexed outside its length,  *)
(* and nothing but a file is given a time.                                 *)
THEOREM TypeCorrect == Spec => []TypeOK
<1>1. Spec => []BasicInv
  BY BasicInit, BasicNext, PTL DEF Spec
<1>2. BasicInv => TypeOK
  BY DEF BasicInv
<1> QED
  BY <1>1, <1>2, PTL

(* A synchronisation that ends well has changed in dst nothing but the     *)
(* files it listed, and has removed every .swp it made, whatever their     *)
(* names are and whatever happened to src and to earlier runs (rsync,      *)
(* remove_swp).                                                            *)
THEOREM OnlyListedChangeHolds == Spec => []OnlyListedChange
<1>1. Spec => []BasicInv
  BY BasicInit, BasicNext, PTL DEF Spec
<1>2. BasicInv => OnlyListedChange
  BY DEF BasicInv
<1> QED
  BY <1>1, <1>2, PTL

(* No step of any actor touches a directory of dst, not even one with the  *)
(* name of a file or of its .swp (rsync, ssu_signal_handler, remove_swp).  *)
THEOREM DirectoriesKeptHolds == Spec => DirectoriesKept
<1>1. Spec => []BasicInv
  BY BasicInit, BasicNext, PTL DEF Spec
<1>2. ASSUME BasicInv, BasicInv', [Next]_vars
      PROVE  [\A p \in Paths : dst[p] = Directory => dst'[p] = Directory]_dst
  <2>1. CASE started' = started
    BY <1>2, <2>1 DEF BasicInv, Directories
  <2>2. CASE Start \/ StartFile
    BY <2>2 DEF Start, StartFile
  <2>3. Start \/ StartFile \/ started' = started
    BY <1>2, Zenon DEF Next, vars, ghosts, user, Process, Compare, CompareDone, Fail, RmOpen, RmFill,
       RmUtime, RmRemove, InDst, AddOpen, AddStat, AddTruncate, AddFill, AddUtime, Finish, RemoveSwp,
       Editor, EditInPlace, Replace, Delete, Edited, Crash, Interrupt, Dies
  <2> QED
    BY <2>1, <2>2, <2>3
<1> QED
  BY <1>1, <1>2, PTL DEF Spec, DirectoriesKept

-----------------------------------------------------------------------------
(* Nothing is lost, of text files none of which is called like a .swp.     *)

LEMMA KeptEnd ==
  ASSUME KeptInv, pc' = "idle", UNCHANGED <<dst, add_list, started, copied, single>>
  PROVE  Kept' /\ NoVersionLost'
BY DEF KeptInv, Kept, NoVersionLost, Version, Removing, Adding

LEMMA KeptFail ==
  ASSUME KeptInv, Fail
  PROVE  Kept' /\ NoVersionLost'
BY KeptEnd DEF Fail, End, lists, ghosts

LEMMA KeptStart ==
  ASSUME KeptInv, Start \/ StartFile
  PROVE  Kept' /\ NoVersionLost'
<1>1. started' = dst /\ dst' = dst /\ rm_list' = <<>> /\ i' = 1 /\ ToSet(rm_list') = {}
  BY Elements DEF Start, StartFile, open
<1>2. NoVersionLost'
  BY <1>1 DEF NoVersionLost, Version
<1>3. pc' \in {"idle", "compare"} \/ pc' = "add_open"
  BY DEF Start, StartFile, End
<1>4. add_list' \in Seq(Names)
  <2>1. Start \/ StartFile => BasicInv'
    BY BasicStart, BasicStartFile DEF KeptInv
  <2> QED
    BY <2>1 DEF BasicInv, TypeOK
<1>5. \A n \in ToSet(add_list') : Ahead(add_list, n)'
  BY <1>1, <1>4, Elements DEF Ahead
<1> QED
  BY <1>1, <1>2, <1>3, <1>5, Elements DEF Kept, Removing, Adding, KeptInv, BasicInv, TypeOK

LEMMA KeptEditor ==
  ASSUME KeptInv, Editor
  PROVE  Kept' /\ NoVersionLost'
<1>1. UNCHANGED <<dst, pc, rm_list, add_list, i, started, copied, single>>
  <2>1. Edited
    BY DEF Editor, EditInPlace, Replace, Delete
  <2> QED
    BY <2>1 DEF Edited
<1> QED
  BY <1>1 DEF KeptInv, Kept, NoVersionLost, Version, Ahead, Complete

LEMMA KeptCompare ==
  ASSUME KeptInv, Compare
  PROVE  Kept' /\ NoVersionLost'
<1>1. CASE Fail
  BY <1>1, KeptFail
<1>2. CASE ~Fail
  <2>1. pc = "compare" /\ UNCHANGED <<dst, pc, i, started, copied, single>>
    BY <1>2 DEF Compare, ghosts
  <2>2. dst = started /\ ~single
    BY <2>1 DEF KeptInv, BasicInv, Place
  <2> QED
    BY <2>1, <2>2 DEF KeptInv, Kept, NoVersionLost, Version, Removing, Adding
<1> QED
  BY <1>1, <1>2

(* All of a list is ahead of its first element.                            *)
LEMMA AllAhead ==
  ASSUME NEW list \in Seq(Names), i = 1
  PROVE  \A n \in ToSet(list) : Ahead(list, n)
BY Elements DEF Ahead

LEMMA KeptCompareDone ==
  ASSUME KeptInv, CompareDone
  PROVE  Kept' /\ NoVersionLost'
<1>1. /\ pc = "compare" /\ i = 1 /\ ~single /\ dst = started
      /\ UNCHANGED <<dst, i, rm_list, add_list, started, copied, single>>
  BY DEF CompareDone, KeptInv, BasicInv, Place, lists, ghosts
<1>2. /\ pc' \in {"rm_open", "add_open", "finish"}
      /\ pc' # "rm_open" => ToSet(rm_list) = {}
      /\ pc' = "finish" => ToSet(add_list) = {}
  BY Elements DEF CompareDone, AfterRemoving
<1>3. /\ \A n \in ToSet(rm_list) : Ahead(rm_list, n)
      /\ \A n \in ToSet(add_list) : Ahead(add_list, n)
  BY <1>1, AllAhead DEF KeptInv, BasicInv, TypeOK
<1> QED
  BY <1>1, <1>2, <1>3 DEF KeptInv, Kept, NoVersionLost, Version, Ahead, Removing, Adding

(* While a file is kept, only its .swp changes.                            *)
LEMMA KeptKeeping ==
  ASSUME KeptInv, NoSwpNames, pc \in Removing, IsFile(dst[rm_list[i]]), NEW f,
         dst' = [dst EXCEPT ![Swp(rm_list[i])] = f],
         \/ pc' = "rm_fill"
         \/ pc' \in {"rm_utime", "rm_remove"} /\ f.data = dst[rm_list[i]].data,
         UNCHANGED <<lists, i, ghosts>>
  PROVE  Kept' /\ NoVersionLost'
<1> DEFINE n == rm_list[i]
<1>1. n \in Names /\ n \in ToSet(rm_list) /\ n \in Paths /\ Swp(n) \in Paths /\ Swp(n) # n
  BY Current DEF KeptInv
<1>2. i \in 1 .. Len(rm_list) /\ Len(rm_list) \in Nat /\ Ahead(rm_list, n)
  BY Elements DEF KeptInv, BasicInv, Place, TypeOK, Ahead
<1>3. /\ \A q \in Paths : dst'[q] = IF q = Swp(n) THEN f ELSE dst[q]
      /\ \A m \in Names : dst'[m] = dst[m]
      /\ \A m \in Names \ {n} : dst'[Swp(m)] = dst[Swp(m)]
      /\ dst'[Swp(n)] = f
  BY <1>1, SwpNames DEF KeptInv, BasicInv, TypeOK, NoSwpNames
<1>4. dst[n] = started[n]
  BY <1>1 DEF KeptInv, Kept
<1>5. NoVersionLost'
  BY <1>1, <1>3, <1>4 DEF KeptInv, NoVersionLost, Version, ghosts, lists
<1>6. \A m \in ToSet(rm_list) : Ahead(rm_list, m) \/ Version(dst'[Swp(m)], started[m].data)
  BY <1>1, <1>2, <1>3, Elements DEF KeptInv, BasicInv, TypeOK, Kept
<1>7. single' => rm_list = <<>>
  BY DEF KeptInv, BasicInv, Listing, ghosts
<1>8. ~single'
  BY <1>2, <1>7, EmptySeq
<1> QED
  BY <1>1, <1>2, <1>3, <1>5, <1>6, <1>8 DEF KeptInv, Kept, Ahead, lists, ghosts, Removing, Adding

LEMMA KeptRmOpen ==
  ASSUME KeptInv, NoSwpNames, RmOpen
  PROVE  Kept' /\ NoVersionLost'
<1>1. CASE Fail
  BY <1>1, KeptFail
<1>2. CASE ~Fail
  BY <1>2, KeptKeeping DEF RmOpen, InDst, Removing
<1> QED
  BY <1>1, <1>2

LEMMA KeptRmFill ==
  ASSUME KeptInv, NoSwpNames, TextOnly, RmFill
  PROVE  Kept' /\ NoVersionLost'
<1> DEFINE n == rm_list[i]
           f == File(CopyOf(dst[n].data), now)
<1>1. n \in Paths /\ IsFile(dst[n])
  BY Current DEF RmFill, KeptInv, BasicInv, Place, Removing
<1>2. dst[n].data \in Contents \cup {Empty}
  BY <1>1, EntryKinds DEF KeptInv, BasicInv, TypeOK
<1>3. f.data = dst[n].data
  BY <1>2, FileType DEF TextOnly, CopyOf
<1> QED
  BY <1>1, <1>3, KeptKeeping DEF RmFill, InDst, Removing

LEMMA KeptRmUtime ==
  ASSUME KeptInv, NoSwpNames, RmUtime
  PROVE  Kept' /\ NoVersionLost'
<1> DEFINE n == rm_list[i]
           f == [dst[Swp(n)] EXCEPT !.mtime = dst[n].mtime]
<1>1. n \in Paths /\ Swp(n) \in Paths /\ IsFile(dst[n]) /\ IsFile(dst[Swp(n)])
  BY Current DEF RmUtime, KeptInv, BasicInv, Place, Removing
<1>2. dst[Swp(n)] \in Entries /\ dst[n].mtime \in Nat
  BY <1>1, EntryKinds DEF KeptInv, BasicInv, TypeOK
<1>3. f.data = dst[n].data
  BY <1>1, <1>2, Redate DEF RmUtime, KeptInv, Kept
<1> QED
  BY <1>1, <1>3, KeptKeeping DEF RmUtime, InDst, Removing

LEMMA KeptRmRemove ==
  ASSUME KeptInv, NoSwpNames, RmRemove
  PROVE  Kept' /\ NoVersionLost'
<1> DEFINE n == rm_list[i]
<1>1. /\ n \in Names /\ n \in ToSet(rm_list) /\ n \in Paths /\ Swp(n) \in Paths /\ Swp(n) # n
      /\ IsFile(dst[n]) /\ IsFile(dst[Swp(n)]) /\ i \in 1 .. Len(rm_list) /\ Len(rm_list) \in Nat
  BY Current, Elements DEF RmRemove, KeptInv, BasicInv, TypeOK, Place, Removing
<1>2. /\ pc = "rm_remove" /\ dst' = [dst EXCEPT ![n] = Absent]
      /\ UNCHANGED <<rm_list, add_list, started, copied, single>>
      /\ BasicInv' /\ ~single
  <2>1. single => rm_list = <<>>
    BY DEF KeptInv, BasicInv, Listing
  <2> QED
    BY <1>1, <2>1, EmptySeq, BasicRmRemove DEF RmRemove, lists, ghosts, KeptInv
<1>3. /\ \A m \in Names : dst'[m] = IF m = n THEN Absent ELSE dst[m]
      /\ \A m \in Names : dst'[Swp(m)] = dst[Swp(m)]
  BY <1>1, <1>2, SwpNames DEF KeptInv, BasicInv, TypeOK, NoSwpNames
<1>4. Version(dst[Swp(n)], started[n].data)
  BY <1>1, <1>2 DEF KeptInv, Kept, Version, Removing
<1>5. NoVersionLost'
  BY <1>2, <1>3, <1>4 DEF KeptInv, NoVersionLost, Version
<1>6. \A m \in Names : IsFile(dst'[m]) => dst'[m] = started[m]
  BY <1>2, <1>3, EntryKinds DEF KeptInv, Kept, Removing
<1>7. \A m \in ToSet(rm_list) : \/ \E j \in i + 1 .. Len(rm_list) : rm_list[j] = m
                                \/ Version(dst'[Swp(m)], started[m].data)
  <2> SUFFICES ASSUME NEW m \in ToSet(rm_list)
               PROVE  \/ \E j \in i + 1 .. Len(rm_list) : rm_list[j] = m
                      \/ Version(dst'[Swp(m)], started[m].data)
    OBVIOUS
  <2>1. m \in Names
    BY Elements DEF KeptInv, BasicInv, TypeOK
  <2>2. CASE Ahead(rm_list, m)
    <3>1. PICK j \in i .. Len(rm_list) : rm_list[j] = m
      BY <2>2 DEF Ahead
    <3> QED
      BY <1>1, <1>3, <1>4, <3>1
  <2>3. CASE Version(dst[Swp(m)], started[m].data)
    BY <1>3, <2>1, <2>3
  <2> QED
    BY <1>2, <2>2, <2>3 DEF KeptInv, Kept, Removing
<1>8. CASE i + 1 <= Len(rm_list)
  <2>1. pc' = "rm_open" /\ i' = i + 1
    BY <1>8 DEF RmRemove, Loop
  <2>2. \A m \in ToSet(rm_list) : Ahead(rm_list, m)' \/ Version(dst'[Swp(m)], started[m].data)
    BY <1>2, <1>8, <1>7, <2>1 DEF Ahead
  <2> QED
    BY <1>2, <1>5, <1>6, <2>1, <2>2 DEF Kept, Removing, Adding
<1>9. CASE ~(i + 1 <= Len(rm_list))
  <2>1. pc' = AfterRemoving /\ i' = 1 /\ i = Len(rm_list)
    BY <1>1, <1>9 DEF RmRemove, Loop
  <2>2. /\ pc' \in {"finish", "add_open"}
        /\ pc' = "finish" => ToSet(add_list) = {}
    BY <2>1, Elements DEF AfterRemoving
  <2>3. \A m \in ToSet(rm_list) : Version(dst'[Swp(m)], started[m].data)
    BY <1>1, <1>9, <1>7
  <2>4. \A m \in ToSet(add_list) : Ahead(add_list, m)'
    <3>1. \A m \in ToSet(add_list) : \E j \in 1 .. Len(add_list) : add_list[j] = m
      BY Elements DEF KeptInv, BasicInv, TypeOK
    <3> QED
      BY <1>2, <2>1, <3>1 DEF Ahead
  <2> QED
    BY <1>2, <1>5, <2>2, <2>3, <2>4 DEF Kept, Removing, Adding
<1> QED
  BY <1>8, <1>9

-----------------------------------------------------------------------------
LEMMA KeptAddOpen ==
  ASSUME KeptInv, AddOpen \/ AddStat
  PROVE  Kept' /\ NoVersionLost'
<1>1. CASE Fail
  BY <1>1, KeptFail
<1>2. CASE ~Fail
  <2>1. /\ pc \in {"add_open", "add_stat"} /\ pc' \in {"add_stat", "add_truncate"}
        /\ UNCHANGED <<dst, i, rm_list, add_list, started, copied, single>>
    BY <1>2 DEF AddOpen, AddStat, lists, ghosts
  <2> QED
    BY <2>1 DEF KeptInv, Kept, NoVersionLost, Version, Ahead, Complete, Removing, Adding
<1> QED
  BY <1>1, <1>2

(* While a file is copied, only it changes; its old version is its .swp.   *)
LEMMA KeptCopying ==
  ASSUME KeptInv, NoSwpNames, pc \in Adding, NEW n, n = add_list[i],
         NEW f, dst' = [dst EXCEPT ![n] = f],
         \/ pc' = "add_fill" /\ i' = i
         \/ /\ Complete(n)'
            /\ \/ pc' = "add_utime" /\ i' = i
               \/ pc' = "add_open" /\ i' = i + 1
               \/ pc' = "finish" /\ i = Len(add_list),
         copied' \in {copied, copied \cup {n}},
         UNCHANGED <<lists, started, single>>
  PROVE  Kept' /\ NoVersionLost'
<1>1. /\ n \in Names /\ n \in ToSet(add_list) /\ n \in Paths
      /\ i \in 1 .. Len(add_list) /\ Len(add_list) \in Nat
      /\ ToSet(rm_list) \subseteq Names /\ ToSet(add_list) \subseteq Names
  BY Current, Elements DEF KeptInv, BasicInv, TypeOK, Place
<1>2. /\ \A m \in Names \ {n} : dst'[m] = dst[m]
      /\ \A m \in Names : dst'[Swp(m)] = dst[Swp(m)]
  BY <1>1, SwpNames DEF KeptInv, BasicInv, TypeOK, NoSwpNames
<1>3. UNCHANGED <<rm_list, add_list, started, single>>
  BY DEF lists
<1>4. IsFile(started[n]) => Version(dst[Swp(n)], started[n].data) \/ (single /\ add_list = <<n>>)
  <2>1. CASE single
    <3>1. Len(add_list) = 1 /\ n = add_list[1]
      <4>1. Len(add_list) <= 1
        BY <2>1 DEF KeptInv, BasicInv, Listing
      <4>2. \A m \in Nat : m <= 1 => \A j \in 1 .. m : j = 1 /\ m = 1
        OBVIOUS
      <4>3. i = 1 /\ Len(add_list) = 1
        BY <1>1, <4>1, <4>2, Zenon
      <4> QED
        BY <4>3
    <3>2. add_list = <<n>>
      BY <3>1 DEF KeptInv, BasicInv, TypeOK
    <3> QED
      BY <2>1, <3>2
  <2>2. CASE ~single
    BY <1>1, <2>2 DEF KeptInv, BasicInv, Listing, Kept, Adding
  <2> QED
    BY <2>1, <2>2
<1>5. NoVersionLost'
  BY <1>1, <1>2, <1>3, <1>4 DEF KeptInv, NoVersionLost, Version
<1>6. \A m \in ToSet(rm_list) : Version(dst'[Swp(m)], started[m].data)
  BY <1>1, <1>2 DEF KeptInv, Kept
<1>7. \A m \in ToSet(add_list) : \/ \E j \in i .. Len(add_list) : add_list[j] = m
                                 \/ m # n /\ Complete(m)'
  BY <1>1, <1>2 DEF KeptInv, Kept, Ahead, Complete
<1>8. single => \A m \in Names \ ToSet(add_list) : dst'[m] = started[m]
  BY <1>1, <1>2 DEF KeptInv, Kept
<1>9. CASE pc' = "add_fill" /\ i' = i
  BY <1>3, <1>5, <1>6, <1>7, <1>8, <1>9 DEF Kept, Ahead, Removing, Adding
<1>10. CASE pc' = "add_utime" /\ i' = i /\ Complete(n)'
  BY <1>3, <1>5, <1>6, <1>7, <1>8, <1>10 DEF Kept, Ahead, Removing, Adding
<1>11. CASE pc' = "add_open" /\ i' = i + 1 /\ Complete(n)'
  <2>1. \A m \in ToSet(add_list) : \/ \E j \in i + 1 .. Len(add_list) : add_list[j] = m
                                   \/ Complete(m)'
    BY <1>1, <1>7, <1>11
  <2> QED
    BY <1>3, <1>5, <1>6, <1>8, <1>11, <2>1 DEF Kept, Ahead, Removing, Adding
<1>12. CASE pc' = "finish" /\ i = Len(add_list) /\ Complete(n)'
  <2>1. \A m \in ToSet(add_list) : Complete(m)'
    BY <1>1, <1>7, <1>12
  <2> QED
    BY <1>3, <1>5, <1>6, <1>8, <1>12, <2>1 DEF Kept, Removing, Adding
<1> QED
  BY <1>9, <1>10, <1>11, <1>12

LEMMA KeptAddTruncate ==
  ASSUME KeptInv, NoSwpNames, AddTruncate
  PROVE  Kept' /\ NoVersionLost'
<1>1. CASE Fail
  BY <1>1, KeptFail
<1>2. CASE ~Fail
  BY <1>2, KeptCopying DEF AddTruncate, InDst, ghosts, Adding
<1> QED
  BY <1>1, <1>2

LEMMA KeptAddFill ==
  ASSUME KeptInv, NoSwpNames, AddFill
  PROVE  Kept' /\ NoVersionLost'
<1> PICK n : n = add_list[i]
  OBVIOUS
<1> DEFINE f == File(Copied[fp], now)
<1>1. n \in Names /\ n \in Paths
  BY Current DEF AddFill, KeptInv, Adding
<1>2. Copied[fp] \in Contents /\ Empty \notin Contents
  BY FileAssumption DEF AddFill, KeptInv, BasicInv, Place
<1>3. /\ dst' = [dst EXCEPT ![n] = f] /\ dst'[n] = f
      /\ copied' = copied \cup {n}
      /\ pc = "add_fill" /\ pc' = "add_utime" /\ UNCHANGED <<lists, i, started, single>>
  BY <1>1 DEF AddFill, KeptInv, BasicInv, TypeOK
<1>4. IsFile(f) /\ f.data = Copied[fp]
  BY FileType
<1>5. Complete(n)'
  BY <1>1, <1>2, <1>3, <1>4 DEF Complete, lists
<1> QED
  BY <1>3, <1>5, KeptCopying DEF Adding

LEMMA KeptAddUtime ==
  ASSUME KeptInv, NoSwpNames, AddUtime
  PROVE  Kept' /\ NoVersionLost'
<1> PICK n : n = add_list[i]
  OBVIOUS
<1> DEFINE f == [dst[n] EXCEPT !.mtime = st_mtime]
<1>1. n \in Names /\ n \in Paths /\ i \in 1 .. Len(add_list) /\ Len(add_list) \in Nat
  BY Current, Elements DEF AddUtime, KeptInv, BasicInv, TypeOK, Place, Adding
<1>2. /\ dst' = [dst EXCEPT ![n] = f] /\ dst'[n] = f
      /\ Loop(add_list, i + 1, "add_open", "finish")
      /\ pc = "add_utime" /\ UNCHANGED <<lists, started, copied, single>>
  BY <1>1 DEF AddUtime, KeptInv, BasicInv, TypeOK, ghosts
<1>3. Complete(n) /\ dst[n] \in Entries /\ st_mtime \in Nat
  BY <1>1, <1>2 DEF KeptInv, BasicInv, TypeOK, Kept
<1>4. IsFile(f) /\ f.data = dst[n].data
  BY <1>3, Redate DEF Complete
<1>5. dst'[n] = f /\ n \in copied'
  BY <1>2, <1>3 DEF Complete
<1>6. IsFile(dst'[n]) /\ dst'[n].data # Empty
  BY <1>3, <1>4, <1>5 DEF Complete
<1>7. \/ pc' = "add_open" /\ i' = i + 1
      \/ pc' = "finish" /\ i = Len(add_list)
  BY <1>1, <1>2 DEF Loop
<1>8. Complete(n)'
  BY <1>5, <1>6 DEF Complete
<1> QED
  BY <1>2, <1>7, <1>8, KeptCopying DEF Adding

-----------------------------------------------------------------------------
LEMMA KeptFinish ==
  ASSUME KeptInv, Finish
  PROVE  Kept' /\ NoVersionLost'
BY DEF Finish, lists, ghosts, KeptInv, Kept, NoVersionLost, Version, Ahead, Complete,
       Removing, Adding

LEMMA KeptRemoveSwp ==
  ASSUME KeptInv, NoSwpNames, RemoveSwp
  PROVE  Kept' /\ NoVersionLost'
<1>1. /\ pc = "remove_swp" /\ UNCHANGED <<rm_list, add_list, started, copied, single>>
      /\ ToSet(add_list) \subseteq Names
  BY Elements DEF RemoveSwp, lists, ghosts, KeptInv, BasicInv, TypeOK
<1>2. CASE UNCHANGED <<dst, i>>
  BY <1>1, <1>2, KeptEnd DEF RemoveSwp, End, KeptInv, BasicInv, TypeOK
<1>3. CASE ~UNCHANGED <<dst, i>>
  <2> DEFINE n == rm_list[i]
  <2>1. /\ i <= Len(rm_list) /\ dst' = [dst EXCEPT ![Swp(n)] = Absent]
        /\ UNCHANGED pc
    BY <1>1, <1>3 DEF RemoveSwp
  <2>2. n \in ToSet(rm_list) /\ n \in Names /\ Swp(n) \in Paths
    BY <2>1, Elements, SwpNames DEF KeptInv, BasicInv, TypeOK
  <2>3. /\ \A m \in Names : dst'[m] = dst[m]
        /\ \A m \in Names \ {n} : dst'[Swp(m)] = dst[Swp(m)]
    BY <2>1, <2>2, SwpNames DEF KeptInv, BasicInv, TypeOK, NoSwpNames
  <2>4. n \in ToSet(add_list) /\ Complete(n)
    BY <1>1, <2>2 DEF KeptInv, BasicInv, Listing, Kept
  <2>5. NoVersionLost'
    BY <1>1, <2>2, <2>3, <2>4 DEF KeptInv, NoVersionLost, Version, Complete
  <2> QED
    BY <1>1, <2>1, <2>3, <2>5 DEF KeptInv, Kept, Complete, Removing, Adding
<1> QED
  BY <1>2, <1>3

(* The handler finds nothing to put back: the copies are complete before   *)
(* it is installed.                                                        *)
LEMMA NothingToRollBack ==
  ASSUME KeptInv, pc = "remove_swp"
  PROVE  RolledBack = dst
<1>1. \A n \in ToSet(rm_list) : dst[n] # Absent
  BY EntryKinds DEF KeptInv, BasicInv, Listing, Kept, Complete
<1>2. {n \in ToSet(rm_list) : dst[n] = Absent /\ dst[Swp(n)] # Absent} = {}
  BY <1>1
<1>3. RolledBack = [p \in Paths |-> dst[p]]
  BY <1>2, Zenon DEF RolledBack
<1> QED
  BY <1>3 DEF KeptInv, BasicInv, TypeOK

LEMMA KeptDeath ==
  ASSUME KeptInv, Crash \/ Interrupt
  PROVE  Kept' /\ NoVersionLost'
<1>1. pc' = "idle" /\ UNCHANGED <<add_list, started, copied, single>>
  BY DEF Crash, Interrupt, Dies, End, ghosts
<1>2. dst' = dst
  BY NothingToRollBack DEF Crash, Interrupt, HandlerInstalled
<1> QED
  BY <1>1, <1>2, KeptEnd

LEMMA KeptInit == Init => KeptInv
BY BasicInit DEF Init, KeptInv, Kept, NoVersionLost, Version, Removing, Adding

LEMMA KeptNext ==
  ASSUME KeptInv, NoSwpNames, TextOnly, [Next]_vars
  PROVE  KeptInv'
<1>1. BasicInv'
  BY BasicNext DEF KeptInv
<1>2. CASE UNCHANGED vars
  BY <1>1, <1>2 DEF vars, user, lists, open, ghosts, KeptInv, Kept, NoVersionLost, Version,
       Ahead, Complete
<1>3. CASE Process
  BY <1>1, <1>3, KeptCompare, KeptCompareDone, KeptRmOpen, KeptRmFill, KeptRmUtime,
     KeptRmRemove, KeptAddOpen, KeptAddTruncate, KeptAddFill, KeptAddUtime, KeptFinish,
     KeptRemoveSwp DEF Process, KeptInv
<1>4. CASE Start \/ StartFile
  BY <1>1, <1>4, KeptStart DEF KeptInv
<1>5. CASE Editor
  BY <1>1, <1>5, KeptEditor DEF KeptInv
<1>6. CASE Crash \/ Interrupt
  BY <1>1, <1>6, KeptDeath DEF KeptInv
<1> QED
  BY <1>2, <1>3, <1>4, <1>5, <1>6 DEF Next

(* Wherever the process is stopped, and however often: of every text file  *)
(* that dst held when it started, dst has the old content, as the file or  *)
(* as its .swp, or the complete new one (rsync), provided no file is       *)
(* called like a .swp.                                                     *)
THEOREM NoVersionLostHolds ==
  ASSUME NoSwpNames, TextOnly
  PROVE  Spec => []NoVersionLost
<1>1. KeptInv /\ [Next]_vars => KeptInv'
  BY KeptNext
<1>2. KeptInv => NoVersionLost
  BY DEF KeptInv
<1> QED
  BY <1>1, <1>2, KeptInit, PTL DEF Spec

-----------------------------------------------------------------------------
(* A run that ends well has synchronised, if versions differ in size.      *)

LEMMA SyncedEnd ==
  ASSUME SyncedInv, pc' = "idle", outcome' # "done"
  PROVE  Synced' /\ DoneMeansSynced'
BY DEF Synced, DoneMeansSynced

LEMMA SyncedStart ==
  ASSUME SyncedInv, Start \/ StartFile
  PROVE  Synced' /\ DoneMeansSynced'
<1>1. i' = 1 /\ UNCHANGED <<src, dst>>
  BY DEF Start, StartFile, user
<1>2. CASE Start
  BY <1>1, <1>2 DEF Start, Synced, DoneMeansSynced, Adding
<1>3. CASE StartFile
  <2>1. BasicInv'
    BY <1>3, BasicStartFile DEF SyncedInv, KeptInv
  <2>2. \A n \in ToSet(add_list') : Ahead(add_list, n)'
    BY <1>1, <2>1, Elements DEF BasicInv, TypeOK, Ahead
  <2>3. single' = TRUE /\ (pc' = "add_open" \/ (pc' = "idle" /\ outcome' = "failed"))
    BY <1>3 DEF StartFile, End
  <2> QED
    BY <2>2, <2>3 DEF Synced, DoneMeansSynced, Adding
<1> QED
  BY <1>2, <1>3

LEMMA SyncedEditor ==
  ASSUME Editor
  PROVE  Synced' /\ DoneMeansSynced'
<1>1. Edited
  BY DEF Editor, EditInPlace, Replace, Delete
<1> QED
  BY <1>1 DEF Edited, Synced, DoneMeansSynced

(* Two files that are the same as far as they are compared are the same.   *)
LEMMA SameIsSame ==
  ASSUME SizesDiffer, NEW f \in Entries, NEW g \in Entries, IsFile(f), IsFile(g), SameFile(f, g)
  PROVE  f = g
<1>1. f.data \in Contents \cup {Empty} /\ g.data \in Contents \cup {Empty}
  BY EntryKinds
<1>2. f.data = g.data /\ f.mtime = g.mtime
  BY <1>1 DEF SameFile, SizesDiffer
<1>3. f = File(f.data, f.mtime) /\ g = File(g.data, g.mtime)
  BY EntryKinds
<1> QED
  BY <1>2, <1>3

LEMMA SyncedCompare ==
  ASSUME SyncedInv, SizesDiffer, Compare
  PROVE  Synced' /\ DoneMeansSynced'
<1>1. CASE Fail
  BY <1>1, SyncedEnd DEF Fail, End
<1>2. CASE ~Fail
  <2>1. PICK n \in todo :
          /\ pc = "compare" /\ IsFile(src[n])
          /\ todo' = todo \ {n}
          /\ add_list' = add_list \o Listed(n).add
          /\ UNCHANGED <<user, dst, pc, single, quiet>>
    BY <1>2 DEF Compare, ghosts
  <2>2. n \in Names /\ n \in Paths /\ src[n] \in Entries /\ dst[n] \in Entries /\ ~single
        /\ add_list \in Seq(Names)
    BY <2>1, SwpNames, EntryKinds DEF SyncedInv, KeptInv, BasicInv, TypeOK, Place
  <2>3. /\ ToSet(add_list) \subseteq ToSet(add_list')
        /\ n \in ToSet(add_list') \/ dst[n] = src[n]
    <3>1. CASE IsFile(dst[n]) /\ SameFile(src[n], dst[n])
      <4>1. add_list' = add_list
        BY <2>1, <2>2, <3>1, Concatenated DEF Listed
      <4> QED
        BY <2>1, <2>2, <3>1, <4>1, SameIsSame
    <3>2. CASE ~(IsFile(dst[n]) /\ SameFile(src[n], dst[n]))
      <4>1. add_list' = add_list \o <<n>>
        BY <2>1, <3>2 DEF Listed
      <4> QED
        BY <2>2, <4>1, Concatenated
    <3> QED
      BY <3>1, <3>2
  <2> QED
    BY <2>1, <2>2, <2>3 DEF SyncedInv, Synced, DoneMeansSynced, user, Adding
<1> QED
  BY <1>1, <1>2

LEMMA SyncedCompareDone ==
  ASSUME SyncedInv, CompareDone
  PROVE  Synced' /\ DoneMeansSynced'
<1>1. /\ pc = "compare" /\ i = 1 /\ ~single /\ todo = {}
      /\ UNCHANGED <<src, dst, i, todo, add_list, quiet, single>>
  BY DEF CompareDone, SyncedInv, KeptInv, BasicInv, Place, user, lists, ghosts
<1>2. /\ pc' \in {"rm_open", "add_open", "finish"}
      /\ pc' = "finish" => ToSet(add_list) = {}
  BY Elements DEF CompareDone, AfterRemoving
<1>3. \A n \in ToSet(add_list) : Ahead(add_list, n)
  BY <1>1, AllAhead DEF SyncedInv, KeptInv, BasicInv, TypeOK
<1> QED
  BY <1>1, <1>2, <1>3 DEF SyncedInv, Synced, DoneMeansSynced, Ahead, Adding

(* Keeping and removing touches no file that is not going to be added.     *)
LEMMA SyncedRemoving ==
  ASSUME SyncedInv, pc \in Removing, \A n \in Names \ ToSet(add_list) : dst'[n] = dst[n],
         pc' \in Removing \cup {"add_open", "finish"},
         pc' = "add_open" => i' = 1, pc' = "finish" => add_list = <<>>,
         UNCHANGED <<src, lists, quiet, single>>
  PROVE  Synced' /\ DoneMeansSynced'
<1>1. UNCHANGED <<src, add_list, quiet, single>> /\ ToSet(<<>>) = {}
  BY Elements DEF lists
<1>2. pc' = "add_open" => \A n \in ToSet(add_list) : Ahead(add_list, n)'
  <2>1. \A n \in ToSet(add_list) : \E j \in 1 .. Len(add_list) : add_list[j] = n
    BY Elements DEF SyncedInv, KeptInv, BasicInv, TypeOK
  <2> QED
    BY <1>1, <2>1 DEF Ahead
<1> QED
  BY <1>1, <1>2 DEF SyncedInv, Synced, DoneMeansSynced, Removing, Adding

LEMMA SyncedRm ==
  ASSUME SyncedInv, NoSwpNames, RmOpen \/ RmFill \/ RmUtime \/ RmRemove
  PROVE  Synced' /\ DoneMeansSynced'
<1>1. CASE Fail
  BY <1>1, SyncedEnd DEF Fail, End
<1>2. CASE ~Fail
  <2> DEFINE n == rm_list[i]
  <2>1. pc \in Removing
    BY DEF RmOpen, RmFill, RmUtime, RmRemove, Removing
  <2>2. n \in ToSet(add_list) /\ n \in Names /\ Swp(n) \notin Names
    BY <2>1, Current DEF SyncedInv, KeptInv, BasicInv, Listing, NoSwpNames
  <2>3. \/ \E f : dst' = [dst EXCEPT ![Swp(n)] = f]
        \/ dst' = [dst EXCEPT ![n] = Absent]
    BY <1>2, Zenon DEF RmOpen, RmFill, RmUtime, RmRemove, InDst
  <2>4. \A m \in Names \ ToSet(add_list) : dst'[m] = dst[m]
    BY <2>2, <2>3, SwpNames DEF SyncedInv, KeptInv, BasicInv, TypeOK
  <2>5. UNCHANGED <<src, lists, quiet, single>>
    BY <1>2 DEF RmOpen, RmFill, RmUtime, RmRemove, InDst, user, ghosts
  <2>6. /\ pc' \in Removing \cup {"add_open", "finish"}
        /\ pc' = "add_open" => i' = 1
        /\ pc' = "finish" => add_list = <<>>
    <3>1. CASE RmRemove
      BY <3>1 DEF RmRemove, Loop, AfterRemoving, Removing
    <3>2. CASE ~RmRemove
      <4>1. pc' \in {"rm_fill", "rm_utime", "rm_remove"}
        BY <1>2, <3>2 DEF RmOpen, RmFill, RmUtime, InDst
      <4> QED
        BY <4>1 DEF Removing
    <3> QED
      BY <3>1, <3>2
  <2> QED
    BY <2>1, <2>4, <2>5, <2>6, SyncedRemoving
<1> QED
  BY <1>1, <1>2

LEMMA SyncedAddOpen ==
  ASSUME SyncedInv, AddOpen \/ AddStat
  PROVE  Synced' /\ DoneMeansSynced'
<1>1. CASE Fail
  BY <1>1, SyncedEnd DEF Fail, End
<1>2. CASE ~Fail
  <2> DEFINE n == add_list[i]
  <2>1. /\ IsFile(src[n]) /\ UNCHANGED <<src, dst, i, add_list, quiet, single>>
        /\ \/ pc = "add_open" /\ pc' = "add_stat" /\ fp' = src[n].data
           \/ /\ pc = "add_stat" /\ pc' = "add_truncate" /\ fp' = fp
              /\ st_mtime' = src[n].mtime
    BY <1>2 DEF AddOpen, AddStat, user, lists, ghosts
  <2> QED
    BY <2>1 DEF SyncedInv, Synced, DoneMeansSynced, Ahead, Adding
<1> QED
  BY <1>1, <1>2

LEMMA SyncedAddTruncate ==
  ASSUME SyncedInv, AddTruncate
  PROVE  Synced' /\ DoneMeansSynced'
<1>1. CASE Fail
  BY <1>1, SyncedEnd DEF Fail, End
<1>2. CASE ~Fail
  <2> DEFINE n == add_list[i]
  <2>1. /\ dst' = [dst EXCEPT ![n] = File(Empty, now)]
        /\ pc = "add_truncate" /\ pc' = "add_fill"
        /\ UNCHANGED <<src, i, add_list, fp, st_mtime, quiet, single>>
    BY <1>2 DEF AddTruncate, InDst, user, lists, ghosts, open
  <2>2. n \in Names /\ n \in ToSet(add_list) /\ Ahead(add_list, n)
    BY <2>1, Current, Elements DEF SyncedInv, KeptInv, BasicInv, TypeOK, Place, Ahead, Adding
  <2>3. \A m \in Names \ {n} : dst'[m] = dst[m]
    BY <2>1, SwpNames DEF SyncedInv, KeptInv, BasicInv, TypeOK
  <2>4. ToSet(add_list) \subseteq Names
    BY Elements DEF SyncedInv, KeptInv, BasicInv, TypeOK
  <2> QED
    BY <2>1, <2>2, <2>3, <2>4 DEF SyncedInv, Synced, DoneMeansSynced, Ahead, Adding
<1> QED
  BY <1>1, <1>2

LEMMA SyncedAddFill ==
  ASSUME SyncedInv, TextOnly, AddFill
  PROVE  Synced' /\ DoneMeansSynced'
<1> DEFINE n == add_list[i]
           f == File(Copied[fp], now)
<1>1. /\ dst' = [dst EXCEPT ![n] = f]
      /\ pc = "add_fill" /\ pc' = "add_utime"
      /\ UNCHANGED <<src, i, add_list, st_mtime, quiet, single>>
  BY DEF AddFill, user, lists
<1>2. n \in Names /\ n \in ToSet(add_list) /\ Ahead(add_list, n) /\ n \in Paths
  BY <1>1, Current, Elements DEF SyncedInv, KeptInv, BasicInv, TypeOK, Place, Ahead, Adding
<1>3. (\A m \in Names \ {n} : dst'[m] = dst[m]) /\ dst'[n] = f
  BY <1>1, <1>2, SwpNames DEF SyncedInv, KeptInv, BasicInv, TypeOK
<1>4. ToSet(add_list) \subseteq Names
  BY Elements DEF SyncedInv, KeptInv, BasicInv, TypeOK
<1>5. f.data = fp
  BY <1>1, FileType DEF TextOnly, SyncedInv, KeptInv, BasicInv, Place
<1> QED
  BY <1>1, <1>2, <1>3, <1>4, <1>5 DEF SyncedInv, Synced, DoneMeansSynced, Ahead, Adding

LEMMA SyncedAddUtime ==
  ASSUME SyncedInv, AddUtime
  PROVE  Synced' /\ DoneMeansSynced'
<1> DEFINE n == add_list[i]
           f == [dst[n] EXCEPT !.mtime = st_mtime]
<1>1. /\ n \in Names /\ n \in Paths /\ n \in ToSet(add_list) /\ ToSet(add_list) \subseteq Names
      /\ i \in 1 .. Len(add_list) /\ Len(add_list) \in Nat
  BY Current, Elements DEF AddUtime, SyncedInv, KeptInv, BasicInv, TypeOK, Place, Adding
<1>2. /\ dst' = [dst EXCEPT ![n] = f] /\ dst'[n] = f
      /\ \A m \in Names \ {n} : dst'[m] = dst[m]
      /\ Loop(add_list, i + 1, "add_open", "finish")
      /\ pc = "add_utime" /\ UNCHANGED <<src, add_list, quiet, single>>
  BY <1>1, SwpNames DEF AddUtime, SyncedInv, KeptInv, BasicInv, TypeOK, user, lists, ghosts
<1>3. IsFile(dst[n]) /\ dst[n] \in Entries /\ st_mtime \in Nat
  BY <1>1, <1>2 DEF SyncedInv, KeptInv, BasicInv, TypeOK, Place
<1>4. f = File(dst[n].data, st_mtime)
  BY <1>3, Redate
<1>5. quiet => dst'[n] = src[n]
  <2>1. quiet => src[n] = File(src[n].data, src[n].mtime)
    BY <1>1, <1>2, EntryKinds DEF SyncedInv, KeptInv, BasicInv, TypeOK, Synced, Adding
  <2> QED
    BY <1>2, <1>4, <2>1 DEF SyncedInv, Synced
<1>6. quiet => \A m \in ToSet(add_list) : \/ \E j \in i + 1 .. Len(add_list) : add_list[j] = m
                                          \/ dst'[m] = src[m]
  BY <1>1, <1>2, <1>5 DEF SyncedInv, Synced, Ahead, Adding
<1>7. quiet /\ ~single => \A m \in Names : IsFile(src[m]) => m \in ToSet(add_list) \/ dst'[m] = src[m]
  BY <1>1, <1>2 DEF SyncedInv, Synced
<1>8. CASE i + 1 <= Len(add_list)
  <2>1. pc' = "add_open" /\ i' = i + 1
    BY <1>2, <1>8 DEF Loop
  <2> QED
    BY <1>2, <1>6, <1>7, <2>1 DEF Synced, DoneMeansSynced, Ahead, Adding
<1>9. CASE ~(i + 1 <= Len(add_list))
  <2>1. pc' = "finish"
    BY <1>2, <1>9 DEF Loop
  <2>2. quiet => \A m \in ToSet(add_list) : dst'[m] = src[m]
    BY <1>1, <1>6, <1>9
  <2> QED
    BY <1>2, <1>7, <2>1, <2>2 DEF Synced, DoneMeansSynced, Adding
<1> QED
  BY <1>8, <1>9

LEMMA SyncedFinish ==
  ASSUME SyncedInv, Finish
  PROVE  Synced' /\ DoneMeansSynced'
BY DEF Finish, user, lists, ghosts, SyncedInv, Synced, DoneMeansSynced, Adding

LEMMA SyncedRemoveSwp ==
  ASSUME SyncedInv, NoSwpNames, RemoveSwp
  PROVE  Synced' /\ DoneMeansSynced'
<1>1. /\ pc = "remove_swp" /\ UNCHANGED <<src, add_list, quiet, single>>
      /\ ToSet(add_list) \subseteq Names
  BY Elements DEF RemoveSwp, user, lists, ghosts, SyncedInv, KeptInv, BasicInv, TypeOK
<1>2. CASE UNCHANGED dst /\ pc' = "idle"
  BY <1>1, <1>2 DEF SyncedInv, Synced, DoneMeansSynced
<1>3. CASE ~(UNCHANGED dst /\ pc' = "idle")
  <2> DEFINE n == rm_list[i]
  <2>1. i <= Len(rm_list) /\ dst' = [dst EXCEPT ![Swp(n)] = Absent] /\ pc' = pc
    BY <1>1, <1>3 DEF RemoveSwp, End
  <2>2. n \in Names /\ Swp(n) \notin Names
    BY <2>1, Elements DEF SyncedInv, KeptInv, BasicInv, TypeOK, NoSwpNames
  <2>3. \A m \in Names : dst'[m] = dst[m]
    BY <2>1, <2>2, SwpNames DEF SyncedInv, KeptInv, BasicInv, TypeOK
  <2> QED
    BY <1>1, <2>1, <2>3 DEF SyncedInv, Synced, DoneMeansSynced, Adding
<1> QED
  BY <1>2, <1>3

LEMMA SyncedInit == Init => SyncedInv
BY KeptInit DEF Init, SyncedInv, Synced, DoneMeansSynced

LEMMA SyncedNext ==
  ASSUME SyncedInv, NoSwpNames, TextOnly, SizesDiffer, [Next]_vars
  PROVE  SyncedInv'
<1>1. KeptInv'
  BY KeptNext DEF SyncedInv
<1>2. CASE UNCHANGED vars
  BY <1>1, <1>2 DEF vars, user, lists, open, ghosts, SyncedInv, Synced, DoneMeansSynced, Ahead
<1>3. CASE Process
  BY <1>1, <1>3, SyncedCompare, SyncedCompareDone, SyncedRm, SyncedAddOpen, SyncedAddTruncate,
     SyncedAddFill, SyncedAddUtime, SyncedFinish, SyncedRemoveSwp DEF Process, SyncedInv
<1>4. CASE Start \/ StartFile
  BY <1>1, <1>4, SyncedStart DEF SyncedInv
<1>5. CASE Editor
  BY <1>1, <1>5, SyncedEditor DEF SyncedInv
<1>6. CASE Crash \/ Interrupt
  <2>1. pc' = "idle" /\ outcome' # "done"
    BY <1>6 DEF Crash, Interrupt, Dies, End
  <2> QED
    BY <1>1, <2>1, SyncedEnd DEF SyncedInv
<1> QED
  BY <1>2, <1>3, <1>4, <1>5, <1>6 DEF Next

(* A run that ends well while nobody edits src leaves every file of src in *)
(* dst, with its content and its time, whatever earlier runs left there    *)
(* when they died (rsync_dir, rsync).  Each hypothesis has a configuration *)
(* that shows what happens without it: Rsync_swpname, Rsync_binary and     *)
(* Rsync_second.                                                           *)
THEOREM DoneMeansSyncedHolds ==
  ASSUME NoSwpNames, TextOnly, SizesDiffer
  PROVE  Spec => []DoneMeansSynced
<1>1. SyncedInv /\ [Next]_vars => SyncedInv'
  BY SyncedNext
<1>2. SyncedInv => DoneMeansSynced
  BY DEF SyncedInv
<1> QED
  BY <1>1, <1>2, SyncedInit, PTL DEF Spec
=============================================================================
