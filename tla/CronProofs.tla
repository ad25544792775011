----------------------------- MODULE CronProofs -----------------------------
(***************************************************************************)
(* Theorems about Crontab and Cron.                                        *)
(*                                                                         *)
(* The editor alone, for every set of commands and however often it        *)
(* crashes: a user who keeps to the numbers he is shown, and to ten lines, *)
(* has his lines numbered and his removals hit the right line.             *)
(*                                                                         *)
(* Editor and daemon, for all schedules, clocks and numbers of threads,    *)
(* for careful and careless users, and however often the editor crashes.   *)
(***************************************************************************)
EXTENDS Cron, SequenceTheorems, FiniteSetTheorems, TLAPS

Waiting == {"off", "loop", "prompt"}

(* What is not written yet, and the streams that are open.                 *)
Buffered ==
  /\ pc # "close" => written = <<>>
  /\ pc \in Waiting => entry = NoEntry
  /\ pc \in {"prompt", "close", "close_log"} => streams >= 2

Counted == pc # "off" => line_counter = Len(Coming)
CountInv == TypeOK /\ Buffered /\ Counted

(* With the number of lines known, what is removed is there, and the log   *)
(* can be compared with the table.                                         *)
AccountInv == CountInv /\ LogAccounts

(* The numbers need more: as many lines as there are numbers of one digit. *)
Short == Len(Coming) <= MaxLines
EditInv == CountInv /\ Short /\ Numbered
SmallTable == Careful /\ MaxLines <= 10

-----------------------------------------------------------------------------
LEMMA EntryType ==
  /\ NoEntry \in Entries
  /\ \A c \in Commands : Entry(1, c) \in Entries /\ Entry(-1, c) \in Entries
BY DEF NoEntry, Entry, Entries

(* The character that remove_command puts at the head of a line is the     *)
(* number below the one that was there, for the numbers 1 to 9.            *)
LEMMA Renumber ==
  ASSUME NEW m \in 1 .. 9
  PROVE  [Text(m) EXCEPT ![1] = m + 47] = Text(m - 1)
<1>1. Text(m) = <<48 + m>> /\ Text(m - 1) = <<48 + (m - 1)>>
  BY DEF Text, Digits
<1>2. [<<48 + m>> EXCEPT ![1] = m + 47] = <<m + 47>>
  OBVIOUS
<1> QED
  BY <1>1, <1>2

LEMMA CommandTextType ==
  ASSUME NEW m \in Nat
  PROVE  Text(m) \in Seq(Int)
BY DEF Text, Digits

(* What is copied of a table without its line n is one line shorter, and   *)
(* holds the other commands in their order.                                *)
LEMMA KeptNames ==
  ASSUME table \in Seq(Lines), NEW n \in Nat, n < Len(table)
  PROVE  /\ Kept(n) \in Seq(Lines)
         /\ Len(Kept(n)) = Len(table) - 1
         /\ \A j \in DOMAIN Kept(n) :
              Kept(n)[j].command = table[IF j <= n THEN j ELSE j + 1].command
<1> DEFINE size == Len(table) - 1
<1>1. size \in Nat /\ DOMAIN table = 1 .. size + 1
  OBVIOUS
<1>2. ASSUME NEW j \in 1 .. size
      PROVE  /\ Kept(n)[j] \in Lines
             /\ Kept(n)[j].command = table[IF j <= n THEN j ELSE j + 1].command
  <2>1. table[j] \in Lines /\ table[j + 1] \in Lines
    BY <1>1
  <2>2. CASE j <= n
    <3>1. Kept(n)[j] = table[j]
      BY <2>2 DEF Kept
    <3> QED
      BY <3>1, <2>1, <2>2, <1>1
  <2>3. CASE ~(j <= n)
    <3> DEFINE patched == [table[j + 1].index EXCEPT ![1] = j + 47]
    <3>1. Kept(n)[j] = [table[j + 1] EXCEPT !.index = patched]
      BY <2>3 DEF Kept
    <3>2. patched \in Seq(Int)
      <4> DEFINE s == table[j + 1].index
      <4>1. s \in Seq(Int)
        BY <2>1 DEF Lines
      <4> HIDE DEF s
      <4>2. s \in [1 .. Len(s) -> Int] /\ Len(s) \in Nat /\ j + 47 \in Int
        BY <4>1
      <4>3. [s EXCEPT ![1] = j + 47] \in [1 .. Len(s) -> Int]
        BY <4>2
      <4>4. [s EXCEPT ![1] = j + 47] \in Seq(Int)
        BY <4>2, <4>3
      <4> QED
        BY <4>4 DEF s
    <3>3. Kept(n)[j] = [index |-> patched, command |-> table[j + 1].command]
      BY <3>1, <2>1 DEF Lines
    <3> HIDE DEF patched
    <3> QED
      BY <3>2, <3>3, <2>1, <2>3 DEF Lines
  <2> QED
    BY <2>2, <2>3
<1>3. Kept(n) = [j \in 1 .. size |-> Kept(n)[j]]
  BY DEF Kept
<1>4. Kept(n) \in Seq(Lines) /\ Len(Kept(n)) = size /\ DOMAIN Kept(n) = 1 .. size
  BY <1>1, <1>2, <1>3
<1> QED
  BY <1>2, <1>4

(* If the table was numbered and short, so is the copy.                    *)
LEMMA KeptNumbered ==
  ASSUME table \in Seq(Lines), Len(table) <= 10,
         \A j \in DOMAIN table : table[j].index = Text(j - 1),
         NEW n \in Nat, n < Len(table)
  PROVE  \A j \in DOMAIN Kept(n) : Kept(n)[j].index = Text(j - 1)
<1> SUFFICES ASSUME NEW j \in 1 .. Len(table) - 1
             PROVE  Kept(n)[j].index = Text(j - 1)
  BY DEF Kept
<1>1. table[j] \in Lines /\ table[j + 1] \in Lines /\ DOMAIN table = 1 .. Len(table)
  OBVIOUS
<1>2. CASE j <= n
  BY <1>1, <1>2 DEF Kept
<1>3. CASE ~(j <= n)
  <2>1. Kept(n)[j] = [table[j + 1] EXCEPT !.index = [table[j + 1].index EXCEPT ![1] = j + 47]]
    BY <1>3 DEF Kept
  <2>2. table[j + 1].index = Text(j) /\ j \in 1 .. 9
    BY <1>1, <1>3
  <2> QED
    BY <1>1, <2>1, <2>2, Renumber DEF Lines
<1> QED
  BY <1>2, <1>3

LEMMA UptoAll ==
  ASSUME NEW S, NEW lines \in Seq(S), NEW m \in Int, m >= Len(lines)
  PROVE  Upto(lines, m) = lines
BY DEF Upto

-----------------------------------------------------------------------------
(* The steps on what is counted.                                           *)
LEMMA CountInit == Init => CountInv
<1> SUFFICES ASSUME Init PROVE CountInv
  OBVIOUS
<1> USE CrontabAssumption
<1>1. table \in Seq(Lines) /\ written \in Seq(Lines)
  BY DEF Init
<1>2. logged \in [Commands -> Int]
  BY DEF Init
<1>3. entry \in Entries
  BY EntryType DEF Init
<1>4. line_counter \in Int /\ streams \in Nat /\ crashes \in 0 .. MaxCrashes
  BY DEF Init
<1>5. pc \in {"off", "loop", "prompt", "close", "close_log"} /\ eof \in BOOLEAN
  BY DEF Init
<1> QED
  BY <1>1, <1>2, <1>3, <1>4, <1>5 DEF Init, CountInv, TypeOK, Buffered, Counted, Waiting

LEMMA CountAdd ==
  ASSUME CountInv, NEW c \in Commands, add_command(c)
  PROVE  /\ CountInv'
         /\ Coming = table /\ table' = table /\ line_counter = Len(table)
         /\ \E line \in Lines : /\ line = Line(Text(line_counter), c)
                               /\ Coming' = Append(table, line)
<1> USE CrontabAssumption
<1>1. table \in Seq(Lines) /\ written = <<>> /\ Coming = table
  BY DEF CountInv, TypeOK, Buffered, add_command, Coming
<1>2. line_counter = Len(table) /\ Len(table) \in Nat
  BY <1>1 DEF CountInv, Counted, add_command
<1> DEFINE line == Line(Text(line_counter), c)
<1>3. line \in Lines
  BY <1>2, CommandTextType DEF Line, Lines
<1>4. written' = <<line>> /\ table' = table
  BY DEF add_command, files
<1>5. Coming' = Append(table, line)
  <2>1. Coming' = table \o <<line>>
    BY <1>4 DEF Coming
  <2> HIDE DEF line
  <2>2. table \o <<line>> = Append(table, line)
    BY <1>1, <1>3
  <2> QED
    BY <2>1, <2>2
<1>6. TypeOK'
  <2>1. <<line>> \in Seq(Lines)
    BY <1>3
  <2> QED
    BY <2>1, <1>2, <1>4, EntryType DEF add_command, CountInv, TypeOK, files
<1>7. Buffered'
  BY DEF add_command, CountInv, Buffered, Waiting
<1>8. Counted'
  <2> HIDE DEF line
  <2>1. Len(Append(table, line)) = Len(table) + 1
    BY <1>1, <1>3
  <2> QED
    BY <2>1, <1>2, <1>5 DEF Counted, add_command
<1> QED
  BY <1>1, <1>2, <1>3, <1>4, <1>5, <1>6, <1>7, <1>8 DEF CountInv

LEMMA CountRemove ==
  ASSUME CountInv, Careful, NEW n \in Nat, remove_command(n)
  PROVE  /\ CountInv'
         /\ Coming = table /\ n < Len(table) /\ table' = <<>>
         /\ Coming' = Kept(n) /\ entry' = Entry(-1, table[n + 1].command)
<1> USE CrontabAssumption
<1>1. table \in Seq(Lines) /\ written = <<>> /\ Coming = table
  BY DEF CountInv, TypeOK, Buffered, remove_command, Coming
<1>2. line_counter = Len(table) /\ n < Len(table)
  BY <1>1 DEF CountInv, Counted, remove_command
<1>3. Kept(n) \in Seq(Lines) /\ Len(Kept(n)) = Len(table) - 1
  BY <1>1, <1>2, KeptNames
<1>4. written' = Kept(n) /\ entry' = Entry(-1, table[n + 1].command) /\ table' = <<>>
  BY <1>1, <1>2, <1>3, UptoAll DEF remove_command
<1>5. Coming' = Kept(n)
  BY <1>3, <1>4 DEF Coming
<1>6. TypeOK'
  <2>1. table[n + 1].command \in Commands
    <3>1. table[n + 1] \in Lines
      BY <1>1, <1>2
    <3> QED
      BY <3>1 DEF Lines
  <2> QED
    BY <2>1, <1>3, <1>4, EntryType DEF remove_command, CountInv, TypeOK
<1>7. Buffered'
  BY DEF remove_command, CountInv, Buffered, Waiting
<1>8. Counted'
  BY <1>1, <1>2, <1>3, <1>5 DEF Counted, remove_command
<1> QED
  BY <1>1, <1>2, <1>4, <1>5, <1>6, <1>7, <1>8 DEF CountInv

LEMMA CountClose ==
  ASSUME CountInv, Close
  PROVE  CountInv' /\ Coming' = Coming /\ table' = Coming
<1>1. table \in Seq(Lines) /\ written \in Seq(Lines)
  BY DEF CountInv, TypeOK
<1>2. table' = Coming /\ written' = <<>> /\ Coming \in Seq(Lines)
  BY <1>1 DEF Close, Coming
<1>3. Coming' = Coming
  BY <1>2 DEF Coming
<1>4. TypeOK' /\ Buffered'
  BY <1>2 DEF Close, CountInv, TypeOK, Buffered, Waiting
<1>5. Counted'
  BY <1>3 DEF Close, CountInv, Counted
<1> QED
  BY <1>2, <1>3, <1>4, <1>5 DEF CountInv

(* A crash leaves a beginning of the file that was coming.                 *)
LEMMA CountCrash ==
  ASSUME CountInv, Crash
  PROVE  CountInv' /\ Coming' = table /\ table' = table
<1> USE CrontabAssumption
<1>1. table' = table /\ written' = <<>> /\ Coming' = table
  BY DEF CountInv, TypeOK, Crash, Coming, files
<1>2. TypeOK' /\ Buffered' /\ Counted'
  BY EntryType DEF Crash, CountInv, TypeOK, Buffered, Counted, Waiting, files
<1> QED
  BY <1>1, <1>2 DEF CountInv

(* The other actions leave the table and its buffer alone.                 *)
LEMMA CountOthers ==
  ASSUME CountInv,
         Start \/ Open \/ Refused \/ Unknown \/ Exit \/ CloseLog \/ UNCHANGED vars
  PROVE  CountInv' /\ UNCHANGED <<table, written>> /\ Coming' = Coming
<1> USE CrontabAssumption
<1>1. UNCHANGED <<table, written>>
  BY DEF Start, Open, Refused, Unknown, Exit, CloseLog, Off, vars, files, buffers
<1>2. Coming' = Coming
  BY <1>1 DEF Coming
<1>3. CASE Start
  <2>1. Coming = table
    BY <1>3 DEF Start, CountInv, TypeOK, Buffered, Coming
  <2>2. Len(table) \in Int
    BY DEF CountInv, TypeOK
  <2>3. TypeOK'
    BY <1>3, <2>2 DEF Start, CountInv, TypeOK, files, buffers
  <2> QED
    BY <1>1, <1>2, <1>3, <2>1, <2>3
       DEF Start, CountInv, Buffered, Counted, Waiting, files, buffers
<1>4. CASE Open
  BY <1>1, <1>2, <1>4
     DEF Open, Off, CountInv, TypeOK, Buffered, Counted, Waiting, files, buffers
<1>5. CASE Refused
  BY <1>1, <1>2, <1>5
     DEF Refused, CountInv, TypeOK, Buffered, Counted, Waiting, files, buffers
<1>6. CASE Unknown
  BY <1>1, <1>2, <1>6
     DEF Unknown, CountInv, TypeOK, Buffered, Counted, Waiting, files, buffers
<1>7. CASE Exit
  BY <1>1, <1>2, <1>7
     DEF Exit, Off, CountInv, TypeOK, Buffered, Counted, Waiting, files, buffers
<1>8. CASE CloseLog
  <2>1. entry.by \in Int
    BY DEF CountInv, TypeOK, Entries
  <2>2. \A c \in Commands : logged[c] + (IF c \in entry.command THEN entry.by ELSE 0) \in Int
    BY <2>1 DEF CountInv, TypeOK
  <2>3. logged' \in [Commands -> Int]
    BY <1>8, <2>2 DEF CloseLog
  <2>4. TypeOK'
    BY <1>8, <2>3, EntryType DEF CloseLog, CountInv, TypeOK, Buffered
  <2> QED
    BY <1>1, <1>2, <1>8, <2>4 DEF CloseLog, CountInv, Buffered, Counted, Waiting
<1>9. CASE UNCHANGED vars
  BY <1>1, <1>2, <1>9
     DEF vars, files, buffers, CountInv, TypeOK, Buffered, Counted, Waiting
<1> QED
  BY <1>1, <1>2, <1>3, <1>4, <1>5, <1>6, <1>7, <1>8, <1>9

LEMMA CountInvariance ==
  ASSUME Careful
  PROVE  Spec => []CountInv
<1>1. CountInv /\ [Next]_vars => CountInv'
  <2> SUFFICES ASSUME CountInv, [Next]_vars
               PROVE  CountInv'
    OBVIOUS
  <2>1. ASSUME NEW n \in 0 .. line_counter + 1, remove_command(n)
        PROVE  CountInv'
    <3>1. n \in Nat
      BY DEF CountInv, TypeOK
    <3> QED
      BY <2>1, <3>1, CountRemove
  <2> QED
    BY <2>1, CountAdd, CountClose, CountCrash, CountOthers DEF Next, EditorStep, Serve
<1> QED
  BY <1>1, CountInit, PTL DEF Spec

(* The variables keep their types.                                         *)
THEOREM TypeCorrect ==
  ASSUME Careful
  PROVE  Spec => []TypeOK
BY CountInvariance, PTL DEF CountInv

-----------------------------------------------------------------------------
(* The log.  How often a command stands in a table that gets one line more *)
(* or loses its line n.                                                    *)
LEMMA PlacesFinite ==
  ASSUME NEW s \in Seq(Lines), NEW c
  PROVE  /\ IsFiniteSet(Places(s, c)) /\ Cardinality(Places(s, c)) \in Nat
         /\ Places(s, c) \subseteq 1 .. Len(s)
<1>1. IsFiniteSet(1 .. Len(s))
  BY FS_Interval
<1>2. Places(s, c) \in SUBSET (1 .. Len(s))
  BY DEF Places
<1> QED
  BY <1>1, <1>2, FS_Subset, FS_CardinalityType

LEMMA OneMore ==
  ASSUME NEW s \in Seq(Lines), NEW line \in Lines, NEW c
  PROVE  Cardinality(Places(Append(s, line), c)) =
           Cardinality(Places(s, c)) + IF line.command = c THEN 1 ELSE 0
<1> DEFINE longer == Append(s, line)
<1>1. /\ longer \in Seq(Lines) /\ DOMAIN longer = 1 .. Len(s) + 1 /\ DOMAIN s = 1 .. Len(s)
      /\ \A j \in 1 .. Len(s) : longer[j] = s[j]
      /\ longer[Len(s) + 1] = line /\ Len(s) \in Nat
  BY AppendProperties
<1> HIDE DEF longer
<1>2. /\ IsFiniteSet(Places(s, c)) /\ Cardinality(Places(s, c)) \in Nat
      /\ Len(s) + 1 \notin Places(s, c)
  BY <1>1, PlacesFinite
<1>3. CASE line.command = c
  <2>1. Places(longer, c) = Places(s, c) \cup {Len(s) + 1}
    BY <1>1, <1>3 DEF Places
  <2>2. Cardinality(Places(s, c) \cup {Len(s) + 1}) = Cardinality(Places(s, c)) + 1
    BY <1>2, FS_AddElement
  <2> QED
    BY <1>3, <2>1, <2>2 DEF longer
<1>4. CASE line.command # c
  <2>1. Places(longer, c) = Places(s, c)
    BY <1>1, <1>4 DEF Places
  <2> QED
    BY <1>2, <1>4, <2>1 DEF longer
<1> QED
  BY <1>3, <1>4

LEMMA OneLess ==
  ASSUME table \in Seq(Lines), NEW n \in Nat, n < Len(table), NEW c
  PROVE  Cardinality(Places(Kept(n), c)) =
           Cardinality(Places(table, c)) - IF table[n + 1].command = c THEN 1 ELSE 0
<1> DEFINE there == Places(table, c)
           rest == there \ {n + 1}
           kept == Places(Kept(n), c)
           f == [j \in kept |-> IF j <= n THEN j ELSE j + 1]
<1>1. /\ Kept(n) \in Seq(Lines) /\ Len(Kept(n)) = Len(table) - 1 /\ Len(table) \in Nat
      /\ DOMAIN Kept(n) = 1 .. Len(table) - 1
      /\ \A j \in 1 .. Len(table) - 1 :
           Kept(n)[j].command = table[IF j <= n THEN j ELSE j + 1].command
  BY KeptNames
<1>2. /\ \A j \in kept : j \in 1 .. Len(table) - 1 /\ f[j] \in rest
      /\ \A i \in rest : i \in 1 .. Len(table) /\ \E j \in kept : f[j] = i
  <2>1. ASSUME NEW j \in kept
        PROVE  j \in 1 .. Len(table) - 1 /\ f[j] \in rest
    <3>1. j \in 1 .. Len(table) - 1 /\ Kept(n)[j].command = c
      BY <1>1 DEF Places
    <3> QED
      BY <1>1, <3>1 DEF Places
  <2>2. ASSUME NEW i \in rest
        PROVE  i \in 1 .. Len(table) /\ \E j \in kept : f[j] = i
    <3>1. i \in 1 .. Len(table) /\ table[i].command = c /\ i # n + 1
      BY DEF Places
    <3>2. CASE i <= n
      <4>1. i \in kept
        BY <1>1, <3>1, <3>2 DEF Places
      <4> QED
        BY <3>1, <3>2, <4>1
    <3>3. CASE ~(i <= n)
      <4>1. i - 1 \in 1 .. Len(table) - 1 /\ ~(i - 1 <= n) /\ (i - 1) + 1 = i
        BY <3>1, <3>3
      <4>2. i - 1 \in kept
        BY <1>1, <3>1, <4>1 DEF Places
      <4> QED
        BY <3>1, <4>1, <4>2
    <3> QED
      BY <3>2, <3>3
  <2> QED
    BY <2>1, <2>2
<1>3. f \in Bijection(kept, rest)
  <2>1. f \in [kept -> rest] /\ \A i \in rest : \E j \in kept : f[j] = i
    BY <1>2
  <2>2. \A i, j \in kept : f[i] = f[j] => i = j
    BY <1>2
  <2> HIDE DEF f, kept, rest
  <2> QED
    BY <2>1, <2>2 DEF Bijection, Injection, Surjection, IsInjective
<1>4. ExistsBijection(kept, rest)
  BY <1>3 DEF ExistsBijection
<1>5. IsFiniteSet(kept) /\ IsFiniteSet(there) /\ Cardinality(there) \in Nat
  BY <1>1, PlacesFinite
<1>6. Cardinality(rest) = Cardinality(kept)
  BY <1>4, <1>5, FS_Bijection
<1>7. Cardinality(rest) = IF n + 1 \in there THEN Cardinality(there) - 1 ELSE Cardinality(there)
  BY <1>5, FS_RemoveElement
<1>8. n + 1 \in there <=> table[n + 1].command = c
  BY <1>1 DEF Places
<1> HIDE DEF there, rest, kept
<1> QED
  BY <1>5, <1>6, <1>7, <1>8 DEF there, kept

(* While an entry of by waits for c, c has changed by as much.             *)
LEMMA AccountEntry ==
  ASSUME CountInv, NEW c \in Commands
  PROVE  /\ logged[c] \in Int /\ entry.by \in Int
         /\ Coming \in Seq(Lines) /\ Occurrences(c) \in Nat
<1>1. Coming \in Seq(Lines)
  BY DEF CountInv, TypeOK, Coming
<1> QED
  BY <1>1, PlacesFinite DEF CountInv, TypeOK, Entries, Occurrences

LEMMA AccountAdd ==
  ASSUME AccountInv, NEW c \in Commands, add_command(c)
  PROVE  AccountInv'
<1>1. CountInv
  BY DEF AccountInv
<1>2. PICK line \in Lines : line = Line(Text(line_counter), c) /\ Coming' = Append(table, line)
  BY <1>1, CountAdd
<1>3. CountInv' /\ Coming = table
  BY <1>1, CountAdd
<1>4. line.command = c
  BY <1>2 DEF Line
<1>5. ASSUME crashes = 0, NEW d \in Commands
      PROVE  Occurrences(d)' = logged[d] + IF d = c THEN 1 ELSE 0
  <2>1. Occurrences(d)' = Occurrences(d) + IF d = c THEN 1 ELSE 0
    <3>1. table \in Seq(Lines)
      BY <1>1 DEF CountInv, TypeOK
    <3> QED
      BY <1>2, <1>3, <1>4, <3>1, OneMore DEF Occurrences
  <2>2. entry = NoEntry
    BY <1>1 DEF CountInv, Buffered, Waiting, add_command
  <2>3. Occurrences(d) = logged[d] + 0
    BY <1>5, <2>2 DEF AccountInv, LogAccounts, NoEntry
  <2> QED
    BY <1>1, <2>1, <2>3, AccountEntry
<1>6. entry' = Entry(1, c) /\ logged' = logged /\ crashes' = crashes
  BY DEF add_command, files
<1>7. \A d \in Commands : (IF d = c THEN 1 ELSE 0) = (IF d \in entry'.command THEN entry'.by ELSE 0)
  BY <1>6 DEF Entry
<1> QED
  BY <1>3, <1>5, <1>6, <1>7 DEF AccountInv, LogAccounts

LEMMA AccountRemove ==
  ASSUME AccountInv, Careful, NEW n \in Nat, remove_command(n)
  PROVE  AccountInv'
<1> DEFINE c == table[n + 1].command
<1>1. CountInv
  BY DEF AccountInv
<1>2. /\ CountInv' /\ Coming = table /\ n < Len(table)
      /\ Coming' = Kept(n) /\ entry' = Entry(-1, c)
  BY <1>1, CountRemove
<1>3. ASSUME crashes = 0, NEW d \in Commands
      PROVE  Occurrences(d)' = logged[d] + IF d = c THEN -1 ELSE 0
  <2>1. Occurrences(d)' = Occurrences(d) - IF c = d THEN 1 ELSE 0
    <3>1. table \in Seq(Lines)
      BY <1>1 DEF CountInv, TypeOK
    <3> QED
      BY <1>2, <3>1, OneLess DEF Occurrences
  <2>2. entry = NoEntry
    BY <1>1 DEF CountInv, Buffered, Waiting, remove_command
  <2>3. Occurrences(d) = logged[d] + 0
    BY <1>3, <2>2 DEF AccountInv, LogAccounts, NoEntry
  <2> HIDE DEF c
  <2> QED
    BY <1>1, <2>1, <2>3, AccountEntry
<1>4. logged' = logged /\ crashes' = crashes
  BY DEF remove_command
<1>5. \A d \in Commands : (IF d = c THEN -1 ELSE 0) = (IF d \in entry'.command THEN entry'.by ELSE 0)
  BY <1>2 DEF Entry
<1> HIDE DEF c
<1> QED
  BY <1>2, <1>3, <1>4, <1>5 DEF AccountInv, LogAccounts

LEMMA AccountClose ==
  ASSUME AccountInv, CloseLog
  PROVE  AccountInv'
<1>1. CountInv' /\ Coming' = Coming
  BY CountOthers DEF AccountInv
<1>2. ASSUME crashes = 0, NEW c \in Commands
      PROVE  Occurrences(c)' = logged'[c]
  BY <1>1, <1>2 DEF AccountInv, LogAccounts, Occurrences, CloseLog
<1>3. entry' = NoEntry /\ crashes' = crashes
  BY DEF CloseLog
<1>4. \A c \in Commands : logged'[c] \in Int
  BY <1>1 DEF CountInv, TypeOK
<1>5. \A c \in Commands : c \notin entry'.command
  BY <1>3 DEF NoEntry
<1> QED
  BY <1>1, <1>2, <1>3, <1>4, <1>5 DEF AccountInv, LogAccounts

(* As long as no crash came in between, the log accounts for the table,    *)
(* whatever was added and removed and however many lines there are.        *)
THEOREM LogAccountsHolds ==
  ASSUME Careful
  PROVE  Spec => []LogAccounts
<1>1. Init => AccountInv
  <2> SUFFICES ASSUME Init PROVE AccountInv
    OBVIOUS
  <2>1. ASSUME NEW c \in Commands
        PROVE  Occurrences(c) = logged[c] + (IF c \in entry.command THEN entry.by ELSE 0)
    <3>1. Coming = <<>>
      BY DEF Init, Coming
    <3>2. Places(Coming, c) = {}
      BY <3>1 DEF Places
    <3>3. Occurrences(c) = 0
      BY <3>2, FS_EmptySet DEF Occurrences
    <3> QED
      BY <3>3 DEF Init, NoEntry
  <2> QED
    BY <2>1, CountInit DEF AccountInv, LogAccounts
<1>2. AccountInv /\ [Next]_vars => AccountInv'
  <2> SUFFICES ASSUME AccountInv, [Next]_vars
               PROVE  AccountInv'
    OBVIOUS
  <2>1. ASSUME NEW c \in Commands, add_command(c)
        PROVE  AccountInv'
    BY <2>1, AccountAdd
  <2>2. ASSUME NEW n \in 0 .. line_counter + 1, remove_command(n)
        PROVE  AccountInv'
    <3>1. n \in Nat
      BY DEF AccountInv, CountInv, TypeOK
    <3> QED
      BY <2>2, <3>1, AccountRemove
  <2>3. CASE Close
    BY <2>3, CountClose DEF AccountInv, LogAccounts, Occurrences, Close
  <2>4. CASE Crash
    <3>1. crashes' # 0
      BY <2>4 DEF Crash, AccountInv, CountInv, TypeOK
    <3> QED
      BY <2>4, <3>1, CountCrash DEF AccountInv, LogAccounts
  <2>5. CASE CloseLog
    BY <2>5, AccountClose
  <2>6. CASE Start \/ Open \/ Refused \/ Unknown \/ Exit \/ UNCHANGED vars
    <3>1. UNCHANGED <<logged, entry, crashes>>
      BY <2>6 DEF Start, Open, Refused, Unknown, Exit, Off, vars, files, buffers
    <3>2. CountInv' /\ Coming' = Coming
      BY <2>6, CountOthers DEF AccountInv
    <3> QED
      BY <3>1, <3>2 DEF AccountInv, LogAccounts, Occurrences
  <2> QED
    BY <2>1, <2>2, <2>3, <2>4, <2>5, <2>6 DEF Next, EditorStep, Serve
<1>3. AccountInv => LogAccounts
  BY DEF AccountInv
<1> QED
  BY <1>1, <1>2, <1>3, PTL DEF Spec

-----------------------------------------------------------------------------
(* The numbers, for at most ten lines.                                     *)
LEMMA EditAdd ==
  ASSUME EditInv, NEW c \in Commands, add_command(c)
  PROVE  EditInv'
<1> USE CrontabAssumption
<1>1. CountInv /\ table \in Seq(Lines)
  BY DEF EditInv, CountInv, TypeOK
<1>2. PICK line \in Lines : line = Line(Text(line_counter), c) /\ Coming' = Append(table, line)
  BY <1>1, CountAdd
<1>3. CountInv' /\ Coming = table /\ line_counter = Len(table)
  BY <1>1, CountAdd
<1>4. Short'
  BY <1>1, <1>2, <1>3 DEF Short, add_command
<1>5. ASSUME NEW j \in DOMAIN Coming'
      PROVE  Coming'[j].index = Text(j - 1)
  <2>1. CASE j <= Len(table)
    BY <2>1, <1>1, <1>2, <1>3, <1>5 DEF EditInv, Numbered
  <2>2. CASE j = Len(table) + 1
    BY <2>2, <1>1, <1>2, <1>3 DEF Line
  <2> QED
    BY <2>1, <2>2, <1>1, <1>2, <1>5
<1> QED
  BY <1>3, <1>4, <1>5 DEF EditInv, Numbered, CountInv, Counted

LEMMA EditRemove ==
  ASSUME EditInv, SmallTable, NEW n \in Nat, remove_command(n)
  PROVE  EditInv'
<1> USE CrontabAssumption
<1>1. /\ CountInv' /\ Coming = table /\ n < Len(table)
      /\ Coming' = Kept(n) /\ table \in Seq(Lines)
  BY CountRemove DEF EditInv, SmallTable, CountInv, TypeOK
<1>2. Len(table) <= 10 /\ \A j \in DOMAIN table : table[j].index = Text(j - 1)
  BY <1>1 DEF EditInv, Short, Numbered, SmallTable
<1>3. /\ Len(Kept(n)) = Len(table) - 1
      /\ \A j \in DOMAIN Kept(n) : Kept(n)[j].index = Text(j - 1)
  BY <1>1, <1>2, KeptNumbered, KeptNames
<1> QED
  BY <1>1, <1>2, <1>3 DEF EditInv, Short, Numbered, CountInv, Counted

LEMMA EditInvariance ==
  ASSUME SmallTable
  PROVE  Spec => []EditInv
<1>1. Init => EditInv
  <2> SUFFICES ASSUME Init PROVE EditInv
    OBVIOUS
  <2>1. Coming = <<>> /\ Len(Coming) = 0
    BY DEF Init, Coming
  <2> QED
    BY <2>1, CountInit, CrontabAssumption DEF Init, EditInv, Short, Numbered
<1>2. EditInv /\ [Next]_vars => EditInv'
  <2> SUFFICES ASSUME EditInv, [Next]_vars
               PROVE  EditInv'
    OBVIOUS
  <2>1. ASSUME NEW c \in Commands, add_command(c)
        PROVE  EditInv'
    BY <2>1, EditAdd
  <2>2. ASSUME NEW n \in 0 .. line_counter + 1, remove_command(n)
        PROVE  EditInv'
    <3>1. n \in Nat
      BY DEF EditInv, CountInv, TypeOK
    <3> QED
      BY <2>2, <3>1, EditRemove
  <2>3. CASE Close
    BY <2>3, CountClose DEF EditInv, CountInv, Counted, Short, Numbered
  <2>4. CASE Crash
    <3>1. CountInv' /\ Coming' = table
      BY <2>4, CountCrash DEF EditInv
    <3>2. /\ table \in Seq(Lines) /\ written \in Seq(Lines)
          /\ \A j \in DOMAIN Coming : Coming[j].index = Text(j - 1)
      BY DEF EditInv, CountInv, TypeOK, Numbered
    <3>3. Short'
      <4>1. Len(Coming) = Len(table) + Len(written) /\ Len(written) \in Nat
        BY <3>2 DEF Coming
      <4> QED
        BY <4>1, <3>1, <3>2, CrontabAssumption DEF EditInv, Short
    <3>4. ASSUME NEW j \in DOMAIN table
          PROVE  table[j].index = Text(j - 1)
      BY <3>2 DEF Coming
    <3> QED
      BY <3>1, <3>3, <3>4 DEF EditInv, Numbered, CountInv, Counted
  <2>5. CASE Start \/ Open \/ Refused \/ Unknown \/ Exit \/ CloseLog \/ UNCHANGED vars
    BY <2>5, CountOthers DEF EditInv, CountInv, Counted, Short, Numbered
  <2> QED
    BY <2>1, <2>2, <2>3, <2>4, <2>5 DEF Next, EditorStep, Serve
<1> QED
  BY <1>1, <1>2, PTL DEF Spec

-----------------------------------------------------------------------------
(* The counter is the number of lines, and a line's number its position.   *)
THEOREM NumberedHolds ==
  ASSUME SmallTable
  PROVE  Spec => []Numbered
BY EditInvariance, PTL DEF EditInv

-----------------------------------------------------------------------------
LEMMA NamesType ==
  ASSUME NEW lines \in Seq(Lines)
  PROVE  /\ Names(lines) \in Seq(Commands)
         /\ Len(Names(lines)) = Len(lines)
         /\ \A j \in 1 .. Len(lines) : Names(lines)[j] = lines[j].command
<1>1. \A j \in 1 .. Len(lines) : lines[j].command \in Commands
  <2>1. \A j \in 1 .. Len(lines) : lines[j] \in Lines
    OBVIOUS
  <2> QED
    BY <2>1 DEF Lines
<1> QED
  BY <1>1 DEF Names

LEMMA AddRefines ==
  ASSUME CountInv, NEW c \in Commands, add_command(c)
  PROVE  Abstract!Add(c)
<1> DEFINE line == Line(Text(line_counter), c)
<1>1. table \in Seq(Lines) /\ written = <<>> /\ Coming = table
  BY DEF CountInv, TypeOK, Buffered, add_command, Coming
<1>2. line \in Lines /\ line.command = c
  <2>1. line_counter \in Nat
    BY <1>1 DEF CountInv, Counted, add_command
  <2> QED
    BY <2>1, CommandTextType DEF Line, Lines
<1>3. written' = <<line>> /\ table' = table
  BY DEF add_command, files
<1>4. Coming' = Append(table, line)
  <2>1. Coming' = table \o <<line>>
    BY <1>3 DEF Coming
  <2>2. table \o <<line>> = Append(table, line)
    BY <1>1, <1>2
  <2> QED
    BY <2>1, <2>2
<1>5. Names(Append(table, line)) = Append(Names(table), c)
  <2> DEFINE longer == Append(table, line)
             s == Names(longer)
             t == Append(Names(table), c)
  <2>1. /\ longer \in Seq(Lines) /\ Len(longer) = Len(table) + 1 /\ Len(table) \in Nat
        /\ \A j \in 1 .. Len(table) : longer[j] = table[j]
        /\ longer[Len(table) + 1] = line
    BY <1>1, <1>2, AppendProperties
  <2>2. /\ s \in Seq(Commands) /\ Len(s) = Len(table) + 1
        /\ \A j \in 1 .. Len(table) + 1 : s[j] = longer[j].command
    BY <2>1, NamesType
  <2>3. /\ Names(table) \in Seq(Commands) /\ Len(Names(table)) = Len(table)
        /\ \A j \in 1 .. Len(table) : Names(table)[j] = table[j].command
    BY <1>1, NamesType
  <2>4. /\ t \in Seq(Commands) /\ Len(t) = Len(table) + 1
        /\ \A j \in 1 .. Len(table) : t[j] = Names(table)[j]
        /\ t[Len(table) + 1] = c
    BY <2>3, AppendProperties
  <2> HIDE DEF longer, s, t
  <2>5. \A j \in 1 .. Len(s) : s[j] = t[j]
    BY <2>1, <2>2, <2>3, <2>4, <1>2
  <2>6. s = t
    BY <2>2, <2>4, <2>5, SeqEqual
  <2> QED
    BY <2>6 DEF s, t, longer
<1> QED
  BY <1>1, <1>3, <1>4, <1>5 DEF Abstract!Add, Abstract!Change, Entry, add_command

LEMMA RemoveRefines ==
  ASSUME CountInv, Careful, NEW n \in Nat, remove_command(n)
  PROVE  n < Len(Coming) /\ Abstract!Delete(n)
<1>1. table \in Seq(Lines) /\ written = <<>> /\ Coming = table
  BY DEF CountInv, TypeOK, Buffered, remove_command, Coming
<1>2. n < Len(table) /\ table' = <<>> /\ Coming' = Kept(n)
  BY CountRemove
<1>4. /\ Kept(n) \in Seq(Lines) /\ Len(Kept(n)) = Len(table) - 1
      /\ \A j \in DOMAIN Kept(n) :
           Kept(n)[j].command = table[IF j <= n THEN j ELSE j + 1].command
  BY <1>1, <1>2, KeptNames
<1>5. Coming' = Kept(n)
  BY <1>2
<1>6. Names(Kept(n)) = Abstract!RemoveAt(Names(table), n + 1)
  <2> DEFINE s == Names(table)
             t == Names(Kept(n))
             a == SubSeq(s, 1, n)
             b == SubSeq(s, n + 2, Len(s))
  <2>1. /\ Len(table) \in Nat /\ s \in Seq(Commands) /\ Len(s) = Len(table)
        /\ \A j \in 1 .. Len(table) : s[j] = table[j].command
    BY <1>1, NamesType
  <2>2. /\ t \in Seq(Commands) /\ Len(t) = Len(table) - 1
        /\ \A j \in 1 .. Len(table) - 1 : t[j] = table[IF j <= n THEN j ELSE j + 1].command
    <3>1. /\ t \in Seq(Commands) /\ Len(t) = Len(Kept(n))
          /\ \A j \in 1 .. Len(Kept(n)) : t[j] = Kept(n)[j].command
      BY <1>4, NamesType
    <3>2. DOMAIN Kept(n) = 1 .. Len(Kept(n))
      BY <1>4
    <3> HIDE DEF t
    <3> QED
      BY <3>1, <3>2, <1>4
  <2> HIDE DEF s, t
  <2>3. a \in Seq(Commands) /\ Len(a) = n /\ \A j \in 1 .. n : a[j] = s[j]
    BY <2>1, <1>2
  <2>4. /\ b \in Seq(Commands) /\ Len(b) = Len(s) - n - 1
        /\ \A j \in 1 .. Len(s) - n - 1 : b[j] = s[n + 1 + j]
    BY <2>1, <1>2
  <2>5. Abstract!RemoveAt(s, n + 1) = a \o b
    <3>1. (n + 1) - 1 = n /\ (n + 1) + 1 = n + 2
      OBVIOUS
    <3> QED
      BY <3>1 DEF Abstract!RemoveAt
  <2> HIDE DEF a, b
  <2>6. /\ a \o b \in Seq(Commands) /\ Len(a \o b) = Len(table) - 1
        /\ \A j \in 1 .. Len(table) - 1 : (a \o b)[j] = IF j <= n THEN a[j] ELSE b[j - n]
    BY <2>1, <2>3, <2>4, <1>2, ConcatProperties
  <2>7. ASSUME NEW j \in 1 .. Len(table) - 1
        PROVE  t[j] = (a \o b)[j]
    <3>1. CASE j <= n
      <4>1. j \in 1 .. n /\ j \in 1 .. Len(table)
        BY <3>1, <2>1
      <4>2. (a \o b)[j] = a[j] /\ t[j] = table[j].command
        BY <3>1, <2>2, <2>6
      <4> QED
        BY <4>1, <4>2, <2>1, <2>3
    <3>2. CASE ~(j <= n)
      <4>1. j - n \in 1 .. Len(s) - n - 1 /\ n + 1 + (j - n) = j + 1
        BY <3>2, <2>1
      <4>2. (a \o b)[j] = s[j + 1] /\ j + 1 \in 1 .. Len(table)
        BY <3>2, <4>1, <2>1, <2>4, <2>6
      <4> QED
        BY <3>2, <4>2, <2>1, <2>2
    <3> QED
      BY <3>1, <3>2
  <2>8. t = a \o b
    BY <2>2, <2>6, <2>7, SeqEqual
  <2> QED
    BY <2>5, <2>8 DEF s, t
<1>7. Names(table') = <<>>
  BY <1>2 DEF Names
<1> QED
  <2>1. Names(table)[n + 1] = table[n + 1].command
    BY <1>1, <1>2, NamesType
  <2>2. entry' = Abstract!Change(-1, Names(table)[n + 1])
    BY <2>1, <1>2 DEF remove_command, Abstract!Change, Entry
  <2> QED
    BY <2>2, <1>1, <1>2, <1>5, <1>6, <1>7, NamesType DEF Abstract!Delete

(* Every step of the editor is a step of the list of commands, or leaves   *)
(* the list and its saved state alone.                                     *)
LEMMA StepRefines ==
  ASSUME CountInv, Careful, [Next]_vars
  PROVE  [Abstract!Next]_(Abstract!vars)
<1>1. ASSUME NEW c \in Commands, add_command(c)
      PROVE  Abstract!Next
  BY <1>1, AddRefines DEF Abstract!Next
<1>2. ASSUME NEW n \in 0 .. line_counter + 1, remove_command(n)
      PROVE  Abstract!Next
  <2>1. n \in Nat
    BY DEF CountInv, TypeOK
  <2>2. Coming \in Seq(Lines)
    BY DEF CountInv, TypeOK, Coming
  <2>3. n < Len(Coming) /\ Abstract!Delete(n)
    BY <1>2, <2>1, RemoveRefines
  <2>4. n \in 0 .. Len(Names(Coming))
    BY <2>1, <2>2, <2>3, NamesType
  <2> QED
    BY <2>3, <2>4 DEF Abstract!Next
<1>3. CASE Close
  BY <1>3, CountClose DEF Close, Abstract!Next, Abstract!Saved
<1>4. CASE Crash
  BY <1>4, CountCrash DEF Crash, NoEntry, Abstract!Next, Abstract!Crash, Abstract!NoChange
<1>5. CASE Start \/ Open \/ Refused \/ Unknown \/ Exit \/ UNCHANGED vars
  <2>1. table' = table /\ Coming' = Coming
    BY <1>5, CountOthers
  <2>2. entry' = entry
    BY <1>5 DEF Start, Open, Refused, Unknown, Exit, Off, vars, buffers
  <2> QED
    BY <2>1, <2>2 DEF Abstract!vars
<1>6. CASE CloseLog
  <2>1. table' = table /\ Coming' = Coming
    BY <1>6, CountOthers
  <2> QED
    BY <2>1, <1>6 DEF CloseLog, NoEntry, Abstract!Next, Abstract!Logged, Abstract!NoChange
<1> QED
  BY <1>1, <1>2, <1>3, <1>4, <1>5, <1>6 DEF Next, EditorStep, Serve

(* The editor implements the list of commands: the n-th command is the one *)
(* that REMOVE n takes away, and a crash loses no more than it says there. *)
THEOREM ListRefined ==
  ASSUME Careful
  PROVE  Spec => CommandTableSpec
<1>1. Init => Abstract!Init
  <2> SUFFICES ASSUME Init PROVE Abstract!Init
    OBVIOUS
  <2>1. Coming = <<>> /\ table = <<>>
    BY DEF Init, Coming
  <2> QED
    BY <2>1 DEF Init, NoEntry, Abstract!Init, Abstract!NoChange, Names
<1>2. CountInv /\ [Next]_vars => [Abstract!Next]_(Abstract!vars)
  BY StepRefines, Careful
<1> QED
  BY <1>1, <1>2, CountInvariance, PTL DEF Spec, CommandTableSpec, Abstract!Spec

-----------------------------------------------------------------------------
(***************************************************************************)
(* Editor and daemon.                                                      *)
(***************************************************************************)
Threads == Daemon!Threads
Nothing == Daemon!Nothing
Order == Daemon!Order

(* Where main has a line in its hands that has no thread yet, and where    *)
(* its last line has one.                                                  *)
Treating == {"separate", "separated", "clear", "fill", "create"}
Settled == {"destroy", "fgets", "sleep"}
Between == Settled \cup {"dead"}

-----------------------------------------------------------------------------
(* The editor keeps a table of lines with every command once, and these    *)
(* are commands that are wanted.                                           *)
Commanded(lines) == {lines[j].command : j \in DOMAIN lines}
Distinct(lines) == \A i, j \in DOMAIN lines : lines[i].command = lines[j].command => i = j

Filed ==
  /\ table \in Seq(Lines) /\ written \in Seq(Lines)
  /\ line_counter \in Int
  /\ pc # "close" => written = <<>>
  /\ Distinct(Coming)
  /\ Commanded(Coming) \subseteq wanted

(* The daemon knows nothing before it is started, and afterwards only what *)
(* was wanted then or has been added since.                                *)
Asleep == on \/ Daemon!DaemonInit

Allowed ==
  /\ wanted \subseteq Commands /\ allowed \subseteq Commands
  /\ on => wanted \subseteq allowed
  /\ offset \in Nat
  /\ unread \in Seq(Lines) /\ Commanded(unread) \subseteq allowed
  /\ mpc \in Treating \cup Between
  /\ buf.command \in allowed \/ (buf = Daemon!NoLine /\ mpc \in Between /\ created = 0)
  /\ command.of \subseteq allowed
  /\ DOMAIN ran = Threads
  /\ RemovedStaysOut

WantedInv == Filed /\ on \in BOOLEAN /\ Asleep /\ Allowed

-----------------------------------------------------------------------------
(* A thread that does not exist has done nothing.                          *)
Created ==
  /\ created \in 0 .. MaxThreads
  /\ mpc \in Treating => created < MaxThreads
  /\ DOMAIN tpc = Threads /\ DOMAIN ran = Threads /\ DOMAIN line_of = Threads
  /\ \A t \in Threads : t > created => tpc[t] = "none" /\ ran[t] = Nothing

(* The command in the globals is that of the line main has in its hands,   *)
(* the last line before it, or both.                                       *)
Loaded ==
  /\ mpc \in Treating \cup Between
  /\ mpc \in {"clear", "fill", "create"} => command = Daemon!Text(buf)
  /\ mpc \in Settled /\ created > 0 => buf = line_of[created] /\ command = Daemon!Text(buf)
  /\ created = 0 /\ mpc \in Settled \cup {"separate"} => command = Nothing
  /\ command.of \subseteq
       {buf.command} \cup (IF created > 0 THEN {line_of[created].command} ELSE {})

OrderInv == Created /\ Loaded /\ NoOlderCommand

-----------------------------------------------------------------------------
Marked(line, m) == Daemon!make_timetable(Order[m], Daemon!Token(line, m))

(* The time tables are those of the line in hand, as far as they are       *)
(* filled, and as long as no other line is taken up.                       *)
Filled ==
  /\ DOMAIN timetable = Daemon!Fields
  /\ mpc = "fill" =>
       /\ k \in 1 .. 5
       /\ \A m \in 1 .. 5 : timetable[Order[m]] = IF m < k THEN Marked(buf, m) ELSE {}
  /\ mpc = "create" \/ (mpc \in Settled /\ created > 0) =>
       \A m \in 1 .. 5 : timetable[Order[m]] = Marked(buf, m)

(* Within the first minute all threads see the same time.                  *)
FirstMinute ==
  /\ now \in Nat \ {0}
  /\ now = 1 => tm = 1 /\ rawtime = [t \in Threads |-> 1]

Passes(m) == Times[1][Order[m]] \in timetable[Order[m]]

(* How far the thread of the last line has come with its tests.            *)
Judged(t) ==
  /\ tpc[t] \in {Order[m] : m \in 1 .. 5} \cup {"time", "lock", "system", "log", "unlock", "done"}
  /\ \A m \in 1 .. 5 : tpc[t] = Order[m] => \A j \in 1 .. m - 1 : Passes(j)
  /\ tpc[t] \in {"lock", "system", "log", "unlock"} => \A j \in 1 .. 5 : Passes(j)
  /\ tpc[t] \in {"log", "unlock"} => ran[t] = command
  /\ tpc[t] \notin {"log", "unlock", "done"} => ran[t] = Nothing
  /\ tpc[t] = "done" =>
       ran[t] = IF \A j \in 1 .. 5 : Passes(j) THEN command ELSE Nothing

LastJudged == mpc \in Settled /\ now = 1 => \A t \in Threads : t = created => Judged(t)

LastInv == Filled /\ FirstMinute /\ LastJudged

(* The months of the lines are months that the two ways of counting agree  *)
(* about: the table is marked from 1, and read with tm_mon, which counts   *)
(* from 0.                                                                 *)
MonthsAgree ==
  \A c \in Commands :
    LET marked == Daemon!make_timetable("month", FieldsOf[c]["month"]) IN
    Times[1]["month"] \in marked <=> Times[1]["month"] + 1 \in marked

-----------------------------------------------------------------------------
LEMMA TextType ==
  ASSUME NEW m \in Int
  PROVE  Text(m) \in Seq(Int)
<1>1. \A n \in Nat : Digits(n) \in Seq(Int)
  BY DEF Digits
<1>2. CASE m < 0
  <2>1. Digits(-m) \in Seq(Int) /\ <<45>> \in Seq(Int)
    BY <1>1, <1>2
  <2>2. \A s, t \in Seq(Int) : s \o t \in Seq(Int)
    OBVIOUS
  <2> QED
    BY <1>2, <2>1, <2>2 DEF Text
<1>3. CASE ~(m < 0)
  BY <1>1, <1>3 DEF Text
<1> QED
  BY <1>2, <1>3

LEMMA FirstChanged ==
  ASSUME NEW s \in Seq(Int), NEW x \in Int
  PROVE  [s EXCEPT ![1] = x] \in Seq(Int)
<1>1. CASE Len(s) >= 1
  <2>1. 1 \in 1 .. Len(s)
    BY <1>1
  <2> QED
    BY <2>1, ExceptSeq
<1>2. CASE ~(Len(s) >= 1)
  <2>1. s = <<>>
    BY <1>2
  <2>2. [<<>> EXCEPT ![1] = x] = <<>>
    OBVIOUS
  <2> QED
    BY <2>1, <2>2
<1> QED
  BY <1>1, <1>2

(* A removal keeps the commands of the other lines, whatever it makes of   *)
(* their numbers.                                                          *)
LEMMA KeptCommands ==
  ASSUME table \in Seq(Lines), NEW n \in Nat, n < Len(table)
  PROVE  /\ Kept(n) \in Seq(Lines)
         /\ DOMAIN Kept(n) = 1 .. Len(table) - 1
         /\ \A j \in 1 .. Len(table) - 1 :
              Kept(n)[j].command = table[IF j <= n THEN j ELSE j + 1].command
<1> DEFINE size == Len(table) - 1
<1>1. size \in Nat /\ DOMAIN table = 1 .. size + 1
  OBVIOUS
<1>2. ASSUME NEW j \in 1 .. size
      PROVE  /\ Kept(n)[j] \in Lines
             /\ Kept(n)[j].command = table[IF j <= n THEN j ELSE j + 1].command
  <2>1. table[j] \in Lines /\ table[j + 1] \in Lines
    BY <1>1
  <2>2. CASE j <= n
    BY <2>1, <2>2 DEF Kept
  <2>3. CASE ~(j <= n)
    <3> DEFINE index == [table[j + 1].index EXCEPT ![1] = j + 47]
    <3>1. Kept(n)[j] = [table[j + 1] EXCEPT !.index = index]
      BY <2>3 DEF Kept
    <3>2. table[j + 1].index \in Seq(Int)
      BY <2>1 DEF Lines
    <3>3. index \in Seq(Int)
      BY <3>2, FirstChanged
    <3> HIDE DEF index
    <3>4. Kept(n)[j] = [index |-> index, command |-> table[j + 1].command]
      BY <3>1, <2>1 DEF Lines
    <3> QED
      BY <3>3, <3>4, <2>1, <2>3 DEF Lines
  <2> QED
    BY <2>2, <2>3
<1>3. Kept(n) = [j \in 1 .. size |-> Kept(n)[j]]
  BY DEF Kept
<1> QED
  BY <1>1, <1>2, <1>3

LEMMA UptoPrefix ==
  ASSUME NEW lines \in Seq(Lines), NEW m \in Int
  PROVE  /\ Upto(lines, m) \in Seq(Lines)
         /\ DOMAIN Upto(lines, m) \subseteq DOMAIN lines
         /\ \A j \in DOMAIN Upto(lines, m) : Upto(lines, m)[j] = lines[j]
<1> DEFINE size == IF m < Len(lines) THEN m ELSE Len(lines)
<1>1. Upto(lines, m) = [j \in 1 .. size |-> lines[j]]
  BY DEF Upto
<1>2. \A j \in 1 .. size : j \in DOMAIN lines /\ lines[j] \in Lines
  OBVIOUS
<1>3. CASE m < 0
  <2>1. 1 .. size = 1 .. 0
    BY <1>3
  <2> QED
    BY <1>1, <1>2, <2>1
<1>4. CASE ~(m < 0)
  <2>1. size \in Nat
    BY <1>4
  <2> QED
    BY <1>1, <1>2, <2>1
<1> QED
  BY <1>3, <1>4

(* What has some of the lines of a table in their order has each command   *)
(* once if the table has.                                                  *)
LEMMA PartDistinct ==
  ASSUME NEW lines, NEW part, DOMAIN part \subseteq DOMAIN lines,
         \A j \in DOMAIN part : part[j] = lines[j],
         Distinct(lines), NEW commands, Commanded(lines) \subseteq commands
  PROVE  Distinct(part) /\ Commanded(part) \subseteq commands
BY DEF Distinct, Commanded

-----------------------------------------------------------------------------
(* The user and the editor.                                                *)
LEMMA AddFiled ==
  ASSUME Filed, NEW c \in Commands, AddWanted(c)
  PROVE  Filed'
<1> DEFINE line == Line(Text(line_counter), c)
<1>1. table \in Seq(Lines) /\ written = <<>> /\ line_counter \in Int
  BY DEF Filed, AddWanted, add_command
<1>2. Coming = table
  BY <1>1 DEF Coming
<1>3. line \in Lines /\ line.command = c
  BY <1>1, TextType DEF Line, Lines
<1>4. table' = table /\ written' = <<line>>
  BY DEF AddWanted, add_command, files
<1>5. Coming' = Append(table, line)
  <2>1. table \o <<line>> = Append(table, line)
    BY <1>1, <1>3
  <2> QED
    BY <1>4, <2>1 DEF Coming
<1> HIDE DEF line
<1>6. /\ Append(table, line) \in Seq(Lines)
      /\ DOMAIN Append(table, line) = 1 .. Len(table) + 1
      /\ \A j \in 1 .. Len(table) : Append(table, line)[j] = table[j]
      /\ Append(table, line)[Len(table) + 1] = line
  BY <1>1, <1>3, AppendProperties
<1>7. Distinct(table) /\ Commanded(table) \subseteq wanted
  BY <1>2 DEF Filed
<1>8. \A j \in DOMAIN table : table[j].command \in wanted
  BY <1>7 DEF Commanded
<1>9. c \notin wanted /\ wanted' = wanted \cup {c}
  BY DEF AddWanted
<1>10. DOMAIN table = 1 .. Len(table) /\ Len(table) \in Nat
  BY <1>1
<1>11. Distinct(Append(table, line))
  <2> SUFFICES ASSUME NEW i \in 1 .. Len(table) + 1, NEW j \in 1 .. Len(table) + 1,
                      Append(table, line)[i].command = Append(table, line)[j].command
               PROVE  i = j
    BY <1>6 DEF Distinct
  <2>1. CASE i \in 1 .. Len(table) /\ j \in 1 .. Len(table)
    BY <2>1, <1>6, <1>7, <1>10 DEF Distinct
  <2>2. CASE i \in 1 .. Len(table) /\ j = Len(table) + 1
    BY <2>2, <1>3, <1>6, <1>8, <1>9, <1>10
  <2>3. CASE i = Len(table) + 1 /\ j \in 1 .. Len(table)
    BY <2>3, <1>3, <1>6, <1>8, <1>9, <1>10
  <2> QED
    BY <2>1, <2>2, <2>3, <1>10
<1>12. Commanded(Append(table, line)) \subseteq wanted'
  <2> SUFFICES ASSUME NEW j \in 1 .. Len(table) + 1
               PROVE  Append(table, line)[j].command \in wanted'
    BY <1>6 DEF Commanded
  <2>1. CASE j \in 1 .. Len(table)
    BY <2>1, <1>6, <1>8, <1>9, <1>10
  <2>2. CASE j = Len(table) + 1
    BY <2>2, <1>3, <1>6, <1>9
  <2> QED
    BY <2>1, <2>2, <1>10
<1>13. line_counter' \in Int /\ pc' = "close"
  BY <1>1 DEF AddWanted, add_command
<1>14. Distinct(Coming)' /\ (Commanded(Coming) \subseteq wanted)'
  BY <1>5, <1>11, <1>12
<1>15. written' \in Seq(Lines)
  BY <1>3, <1>4
<1> QED
  BY <1>1, <1>4, <1>13, <1>14, <1>15 DEF Filed

LEMMA RemoveFiled ==
  ASSUME Filed, NEW n \in Nat, RemoveWanted(n)
  PROVE  Filed'
<1>1. table \in Seq(Lines) /\ written = <<>> /\ line_counter \in Int
  BY DEF Filed, RemoveWanted, remove_command
<1>2. Distinct(table) /\ Commanded(table) \subseteq wanted
  BY <1>1 DEF Filed, Coming
<1>3. table' = <<>> /\ line_counter' \in Int /\ pc' = "close"
  BY <1>1 DEF RemoveWanted, remove_command
<1>4. /\ written' \in Seq(Lines)
      /\ Distinct(written') /\ Commanded(written') \subseteq wanted'
  <2>1. CASE n < Len(table)
    <3>1. written' = Upto(Kept(n), line_counter)
      BY <2>1 DEF RemoveWanted, remove_command
    <3>2. /\ Kept(n) \in Seq(Lines)
          /\ DOMAIN Kept(n) = 1 .. Len(table) - 1
          /\ \A j \in 1 .. Len(table) - 1 :
               Kept(n)[j].command = table[IF j <= n THEN j ELSE j + 1].command
      BY <1>1, <2>1, KeptCommands
    <3>3. /\ written' \in Seq(Lines)
          /\ DOMAIN written' \subseteq DOMAIN Kept(n)
          /\ \A j \in DOMAIN written' : written'[j] = Kept(n)[j]
      BY <3>1, <3>2, <1>1, UptoPrefix
    <3>4. \A j \in 1 .. Len(table) - 1 :
            (IF j <= n THEN j ELSE j + 1) \in DOMAIN table \ {n + 1}
      BY <1>1
    <3>5. Distinct(Kept(n))
      <4> SUFFICES ASSUME NEW i \in 1 .. Len(table) - 1, NEW j \in 1 .. Len(table) - 1,
                          Kept(n)[i].command = Kept(n)[j].command
                   PROVE  i = j
        BY <3>2 DEF Distinct
      <4>1. (IF i <= n THEN i ELSE i + 1) = (IF j <= n THEN j ELSE j + 1)
        BY <3>2, <3>4, <1>2 DEF Distinct
      <4> QED
        BY <4>1
    <3>6. Commanded(Kept(n)) \subseteq wanted \ {table[n + 1].command}
      <4> SUFFICES ASSUME NEW j \in 1 .. Len(table) - 1
                   PROVE  Kept(n)[j].command \in wanted \ {table[n + 1].command}
        BY <3>2 DEF Commanded
      <4> DEFINE i == IF j <= n THEN j ELSE j + 1
      <4>1. Kept(n)[j].command = table[i].command /\ i \in DOMAIN table /\ i # n + 1
        BY <3>2, <3>4
      <4>2. n + 1 \in DOMAIN table
        BY <1>1, <2>1
      <4> HIDE DEF i
      <4>3. table[i].command # table[n + 1].command
        BY <4>1, <4>2, <1>2 DEF Distinct
      <4>4. table[i].command \in wanted
        BY <4>1, <1>2 DEF Commanded
      <4> QED
        BY <4>1, <4>3, <4>4
    <3>7. wanted' = wanted \ {table[n + 1].command}
      BY <2>1 DEF RemoveWanted
    <3>8. Distinct(written') /\ Commanded(written') \subseteq wanted \ {table[n + 1].command}
      BY <3>3, <3>5, <3>6, PartDistinct
    <3> QED
      BY <3>3, <3>7, <3>8
  <2>2. CASE ~(n < Len(table))
    <3>1. written' = Upto(table, line_counter) /\ wanted' = wanted
      BY <2>2, <1>1 DEF RemoveWanted, remove_command
    <3>2. /\ written' \in Seq(Lines)
          /\ DOMAIN written' \subseteq DOMAIN table
          /\ \A j \in DOMAIN written' : written'[j] = table[j]
      BY <3>1, <1>1, UptoPrefix
    <3> QED
      BY <3>1, <3>2, <1>2, PartDistinct
  <2> QED
    BY <2>1, <2>2
<1>5. Coming' = written'
  BY <1>3, <1>4 DEF Coming
<1>6. Distinct(Coming)' /\ (Commanded(Coming) \subseteq wanted)'
  BY <1>4, <1>5
<1> QED
  BY <1>3, <1>4, <1>6 DEF Filed

LEMMA OtherFiled ==
  ASSUME Filed, OtherStep, UNCHANGED wanted
  PROVE  Filed'
<1>1. table \in Seq(Lines) /\ written \in Seq(Lines) /\ line_counter \in Int
  BY DEF Filed
<1>2. CASE Close
  <2>1. table' = Coming /\ written' = <<>> /\ Coming \in Seq(Lines)
    BY <1>1, <1>2 DEF Close, Coming
  <2>2. Coming' = Coming
    BY <2>1 DEF Coming
  <2>3. Distinct(Coming)' /\ (Commanded(Coming) \subseteq wanted)'
    BY <2>2 DEF Filed
  <2> QED
    BY <1>1, <1>2, <2>1, <2>3 DEF Filed, Close
<1>3. CASE Crash
  <2>1. table' = table /\ written' = <<>> /\ Coming' = table
    BY <1>1, <1>3 DEF Crash, Coming, files
  <2>2. /\ Distinct(Coming) /\ Commanded(Coming) \subseteq wanted
        /\ DOMAIN table \subseteq DOMAIN Coming
        /\ \A j \in DOMAIN table : table[j] = Coming[j]
    BY <1>1 DEF Filed, Coming
  <2>3. Distinct(Coming)' /\ (Commanded(Coming) \subseteq wanted)'
    BY <2>1, <2>2, PartDistinct
  <2> QED
    BY <1>1, <1>3, <2>1, <2>3 DEF Filed, Crash
<1>4. CASE Start \/ Open \/ Refused \/ Unknown \/ Exit \/ CloseLog
  <2>1. table' = table /\ written' = written /\ pc # "close" /\ pc' # "close"
    BY <1>4 DEF Start, Open, Refused, Unknown, Exit, CloseLog, Off, files, buffers
  <2>2. line_counter' \in Int
    <3>1. line_counter' \in {line_counter, Len(table)}
      BY <1>4 DEF Start, Open, Refused, Unknown, Exit, CloseLog, Off, files, buffers
    <3>2. Len(table) \in Int
      BY <1>1
    <3> QED
      BY <3>1, <3>2, <1>1
  <2>3. Coming' = Coming
    BY <2>1 DEF Coming
  <2>4. Distinct(Coming)' /\ (Commanded(Coming) \subseteq wanted)'
    BY <2>3 DEF Filed
  <2> QED
    BY <1>1, <2>1, <2>2, <2>4 DEF Filed
<1> QED
  BY <1>2, <1>3, <1>4 DEF OtherStep

-----------------------------------------------------------------------------
(* Nothing that concerns the daemon changes.                               *)
LEMMA AllowedKept ==
  ASSUME Allowed, Asleep, UNCHANGED <<daemonVars, on>>,
         wanted' \subseteq Commands, allowed' \subseteq Commands,
         on => wanted' \subseteq allowed' /\ allowed \subseteq allowed'
  PROVE  Allowed' /\ Asleep'
<1>1. UNCHANGED <<mpc, offset, unread, buf, k, timetable, command, exe_period, created,
                  mutex, destroyed, tpc, rawtime, tm, ran, noted, seen, line_of, now, on>>
  BY DEF daemonVars
<1>2. Asleep'
  BY <1>1 DEF Asleep, Daemon!DaemonInit
<1>3. CASE on
  <2>1. allowed \subseteq allowed'
    BY <1>3
  <2>2. RemovedStaysOut'
    BY <1>1, <2>1 DEF Allowed, RemovedStaysOut
  <2>3. Commanded(unread)' \subseteq allowed' /\ unread' \in Seq(Lines) /\ offset' \in Nat
    BY <1>1, <2>1 DEF Allowed
  <2>4. command.of' \subseteq allowed' /\ mpc' \in Treating \cup Between
    BY <1>1, <2>1 DEF Allowed
  <2>5. buf'.command \in allowed' \/ (buf' = Daemon!NoLine /\ mpc' \in Between /\ created' = 0)
    BY <1>1, <2>1 DEF Allowed
  <2> QED
    BY <1>1, <1>2, <1>3, <2>2, <2>3, <2>4, <2>5 DEF Allowed
<1>4. CASE ~on
  <2>1. Daemon!DaemonInit
    BY <1>4 DEF Asleep
  <2>2. unread' = <<>> /\ offset' = 0 /\ command'.of = {} /\ mpc' = "fgets"
        /\ buf' = Daemon!NoLine /\ created' = 0
    BY <1>1, <2>1 DEF Daemon!DaemonInit, Daemon!Nothing
  <2>3. \A t \in Threads : ran'[t].of = {}
    BY <1>1, <2>1 DEF Daemon!DaemonInit, Daemon!Nothing, Threads
  <2>4. RemovedStaysOut'
    BY <2>3 DEF RemovedStaysOut, Threads
  <2>5. Commanded(unread)' = {} /\ unread' \in Seq(Lines)
    BY <2>2 DEF Commanded
  <2> QED
    BY <1>1, <1>2, <1>4, <2>2, <2>4, <2>5 DEF Allowed, Between, Settled
<1> QED
  BY <1>3, <1>4

LEMMA WantedEdit ==
  ASSUME WantedInv, Edit
  PROVE  WantedInv'
<1>1. Filed /\ on \in BOOLEAN /\ Asleep /\ Allowed
  BY DEF WantedInv
<1>2. UNCHANGED <<daemonVars, on>>
  BY DEF Edit
<1>3. ASSUME NEW c \in Commands, AddWanted(c)
      PROVE  Filed' /\ Allowed' /\ Asleep'
  <2>1. /\ wanted' = wanted \cup {c}
        /\ allowed' = IF on THEN allowed \cup {c} ELSE allowed
    BY <1>3 DEF AddWanted
  <2>2. /\ wanted' \subseteq Commands /\ allowed' \subseteq Commands
        /\ on => wanted' \subseteq allowed' /\ allowed \subseteq allowed'
    BY <1>1, <2>1 DEF Allowed
  <2> QED
    BY <1>1, <1>2, <1>3, <2>2, AddFiled, AllowedKept
<1>4. ASSUME NEW n \in 0 .. line_counter + 1, RemoveWanted(n)
      PROVE  Filed' /\ Allowed' /\ Asleep'
  <2>1. n \in Nat
    BY <1>1 DEF Filed
  <2>2. wanted' \subseteq wanted /\ allowed' = allowed
    BY <1>4 DEF RemoveWanted
  <2>3. /\ wanted' \subseteq Commands /\ allowed' \subseteq Commands
        /\ on => wanted' \subseteq allowed' /\ allowed \subseteq allowed'
    BY <1>1, <2>2 DEF Allowed
  <2> QED
    BY <1>1, <1>2, <1>4, <2>1, <2>3, RemoveFiled, AllowedKept
<1>5. CASE OtherStep /\ UNCHANGED <<wanted, allowed, edits>>
  <2>1. /\ wanted' \subseteq Commands /\ allowed' \subseteq Commands
        /\ on => wanted' \subseteq allowed' /\ allowed \subseteq allowed'
    BY <1>1, <1>5 DEF Allowed
  <2> QED
    BY <1>1, <1>2, <1>5, <2>1, OtherFiled, AllowedKept DEF WantedInv
<1>6. Filed' /\ Allowed' /\ Asleep'
  BY <1>3, <1>4, <1>5, WantedInv DEF Edit, WantedInv
<1> QED
  BY <1>1, <1>2, <1>6 DEF WantedInv

LEMMA WantedStart ==
  ASSUME WantedInv, StartDaemon
  PROVE  WantedInv'
<1>1. Daemon!DaemonInit /\ wanted \subseteq Commands
  BY DEF WantedInv, Asleep, StartDaemon, Allowed
<1>2. /\ UNCHANGED <<table, written, line_counter, pc, wanted>>
      /\ UNCHANGED <<mpc, offset, unread, buf, command, created, ran>>
      /\ on' = TRUE /\ allowed' = wanted
  BY DEF StartDaemon, vars, files, buffers, daemonVars
<1>3. Filed'
  <2>1. Coming' = Coming
    BY <1>2 DEF Coming
  <2>2. Distinct(Coming)' /\ (Commanded(Coming) \subseteq wanted)'
    BY <1>2, <2>1 DEF WantedInv, Filed
  <2> QED
    BY <1>2, <2>2 DEF WantedInv, Filed
<1>4. unread' = <<>> /\ offset' = 0 /\ command'.of = {} /\ mpc' = "fgets"
      /\ buf' = Daemon!NoLine /\ created' = 0
  BY <1>1, <1>2 DEF Daemon!DaemonInit, Daemon!Nothing
<1>5. RemovedStaysOut' /\ DOMAIN ran' = Threads
  BY <1>1, <1>2 DEF Daemon!DaemonInit, Daemon!Nothing, RemovedStaysOut, Threads
<1>6. Commanded(unread)' = {} /\ unread' \in Seq(Lines)
  BY <1>4 DEF Commanded
<1>7. Allowed'
  BY <1>1, <1>2, <1>4, <1>5, <1>6 DEF Allowed, Between, Settled
<1> QED
  BY <1>2, <1>3, <1>7 DEF WantedInv, Asleep

(* The daemon: what it reads are lines of the table, whose commands are    *)
(* wanted, and what it runs is what it has read.                           *)
LEMMA AllowedFgets ==
  ASSUME Filed, Allowed, on, UNCHANGED <<wanted, allowed>>, Daemon!Fgets
  PROVE  Allowed'
<1> DEFINE rest == SubSeq(table, offset + 1, Len(table))
           have == IF unread # <<>> THEN unread ELSE rest
<1>1. table \in Seq(Lines) /\ offset \in Nat /\ unread \in Seq(Lines)
  BY DEF Filed, Allowed
<1>2. Commanded(table) \subseteq allowed
  <2>1. \A j \in DOMAIN table : j \in DOMAIN Coming /\ Coming[j] = table[j]
    BY <1>1 DEF Filed, Coming
  <2>2. Commanded(table) \subseteq Commanded(Coming)
    BY <2>1 DEF Commanded
  <2> QED
    BY <2>2 DEF Filed, Allowed
<1>3. rest \in Seq(Lines) /\ Commanded(rest) \subseteq allowed
  <2>1. /\ rest \in Seq(Lines)
        /\ \A j \in DOMAIN rest : \E i \in DOMAIN table : rest[j] = table[i]
    <3> DEFINE from == offset + 1
    <3>1. Len(table) \in Nat /\ from \in Nat \ {0} /\ \A j \in from .. Len(table) : table[j] \in Lines
      BY <1>1
    <3> HIDE DEF from
    <3>2. /\ SubSeq(table, from, Len(table)) \in Seq(Lines)
          /\ Len(SubSeq(table, from, Len(table))) =
               IF from <= Len(table) THEN Len(table) - from + 1 ELSE 0
          /\ \A j \in 1 .. Len(table) - from + 1 :
               SubSeq(table, from, Len(table))[j] = table[from + j - 1]
      BY <3>1, SubSeqProperties
    <3>3. rest = SubSeq(table, from, Len(table))
      BY DEF from
    <3> HIDE DEF rest
    <3>4. ASSUME NEW j \in DOMAIN rest
          PROVE  from + j - 1 \in DOMAIN table /\ rest[j] = table[from + j - 1]
      <4>1. DOMAIN rest = 1 .. Len(rest) /\ DOMAIN table = 1 .. Len(table)
        BY <3>2, <3>3, <1>1
      <4>2. from <= Len(table) /\ j \in 1 .. Len(table) - from + 1
        BY <4>1, <3>1, <3>2, <3>3
      <4> QED
        BY <4>1, <4>2, <3>1, <3>2, <3>3
    <3> QED
      BY <3>2, <3>3, <3>4
  <2> HIDE DEF rest
  <2> QED
    BY <2>1, <1>2 DEF Commanded
<1>4. have \in Seq(Lines) /\ Commanded(have) \subseteq allowed
  BY <1>1, <1>3 DEF Allowed
<1>5. offset' \in Nat
  <2>1. Len(table) \in Nat
    BY <1>1
  <2>2. offset' \in {offset, Len(table)}
    BY DEF Daemon!Fgets, Daemon!stream
  <2> QED
    BY <2>1, <2>2, <1>1
<1>6. UNCHANGED <<command, created, ran>>
  BY DEF Daemon!Fgets, Daemon!globals, Daemon!threads
<1>7. RemovedStaysOut'
  BY <1>6 DEF Allowed, RemovedStaysOut
<1>8. CASE have # <<>> /\ buf' = Head(have) /\ unread' = Tail(have) /\ mpc' = "separate"
  <2> HIDE DEF have
  <2>1. /\ 1 \in DOMAIN have /\ Head(have) = have[1] /\ Tail(have) \in Seq(Lines)
        /\ \A j \in DOMAIN Tail(have) : j + 1 \in DOMAIN have /\ Tail(have)[j] = have[j + 1]
    BY <1>4, <1>8
  <2>2. buf'.command \in allowed /\ Commanded(Tail(have)) \subseteq allowed
    BY <2>1, <1>4, <1>8 DEF Commanded
  <2> QED
    BY <1>5, <1>6, <1>7, <1>8, <2>1, <2>2 DEF Allowed, Treating
<1>9. CASE mpc' = "sleep" /\ mpc = "fgets" /\ UNCHANGED <<buf, unread>>
  BY <1>5, <1>6, <1>7, <1>9 DEF Allowed, Treating, Between, Settled
<1> QED
  BY <1>8, <1>9 DEF Daemon!Fgets, Daemon!stream

LEMMA AllowedRun ==
  ASSUME Filed, Allowed, on, UNCHANGED <<wanted, allowed>>, Daemon!DaemonNext
  PROVE  Allowed'
<1> USE DEF Daemon!stream, Daemon!globals, Daemon!lock, Daemon!ghosts, Daemon!threads
<1>1. CASE Daemon!Fgets
  BY <1>1, AllowedFgets
<1>2. CASE Daemon!Overwrite \/ Daemon!Separated
  <2>1. /\ UNCHANGED <<offset, unread, buf, ran>> /\ mpc' \in Treating
        /\ mpc \in Treating /\ command'.of \subseteq command.of \cup {buf.command}
    BY <1>2 DEF Daemon!Overwrite, Daemon!Separated, Daemon!Torn, Daemon!Text, Treating
  <2>2. buf.command \in allowed
    BY <2>1 DEF Allowed, Treating, Between, Settled
  <2>3. RemovedStaysOut'
    BY <2>1 DEF Allowed, RemovedStaysOut
  <2> QED
    BY <2>1, <2>2, <2>3 DEF Allowed
<1>3. CASE Daemon!Clear \/ Daemon!Fill \/ Daemon!Create \/ Daemon!Destroy \/ Daemon!Wake \/ Daemon!Tick
  <2>1. UNCHANGED <<offset, unread, buf, command, ran>>
    BY <1>3 DEF Daemon!Clear, Daemon!Fill, Daemon!Create, Daemon!Destroy, Daemon!Wake, Daemon!Tick
  <2>2. mpc' \in Treating \cup Between /\ (mpc \in Between => mpc' \in Between /\ created' = created)
    BY <1>3 DEF Daemon!Clear, Daemon!Fill, Daemon!Create, Daemon!Destroy, Daemon!Wake, Daemon!Tick,
                Allowed, Treating, Between, Settled
  <2>3. RemovedStaysOut'
    BY <2>1 DEF Allowed, RemovedStaysOut
  <2> QED
    BY <2>1, <2>2, <2>3 DEF Allowed
<1>4. ASSUME NEW t \in Threads, Daemon!ssu_thread(t)
      PROVE  Allowed'
  <2>1. UNCHANGED <<mpc, offset, unread, buf, command, created>>
    BY <1>4 DEF Daemon!ssu_thread, Daemon!Time, Daemon!Test, Daemon!Lock, Daemon!System, Daemon!Log,
                Daemon!Unlock
  <2>2. ran' = ran \/ ran' = [ran EXCEPT ![t] = command]
    BY <1>4 DEF Daemon!ssu_thread, Daemon!Time, Daemon!Test, Daemon!Lock, Daemon!System, Daemon!Log,
                Daemon!Unlock
  <2>3. ASSUME NEW u \in Threads
        PROVE  ran'[u] \in {ran[u], command}
    BY <2>2 DEF Allowed
  <2>4. RemovedStaysOut' /\ DOMAIN ran' = Threads
    BY <2>2, <2>3 DEF Allowed, RemovedStaysOut, Threads
  <2> QED
    BY <2>1, <2>4 DEF Allowed
<1> QED
  BY <1>1, <1>2, <1>3, <1>4 DEF Daemon!DaemonNext, Daemon!Main, Threads

LEMMA WantedRun ==
  ASSUME WantedInv, Run
  PROVE  WantedInv'
<1>1. UNCHANGED <<table, written, line_counter, pc, on, wanted, allowed>> /\ on /\ Daemon!DaemonNext
  BY DEF Run, vars, files, buffers
<1>2. Filed'
  <2>1. Coming' = Coming
    BY <1>1 DEF Coming
  <2>2. Distinct(Coming)' /\ (Commanded(Coming) \subseteq wanted)'
    BY <1>1, <2>1 DEF WantedInv, Filed
  <2> QED
    BY <1>1, <2>2 DEF WantedInv, Filed
<1> QED
  BY <1>1, <1>2, AllowedRun DEF WantedInv, Asleep

LEMMA WantedInit ==
  ASSUME CronInit
  PROVE  WantedInv
<1>1. table = <<>> /\ written = <<>> /\ line_counter = 0 /\ wanted = {} /\ allowed = {} /\ on = FALSE
  BY DEF CronInit, Init
<1>2. Daemon!DaemonInit
  BY DEF CronInit
<1>3. Coming = <<>> /\ Commanded(<<>>) = {} /\ Distinct(<<>>)
  BY <1>1 DEF Coming, Commanded, Distinct
<1>4. Filed
  BY <1>1, <1>3 DEF Filed
<1>5. unread = <<>> /\ offset = 0 /\ command.of = {} /\ mpc = "fgets"
      /\ buf = Daemon!NoLine /\ created = 0
  BY <1>2 DEF Daemon!DaemonInit, Daemon!Nothing
<1>6. RemovedStaysOut /\ DOMAIN ran = Threads
  BY <1>2 DEF Daemon!DaemonInit, Daemon!Nothing, RemovedStaysOut, Threads
<1>7. Allowed
  BY <1>1, <1>3, <1>5, <1>6 DEF Allowed, Between, Settled
<1> QED
  BY <1>1, <1>2, <1>4, <1>7 DEF WantedInv, Asleep

LEMMA WantedStep ==
  ASSUME WantedInv, [CronNext]_allVars
  PROVE  WantedInv'
<1>1. CASE Edit
  BY <1>1, WantedEdit
<1>2. CASE StartDaemon
  BY <1>2, WantedStart
<1>3. CASE Run
  BY <1>3, WantedRun
<1>4. CASE UNCHANGED allVars
  <2>1. UNCHANGED <<table, written, line_counter, pc, on, wanted, allowed, daemonVars>>
    BY <1>4 DEF allVars, vars, files, buffers
  <2>2. Coming' = Coming
    BY <2>1 DEF Coming
  <2>3. Distinct(Coming)' /\ (Commanded(Coming) \subseteq wanted)'
    BY <2>1, <2>2 DEF WantedInv, Filed
  <2>4. Filed'
    BY <2>1, <2>3 DEF WantedInv, Filed
  <2>5. /\ wanted' \subseteq Commands /\ allowed' \subseteq Commands
        /\ on => wanted' \subseteq allowed' /\ allowed \subseteq allowed'
    BY <2>1 DEF WantedInv, Allowed
  <2> QED
    BY <2>1, <2>4, <2>5, AllowedKept DEF WantedInv
<1> QED
  BY <1>1, <1>2, <1>3, <1>4 DEF CronNext

LEMMA WantedInvariance == CronSpec => []WantedInv
BY WantedInit, WantedStep, PTL DEF CronSpec

(* A command that was removed before the daemon was started, and not added *)
(* again, is not run, whatever becomes of the numbers of the lines.        *)
THEOREM RemovedStaysOutHolds == CronSpec => []RemovedStaysOut
<1>1. WantedInv => RemovedStaysOut
  BY DEF WantedInv, Allowed
<1> QED
  BY <1>1, WantedInvariance, PTL

-----------------------------------------------------------------------------
(* main, and what the threads see of it.                                   *)
LEMMA OrderFgets ==
  ASSUME OrderInv, Daemon!Fgets
  PROVE  OrderInv'
<1>1. /\ UNCHANGED <<created, tpc, ran, line_of, command>> /\ mpc = "fgets"
      /\ \/ mpc' = "sleep" /\ buf' = buf
         \/ mpc' = "separate" /\ created < MaxThreads
  BY DEF Daemon!Fgets, Daemon!stream, Daemon!globals, Daemon!threads
<1>2. Created'
  BY <1>1 DEF OrderInv, Created, Treating
<1>3. /\ created > 0 => buf = line_of[created] /\ command = Daemon!Text(buf)
      /\ created = 0 => command = Nothing
      /\ created \in Nat
  BY <1>1 DEF OrderInv, Created, Loaded, Settled
<1>4. command.of \subseteq IF created > 0 THEN {line_of[created].command} ELSE {}
  BY <1>3 DEF Daemon!Text, Nothing, Daemon!Nothing
<1>5. Loaded'
  BY <1>1, <1>3, <1>4 DEF OrderInv, Loaded, Treating, Between, Settled
<1>6. NoOlderCommand'
  <2> SUFFICES ASSUME NEW t \in Threads
               PROVE  ran[t].of \subseteq {line_of[u].command : u \in t .. created} \cup {buf'.command}
    BY <1>1 DEF NoOlderCommand, Threads
  <2>1. ran[t].of \subseteq {line_of[u].command : u \in t .. created} \cup {buf.command}
    BY DEF OrderInv, NoOlderCommand, Threads
  <2>2. CASE t > created
    BY <2>2 DEF OrderInv, Created, Nothing, Daemon!Nothing
  <2>3. CASE ~(t > created)
    <3>1. t \in Nat \ {0}
      BY DEF Threads, Daemon!Threads
    <3>2. created \in t .. created /\ created > 0
      BY <2>3, <3>1, <1>3
    <3>3. buf.command \in {line_of[u].command : u \in t .. created}
      BY <3>2, <1>3
    <3> QED
      BY <3>3, <2>1
  <2> QED
    BY <2>2, <2>3
<1> QED
  BY <1>2, <1>5, <1>6 DEF OrderInv

LEMMA OrderCreate ==
  ASSUME OrderInv, Daemon!Create
  PROVE  OrderInv'
<1> DEFINE new == created + 1
<1>1. /\ mpc = "create" /\ mpc' = "destroy" /\ UNCHANGED <<ran, buf, command>>
      /\ created' = new
      /\ tpc' = [tpc EXCEPT ![new] = "time"]
      /\ line_of' = [line_of EXCEPT ![new] = buf]
  BY DEF Daemon!Create, Daemon!globals
<1>2. created \in Nat /\ created < MaxThreads /\ new \in Threads
  BY <1>1, CronAssumption DEF OrderInv, Created, Treating, Threads, Daemon!Threads
<1>3. /\ DOMAIN line_of = Threads /\ DOMAIN tpc = Threads
      /\ command = Daemon!Text(buf)
  BY <1>1 DEF OrderInv, Created, Loaded
<1>4. line_of'[new] = buf /\ \A u \in Threads \ {new} : line_of'[u] = line_of[u] /\ tpc'[u] = tpc[u]
  BY <1>1, <1>2, <1>3
<1>5. Created'
  <2>1. created' \in 0 .. MaxThreads /\ mpc' \notin Treating
    BY <1>1, <1>2, CronAssumption DEF Treating
  <2>2. DOMAIN tpc' = Threads /\ DOMAIN line_of' = Threads /\ DOMAIN ran' = Threads
    BY <1>1, <1>3 DEF OrderInv, Created
  <2>3. ASSUME NEW t \in Threads, t > created'
        PROVE  tpc'[t] = "none" /\ ran'[t] = Nothing
    <3>1. t > created /\ t # new
      BY <2>3, <1>1, <1>2 DEF Threads, Daemon!Threads
    <3> QED
      BY <3>1, <1>1, <1>4 DEF OrderInv, Created
  <2> QED
    BY <2>1, <2>2, <2>3 DEF Created, Threads, Daemon!Threads
<1>6. Loaded'
  <2>1. created' > 0 /\ created' = new
    BY <1>1, <1>2
  <2>2. command'.of = {buf'.command}
    BY <1>1, <1>3 DEF Daemon!Text
  <2>3. command' = Daemon!Text(buf') /\ buf' = line_of'[created']
    BY <1>1, <1>3, <1>4
  <2> QED
    BY <1>1, <2>1, <2>2, <2>3 DEF Loaded, Treating, Between, Settled, Daemon!Text, Daemon!Shifted
<1>7. NoOlderCommand'
  <2> SUFFICES ASSUME NEW t \in Threads
               PROVE  ran[t].of \subseteq {line_of'[u].command : u \in t .. new} \cup {buf.command}
    BY <1>1 DEF NoOlderCommand, Threads
  <2>1. ran[t].of \subseteq {line_of[u].command : u \in t .. created} \cup {buf.command}
    BY DEF OrderInv, NoOlderCommand, Threads
  <2>2. ASSUME NEW u \in t .. created
        PROVE  u \in t .. new /\ line_of'[u] = line_of[u]
    <3>1. u \in t .. new /\ u \in Threads \ {new}
      BY <1>2, CronAssumption DEF Threads, Daemon!Threads
    <3> QED
      BY <3>1, <1>4
  <2> HIDE DEF new
  <2>3. {line_of[u].command : u \in t .. created} \subseteq {line_of'[u].command : u \in t .. new}
    BY <2>2
  <2> QED
    BY <2>1, <2>3
<1> QED
  BY <1>5, <1>6, <1>7 DEF OrderInv

LEMMA OrderOther ==
  ASSUME OrderInv,
         Daemon!Overwrite \/ Daemon!Separated \/ Daemon!Clear \/ Daemon!Fill
           \/ Daemon!Destroy \/ Daemon!Wake \/ Daemon!Tick
  PROVE  OrderInv'
<1> USE DEF Daemon!stream, Daemon!globals, Daemon!lock, Daemon!ghosts, Daemon!threads
<1>1. UNCHANGED <<created, tpc, ran, line_of, buf>>
  BY DEF Daemon!Overwrite, Daemon!Separated, Daemon!Clear, Daemon!Fill,
         Daemon!Destroy, Daemon!Wake, Daemon!Tick
<1>2. NoOlderCommand'
  BY <1>1 DEF OrderInv, NoOlderCommand
<1>3. mpc' \in Treating => mpc \in Treating
  BY DEF Daemon!Overwrite, Daemon!Separated, Daemon!Clear, Daemon!Fill,
         Daemon!Destroy, Daemon!Wake, Daemon!Tick, Treating
<1>4. Created'
  BY <1>1, <1>3 DEF OrderInv, Created
<1>5. Loaded'
  <2>1. CASE Daemon!Overwrite
    <3>1. command'.of = command.of \cup {buf.command} /\ mpc' = "separated"
      BY <2>1 DEF Daemon!Overwrite, Daemon!Torn, Daemon!Text
    <3> QED
      BY <1>1, <3>1 DEF OrderInv, Loaded, Treating, Between, Settled
  <2>2. CASE Daemon!Separated
    <3>1. command' = Daemon!Text(buf) /\ mpc' = "clear"
      BY <2>2 DEF Daemon!Separated
    <3>2. command'.of = {buf.command}
      BY <3>1 DEF Daemon!Text
    <3>3. command' = Daemon!Text(buf)'
      BY <1>1, <3>1 DEF Daemon!Text, Daemon!Shifted
    <3> QED
      BY <1>1, <3>1, <3>2, <3>3 DEF OrderInv, Loaded, Treating, Between, Settled
  <2>3. CASE Daemon!Clear \/ Daemon!Fill \/ Daemon!Destroy \/ Daemon!Wake \/ Daemon!Tick
    <3>1. command' = command
      BY <2>3 DEF Daemon!Clear, Daemon!Fill, Daemon!Destroy, Daemon!Wake, Daemon!Tick
    <3>2. \/ mpc \in {"clear", "fill"} /\ mpc' \in {"fill", "create", "dead"}
          \/ mpc = "destroy" /\ mpc' = "fgets"
          \/ mpc' \in {mpc, "dead"}
      BY <2>3 DEF Daemon!Clear, Daemon!Fill, Daemon!Destroy, Daemon!Wake, Daemon!Tick
    <3>3. Daemon!Text(buf)' = Daemon!Text(buf)
      BY <1>1 DEF Daemon!Text, Daemon!Shifted
    <3> QED
      BY <1>1, <3>1, <3>2, <3>3 DEF OrderInv, Loaded, Treating, Between, Settled
  <2> QED
    BY <2>1, <2>2, <2>3
<1> QED
  BY <1>2, <1>4, <1>5 DEF OrderInv

LEMMA OrderThread ==
  ASSUME OrderInv, NEW t \in Threads, Daemon!ssu_thread(t)
  PROVE  OrderInv'
<1> USE DEF Daemon!ssu_thread, Daemon!Time, Daemon!Test, Daemon!Lock, Daemon!System, Daemon!Log,
            Daemon!Unlock, Daemon!globals, Daemon!ghosts
<1>1. UNCHANGED <<mpc, created, buf, command, line_of>>
  OBVIOUS
<1>2. tpc[t] # "none"
  BY DEF Order, Daemon!Order
<1>3. ran' = ran \/ ran' = [ran EXCEPT ![t] = command]
  OBVIOUS
<1>4. \E x : tpc' = [tpc EXCEPT ![t] = x]
  OBVIOUS
<1> USE DEF Threads, Daemon!Threads
<1>5. t <= created /\ t \in Nat \ {0} /\ created \in Nat
  BY <1>2, CronAssumption DEF OrderInv, Created
<1>6. \A u \in Threads \ {t} : ran'[u] = ran[u] /\ tpc'[u] = tpc[u]
  BY <1>3, <1>4 DEF OrderInv, Created
<1>7. ran'[t] \in {ran[t], command}
  BY <1>3 DEF OrderInv, Created
<1>8. DOMAIN ran' = Threads /\ DOMAIN tpc' = Threads
  BY <1>3, <1>4 DEF OrderInv, Created
<1>9. Created'
  BY <1>1, <1>5, <1>6, <1>8 DEF OrderInv, Created
<1>10. Loaded'
  <2>1. Daemon!Text(buf)' = Daemon!Text(buf)
    BY <1>1 DEF Daemon!Text, Daemon!Shifted
  <2> QED
    BY <1>1, <2>1 DEF OrderInv, Loaded
<1>11. NoOlderCommand'
  <2> SUFFICES ASSUME NEW v \in Threads
               PROVE  ran'[v].of \subseteq {line_of[u].command : u \in v .. created} \cup {buf.command}
    BY <1>1 DEF NoOlderCommand
  <2>1. ran[v].of \subseteq {line_of[u].command : u \in v .. created} \cup {buf.command}
    BY DEF OrderInv, NoOlderCommand
  <2>2. CASE v = t /\ ran'[t] = command
    <3>1. created \in t .. created /\ created > 0
      BY <1>5
    <3>2. command.of \subseteq {buf.command} \cup {line_of[created].command}
      BY <3>1 DEF OrderInv, Loaded
    <3>3. line_of[created].command \in {line_of[u].command : u \in t .. created}
      BY <3>1
    <3> QED
      BY <2>2, <3>2, <3>3
  <2> QED
    BY <2>1, <2>2, <1>6, <1>7
<1> QED
  BY <1>9, <1>10, <1>11 DEF OrderInv

LEMMA OrderRun ==
  ASSUME OrderInv, Daemon!DaemonNext
  PROVE  OrderInv'
BY OrderFgets, OrderCreate, OrderOther, OrderThread DEF Daemon!DaemonNext, Daemon!Main, Threads

LEMMA OrderStep ==
  ASSUME OrderInv, [CronNext]_allVars
  PROVE  OrderInv'
<1>1. CASE Run
  BY <1>1, OrderRun DEF Run
<1>2. CASE Edit \/ StartDaemon \/ UNCHANGED allVars
  <2>1. UNCHANGED <<mpc, created, buf, command, line_of, tpc, ran>>
    BY <1>2 DEF Edit, StartDaemon, allVars, daemonVars
  <2>2. Daemon!Text(buf)' = Daemon!Text(buf)
    BY <2>1 DEF Daemon!Text, Daemon!Shifted
  <2> QED
    BY <2>1, <2>2 DEF OrderInv, Created, Loaded, NoOlderCommand
<1> QED
  BY <1>1, <1>2 DEF CronNext

LEMMA OrderInit ==
  ASSUME CronInit
  PROVE  OrderInv
<1>1. Daemon!DaemonInit
  BY DEF CronInit
<1>2. /\ mpc = "fgets" /\ created = 0 /\ command = Nothing
      /\ tpc = [t \in Threads |-> "none"] /\ ran = [t \in Threads |-> Nothing]
      /\ line_of = [t \in Threads |-> Daemon!NoLine]
  BY <1>1 DEF Daemon!DaemonInit, Threads, Nothing
<1>3. Nothing.of = {}
  BY DEF Nothing, Daemon!Nothing
<1>4. Created
  BY <1>2, CronAssumption DEF Created, Treating
<1>5. Loaded
  BY <1>2, <1>3 DEF Loaded, Treating, Between, Settled
<1>6. NoOlderCommand
  BY <1>2, <1>3 DEF NoOlderCommand, Threads
<1> QED
  BY <1>4, <1>5, <1>6 DEF OrderInv

LEMMA OrderInvariance == CronSpec => []OrderInv
BY OrderInit, OrderStep, PTL DEF CronSpec

(* The globals only move on: a thread runs the command of its own line or  *)
(* of a later one, never of a line before it.                              *)
THEOREM NoOlderCommandHolds == CronSpec => []NoOlderCommand
<1>1. OrderInv => NoOlderCommand
  BY DEF OrderInv
<1> QED
  BY <1>1, OrderInvariance, PTL

-----------------------------------------------------------------------------
(* The five tests, and the states a thread passes through.                 *)
LEMMA Orders ==
  /\ \A m \in 1 .. 5 : Order[m] \notin {"none", "time", "lock", "system", "log", "unlock", "done"}
  /\ \A m, j \in 1 .. 5 : Order[m] = Order[j] => m = j
  /\ Daemon!Fields = {Order[m] : m \in 1 .. 5}
<1>1. /\ Order[1] = "min" /\ Order[2] = "hour" /\ Order[3] = "mday"
      /\ Order[4] = "month" /\ Order[5] = "wday"
  BY DEF Order, Daemon!Order
<1>2. 1 .. 5 = {1, 2, 3, 4, 5}
  OBVIOUS
<1>3. {Order[m] : m \in 1 .. 5} = {Order[1], Order[2], Order[3], Order[4], Order[5]}
  BY <1>2
<1> QED
  BY <1>1, <1>2, <1>3 DEF Daemon!Fields

LEMMA MinuteStep ==
  ASSUME FirstMinute, Created, Daemon!DaemonNext
  PROVE  FirstMinute'
<1> USE DEF Daemon!stream, Daemon!globals, Daemon!lock, Daemon!ghosts, Daemon!threads
<1>1. CASE Daemon!Main
  <2>1. UNCHANGED <<now, tm, rawtime>>
    BY <1>1 DEF Daemon!Main, Daemon!Fgets, Daemon!Overwrite, Daemon!Separated, Daemon!Clear,
                Daemon!Fill, Daemon!Create, Daemon!Destroy, Daemon!Wake
  <2> QED
    BY <2>1 DEF FirstMinute
<1>2. CASE Daemon!Tick
  BY <1>2 DEF Daemon!Tick, FirstMinute
<1>3. ASSUME NEW t \in Threads, Daemon!ssu_thread(t)
      PROVE  FirstMinute'
  <2>1. /\ now' = now
        /\ tm' \in {tm, now, rawtime[t]}
        /\ rawtime' = rawtime \/ rawtime' = [rawtime EXCEPT ![t] = now]
    BY <1>3 DEF Daemon!ssu_thread, Daemon!Time, Daemon!Test, Daemon!Lock, Daemon!System,
                Daemon!Log, Daemon!Unlock
  <2> QED
    BY <2>1 DEF FirstMinute
<1> QED
  BY <1>1, <1>2, <1>3 DEF Daemon!DaemonNext, Threads

(* What main does with the time tables.                                    *)
LEMMA FilledStep ==
  ASSUME Filled, Created, Daemon!DaemonNext
  PROVE  Filled'
<1> USE DEF Daemon!stream, Daemon!globals, Daemon!lock, Daemon!ghosts, Daemon!threads
<1> DEFINE Still == UNCHANGED <<timetable, buf, k>>
<1>1. ASSUME Still, \/ mpc' \in {mpc, "dead"} /\ created' = created
                    \/ mpc' \in {"separate", "separated", "clear"}
                    \/ mpc \in {"create", "destroy"} /\ mpc' \in {"destroy", "fgets"}
                         /\ (mpc = "create" \/ created' = created)
                    \/ mpc = "fgets" /\ mpc' = "sleep" /\ created' = created
      PROVE  Filled'
  <2>1. \A m \in 1 .. 5 : Marked(buf, m)' = Marked(buf, m)
    BY <1>1 DEF Marked
  <2> QED
    BY <1>1, <2>1 DEF Filled, Settled
<1>2. CASE Daemon!Fgets
  <2>1. CASE mpc' = "separate"
    BY <1>2, <2>1 DEF Daemon!Fgets, Filled, Settled
  <2>2. CASE mpc' = "sleep"
    BY <1>1, <1>2, <2>2 DEF Daemon!Fgets
  <2> QED
    BY <1>2, <2>1, <2>2 DEF Daemon!Fgets
<1>3. CASE Daemon!Overwrite \/ Daemon!Separated \/ Daemon!Create \/ Daemon!Destroy \/ Daemon!Wake
             \/ Daemon!Tick
  BY <1>1, <1>3 DEF Daemon!Overwrite, Daemon!Separated, Daemon!Create, Daemon!Destroy,
                    Daemon!Wake, Daemon!Tick
<1>4. CASE Daemon!Clear
  <2>1. mpc' = "fill" /\ k' = 1 /\ timetable' = [f \in Daemon!Fields |-> {}]
    BY <1>4 DEF Daemon!Clear
  <2>2. \A m \in 1 .. 5 : Order[m] \in Daemon!Fields
    BY Orders
  <2> QED
    BY <2>1, <2>2 DEF Filled, Settled
<1>5. CASE Daemon!Fill
  <2>1. mpc = "fill" /\ UNCHANGED <<buf, created>>
    BY <1>5 DEF Daemon!Fill
  <2>2. CASE mpc' = "dead" /\ UNCHANGED <<timetable, k>>
    BY <2>1, <2>2, <1>1
  <2>3. CASE /\ timetable' = [timetable EXCEPT ![Order[k]] = @ \cup Marked(buf, k)]
             /\ k' = k + 1
             /\ mpc' = IF k = 5 THEN "create" ELSE "fill"
    <3>1. /\ k \in 1 .. 5 /\ DOMAIN timetable = Daemon!Fields
          /\ \A m \in 1 .. 5 : timetable[Order[m]] = IF m < k THEN Marked(buf, m) ELSE {}
      BY <2>1 DEF Filled
    <3>2. \A m \in 1 .. 5 : Order[m] \in Daemon!Fields /\ (Order[m] = Order[k] => m = k)
      BY <3>1, Orders
    <3>3. ASSUME NEW m \in 1 .. 5
          PROVE  timetable'[Order[m]] = IF m < k + 1 THEN Marked(buf, m) ELSE {}
      <4>1. CASE m = k
        <5>1. timetable'[Order[m]] = timetable[Order[m]] \cup Marked(buf, m)
          BY <2>3, <3>1, <3>2, <4>1
        <5>2. timetable[Order[m]] = {}
          BY <3>1, <4>1
        <5>3. m < k + 1
          BY <4>1
        <5> QED
          BY <5>1, <5>2, <5>3
      <4>2. CASE m # k
        <5>1. timetable'[Order[m]] = timetable[Order[m]]
          BY <2>3, <3>1, <3>2, <4>2
        <5>2. m < k <=> m < k + 1
          BY <4>2, <3>1
        <5> QED
          BY <5>1, <5>2, <3>1
      <4> QED
        BY <4>1, <4>2
    <3>4. \A m \in 1 .. 5 : Marked(buf, m)' = Marked(buf, m)
      BY <2>1 DEF Marked
    <3>5. DOMAIN timetable' = Daemon!Fields
      BY <2>3, <3>1
    <3>6. CASE k = 5
      <4>1. mpc' = "create" /\ \A m \in 1 .. 5 : m < k + 1
        BY <2>3, <3>6
      <4> QED
        BY <4>1, <3>3, <3>4, <3>5 DEF Filled, Settled
    <3>7. CASE k # 5
      <4>1. mpc' = "fill" /\ k' \in 1 .. 5 /\ k' = k + 1
        BY <2>3, <3>1, <3>7
      <4> QED
        BY <4>1, <3>3, <3>4, <3>5 DEF Filled, Settled
    <3> QED
      BY <3>6, <3>7
  <2> QED
    BY <1>5, <2>2, <2>3 DEF Daemon!Fill, Marked, Order
<1>6. ASSUME NEW t \in Threads, Daemon!ssu_thread(t)
      PROVE  Filled'
  BY <1>1, <1>6 DEF Daemon!ssu_thread, Daemon!Time, Daemon!Test, Daemon!Lock, Daemon!System,
                    Daemon!Log, Daemon!Unlock
<1> QED
  BY <1>2, <1>3, <1>4, <1>5, <1>6 DEF Daemon!DaemonNext, Daemon!Main, Threads

(* What the thread of the last line does within the first minute.          *)
LEMMA JudgedThread ==
  ASSUME Created, NEW t \in Threads, Judged(t), tm = 1, Daemon!ssu_thread(t)
  PROVE  Judged(t)'
<1> USE DEF Daemon!stream, Daemon!globals, Daemon!lock, Daemon!ghosts, Daemon!threads
<1>1. UNCHANGED <<timetable, command>> /\ t \in DOMAIN tpc /\ t \in DOMAIN ran
  BY DEF Daemon!ssu_thread, Daemon!Time, Daemon!Test, Daemon!Lock, Daemon!System, Daemon!Log,
         Daemon!Unlock, Created
<1>2. \A j \in 1 .. 5 : Passes(j)' <=> Passes(j)
  BY <1>1 DEF Passes
<1>3. ASSUME NEW pc1, tpc'[t] = pc1, pc1 \in {"lock", "system", "log", "unlock", "done", Order[1]},
             \A m \in 1 .. 5 : tpc'[t] = Order[m] => m = 1,
             tpc'[t] \in {"lock", "system", "log", "unlock"} => \A j \in 1 .. 5 : Passes(j),
             tpc'[t] \in {"log", "unlock"} => ran'[t] = command,
             tpc'[t] \notin {"log", "unlock", "done"} => ran'[t] = Nothing,
             tpc'[t] = "done" =>
               ran'[t] = IF \A j \in 1 .. 5 : Passes(j) THEN command ELSE Nothing
      PROVE  Judged(t)'
  <2>1. \A m \in 1 .. 5 : tpc'[t] = Order[m] => 1 .. m - 1 = {}
    BY <1>3
  <2> QED
    BY <1>1, <1>2, <1>3, <2>1 DEF Judged
<1>4. CASE Daemon!Time(t)
  <2>1. tpc[t] = "time" /\ tpc'[t] = Order[1] /\ ran' = ran
    BY <1>1, <1>4 DEF Daemon!Time, Order, Daemon!Order
  <2>2. ran'[t] = Nothing
    BY <2>1 DEF Judged
  <2> QED
    BY <2>1, <2>2, <1>3, Orders
<1>5. ASSUME NEW m \in 1 .. 5, Daemon!Test(t, m)
      PROVE  Judged(t)'
  <2>1. /\ tpc[t] = Order[m] /\ ran' = ran
        /\ tpc'[t] = IF ~Passes(m) THEN "done" ELSE IF m < 5 THEN Order[m + 1] ELSE "lock"
    BY <1>1, <1>5 DEF Daemon!Test, Passes, Order
  <2>2. ran'[t] = Nothing /\ \A j \in 1 .. m - 1 : Passes(j)
    <3>1. tpc[t] \notin {"log", "unlock", "done"}
      BY <2>1, Orders
    <3> QED
      BY <2>1, <3>1 DEF Judged
  <2>3. CASE ~Passes(m)
    <3>1. tpc'[t] = "done"
      BY <2>1, <2>3
    <3> QED
      BY <2>2, <2>3, <3>1, <1>3, Orders
  <2>4. CASE Passes(m) /\ m = 5
    <3>1. tpc'[t] = "lock"
      BY <2>1, <2>4
    <3>2. \A j \in 1 .. 5 : Passes(j)
      BY <2>2, <2>4
    <3> QED
      BY <2>2, <3>1, <3>2, <1>3, Orders
  <2>5. CASE Passes(m) /\ m < 5
    <3>1. tpc'[t] = Order[m + 1] /\ m + 1 \in 1 .. 5
      BY <2>1, <2>5
    <3>2. tpc'[t] \notin {"none", "time", "lock", "system", "log", "unlock", "done"}
      BY <3>1, Orders
    <3>3. \A i \in 1 .. 5 : tpc'[t] = Order[i] => i = m + 1
      BY <3>1, Orders
    <3>4. \A j \in 1 .. (m + 1) - 1 : Passes(j)
      BY <2>2, <2>5
    <3>5. tpc'[t] \in {Order[i] : i \in 1 .. 5}
      BY <3>1
    <3>6. \A i \in 1 .. 5 : tpc'[t] = Order[i] => \A j \in 1 .. i - 1 : Passes(j)
      BY <3>3, <3>4
    <3> QED
      BY <1>1, <1>2, <2>2, <3>2, <3>5, <3>6 DEF Judged
  <2> QED
    BY <2>3, <2>4, <2>5
<1>6. CASE Daemon!Lock(t)
  <2>1. tpc[t] = "lock" /\ tpc'[t] = "system" /\ ran' = ran
    BY <1>1, <1>6 DEF Daemon!Lock
  <2>2. ran'[t] = Nothing /\ \A j \in 1 .. 5 : Passes(j)
    BY <2>1 DEF Judged
  <2> QED
    BY <2>1, <2>2, <1>3, Orders
<1>7. CASE Daemon!System(t)
  <2>1. tpc[t] = "system" /\ tpc'[t] = "log" /\ ran'[t] = command
    BY <1>1, <1>7 DEF Daemon!System
  <2>2. \A j \in 1 .. 5 : Passes(j)
    BY <2>1 DEF Judged
  <2> QED
    BY <2>1, <2>2, <1>3, Orders
<1>8. CASE Daemon!Log(t)
  <2>1. tpc[t] = "log" /\ tpc'[t] = "unlock" /\ ran' = ran
    BY <1>1, <1>8 DEF Daemon!Log
  <2>2. ran'[t] = command /\ \A j \in 1 .. 5 : Passes(j)
    BY <2>1 DEF Judged
  <2> QED
    BY <2>1, <2>2, <1>3, Orders
<1>9. CASE Daemon!Unlock(t)
  <2>1. tpc[t] = "unlock" /\ tpc'[t] = "done" /\ ran' = ran
    BY <1>1, <1>9 DEF Daemon!Unlock
  <2>2. ran'[t] = command /\ \A j \in 1 .. 5 : Passes(j)
    BY <2>1 DEF Judged
  <2> QED
    BY <2>1, <2>2, <1>3, Orders
<1> QED
  BY <1>4, <1>5, <1>6, <1>7, <1>8, <1>9 DEF Daemon!ssu_thread

LEMMA JudgedStep ==
  ASSUME LastJudged, FirstMinute, Created, Daemon!DaemonNext
  PROVE  LastJudged'
<1> USE DEF Daemon!stream, Daemon!globals, Daemon!lock, Daemon!ghosts, Daemon!threads
<1>1. ASSUME UNCHANGED <<tpc, ran, timetable, command, created, now>>, mpc' \in Settled => mpc \in Settled
      PROVE  LastJudged'
  BY <1>1 DEF LastJudged, Judged, Passes
<1>2. CASE Daemon!Fgets \/ Daemon!Destroy \/ Daemon!Wake
  BY <1>1, <1>2 DEF Daemon!Fgets, Daemon!Destroy, Daemon!Wake, Settled
<1>3. CASE Daemon!Overwrite \/ Daemon!Separated \/ Daemon!Clear \/ Daemon!Fill
  <2>1. mpc' \notin Settled
    BY <1>3 DEF Daemon!Overwrite, Daemon!Separated, Daemon!Clear, Daemon!Fill, Settled
  <2> QED
    BY <2>1 DEF LastJudged
<1>4. CASE Daemon!Create
  <2> SUFFICES ASSUME NEW t \in Threads, t = created'
               PROVE  Judged(t)'
    BY DEF LastJudged
  <2>1. t > created /\ t \in DOMAIN tpc /\ tpc' = [tpc EXCEPT ![t] = "time"] /\ ran' = ran
    BY <1>4 DEF Daemon!Create, Created
  <2>2. tpc'[t] = "time" /\ ran'[t] = Nothing
    BY <2>1 DEF Created
  <2> QED
    BY <2>2, Orders DEF Judged
<1>5. CASE Daemon!Tick
  <2>1. now' # 1
    BY <1>5 DEF Daemon!Tick, FirstMinute
  <2> QED
    BY <2>1 DEF LastJudged
<1>6. ASSUME NEW t \in Threads, Daemon!ssu_thread(t)
      PROVE  LastJudged'
  <2>1. UNCHANGED <<mpc, created, now, timetable, command>>
    BY <1>6 DEF Daemon!ssu_thread, Daemon!Time, Daemon!Test, Daemon!Lock, Daemon!System,
                Daemon!Log, Daemon!Unlock
  <2> SUFFICES ASSUME NEW u \in Threads, u = created, mpc \in Settled, now = 1
               PROVE  Judged(u)'
    BY <2>1 DEF LastJudged
  <2>2. Judged(u) /\ tm = 1
    BY DEF LastJudged, FirstMinute
  <2>3. CASE u = t
    BY <2>2, <2>3, <1>6, JudgedThread
  <2>4. CASE u # t
    <3>1. /\ ran' = ran \/ \E x : ran' = [ran EXCEPT ![t] = x]
          /\ \E x : tpc' = [tpc EXCEPT ![t] = x]
      BY <1>6 DEF Daemon!ssu_thread, Daemon!Time, Daemon!Test, Daemon!Lock, Daemon!System,
                  Daemon!Log, Daemon!Unlock
    <3>2. ran'[u] = ran[u] /\ tpc'[u] = tpc[u]
      BY <3>1, <2>4 DEF Created
    <3> QED
      BY <2>1, <2>2, <3>2 DEF Judged, Passes
  <2> QED
    BY <2>3, <2>4
<1> QED
  BY <1>2, <1>3, <1>4, <1>5, <1>6 DEF Daemon!DaemonNext, Daemon!Main, Threads

LEMMA LastStep ==
  ASSUME LastInv, OrderInv, [CronNext]_allVars
  PROVE  LastInv'
<1>1. CASE Run
  BY <1>1, MinuteStep, FilledStep, JudgedStep DEF Run, LastInv, OrderInv
<1>2. CASE Edit \/ StartDaemon \/ UNCHANGED allVars
  <2>1. UNCHANGED <<mpc, buf, k, timetable, command, created, tpc, rawtime, tm, ran, now>>
    BY <1>2 DEF Edit, StartDaemon, allVars, daemonVars
  <2>2. \A m \in 1 .. 5 : Marked(buf, m)' = Marked(buf, m)
    BY <2>1 DEF Marked
  <2>3. Filled'
    BY <2>1, <2>2 DEF LastInv, Filled
  <2>4. FirstMinute' /\ LastJudged'
    BY <2>1 DEF LastInv, FirstMinute, LastJudged, Judged, Passes
  <2> QED
    BY <2>3, <2>4 DEF LastInv
<1> QED
  BY <1>1, <1>2 DEF CronNext

LEMMA LastInit ==
  ASSUME CronInit
  PROVE  LastInv
<1>1. Daemon!DaemonInit
  BY DEF CronInit
<1>2. Filled
  BY <1>1 DEF Daemon!DaemonInit, Filled, Settled
<1>3. FirstMinute
  BY <1>1 DEF Daemon!DaemonInit, FirstMinute, Threads
<1>4. LastJudged
  BY <1>1 DEF Daemon!DaemonInit, LastJudged, Threads, Daemon!Threads
<1> QED
  BY <1>2, <1>3, <1>4 DEF LastInv

(* The thread of the last line runs the command if it is due, and nothing  *)
(* if it is not, as long as the minute is the same for all threads.        *)
THEOREM LastLineExactHolds ==
  ASSUME MonthsAgree
  PROVE  CronSpec => []LastLineExact
<1>1. ASSUME WantedInv, OrderInv, LastInv
      PROVE  LastLineExact
  <2> DEFINE line == line_of[created]
             c == line.command
  <2> SUFFICES ASSUME mpc = "sleep", created > 0, now = 1, tpc[created] = "done",
                      ~Daemon!Shifted(line)
               PROVE  ran[created] = IF Due(c, Times[1]) THEN Daemon!Text(line) ELSE Nothing
    BY DEF LastLineExact, Nothing
  <2>1. buf = line /\ command = Daemon!Text(line) /\ created \in Threads
    BY <1>1, CronAssumption DEF OrderInv, Created, Loaded, Settled, Threads, Daemon!Threads
  <2>2. ran[created] = IF \A j \in 1 .. 5 : Passes(j) THEN command ELSE Nothing
    BY <1>1, <2>1 DEF LastInv, LastJudged, Judged, Settled
  <2>3. c \in Commands
    BY <1>1, <2>1 DEF WantedInv, Allowed
  <2>4. ASSUME NEW j \in 1 .. 5
        PROVE  timetable[Order[j]] = Daemon!make_timetable(Order[j], FieldsOf[c][Order[j]])
    <3>1. timetable[Order[j]] = Marked(line, j)
      BY <1>1, <2>1 DEF LastInv, Filled, Settled
    <3>2. Daemon!Token(line, j) = FieldsOf[c][Order[j]]
      BY DEF Daemon!Token, Order
    <3> QED
      BY <3>1, <3>2 DEF Marked
  <2>5. ASSUME NEW j \in 1 .. 5
        PROVE  Passes(j) <=> Now(Times[1], Order[j])
                               \in Daemon!make_timetable(Order[j], FieldsOf[c][Order[j]])
    <3>1. CASE Order[j] = "month"
      BY <2>3, <2>4, <3>1, MonthsAgree DEF Passes, Now, MonthsAgree
    <3>2. CASE Order[j] # "month"
      BY <2>4, <3>2 DEF Passes, Now
    <3> QED
      BY <3>1, <3>2
  <2>6. Due(c, Times[1]) <=> \A j \in 1 .. 5 : Passes(j)
    <3> HIDE DEF c
    <3>1. Due(c, Times[1]) <=>
            \A j \in 1 .. 5 : Now(Times[1], Order[j])
                                \in Daemon!make_timetable(Order[j], FieldsOf[c][Order[j]])
      BY Orders DEF Due
    <3> QED
      BY <3>1, <2>5
  <2> QED
    BY <2>1, <2>2, <2>6
<1>2. CronSpec => [](WantedInv /\ OrderInv /\ LastInv)
  BY WantedInit, WantedStep, OrderInit, OrderStep, LastInit, LastStep, PTL DEF CronSpec
<1> QED
  BY <1>1, <1>2, PTL

=============================================================================
