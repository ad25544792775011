---------------------------- MODULE ShellProofs -----------------------------
(***************************************************************************)
(* Theorems about Shell, for all lines, commands, inputs and limits.       *)
(***************************************************************************)
EXTENDS Shell, SequenceTheorems, TLAPS

(* One descriptor of the shell is lost for each command of a pipeline that *)
(* has ended, and two are open for the pipe of the one that has not.       *)
Counted ==
  /\ piped \in Nat /\ pipe.writer \in BOOLEAN
  /\ fds = BaseFds + piped + IF pipe.writer THEN 2 ELSE 0

(* What is known of the fields of a pipe and of a running command.         *)
Formed ==
  /\ pipe = [data |-> pipe.data, writer |-> pipe.writer]
  /\ child.state = "running" =>
       child = [state |-> "running", reads |-> child.reads, left |-> child.left,
                failed |-> child.failed, piped |-> child.piped, last |-> child.last]

(* The shell has a write end open only between making a pipe and the end   *)
(* of the command that writes into it.                                     *)
Open ==
  /\ pc \in {"read", "pipe", "fork", "wait", "ended"}
  /\ pc \in {"read", "pipe"} => ~pipe.writer
  /\ pc = "wait" => child.piped = pipe.writer

(* Once it has given up it does nothing more.                              *)
Over == outcome = "pipe error" => pc = "ended"

PipeInv == Formed /\ Counted /\ Open /\ Over /\ GivesUpOnlyWhenFull

LEMMA PipeInit == Init => PipeInv
<1> SUFFICES ASSUME Init PROVE PipeInv
  OBVIOUS
<1>1. /\ pipe = [data |-> <<>>, writer |-> FALSE] /\ child = [state |-> "none"]
      /\ pc = "read" /\ outcome = "" /\ piped = 0 /\ fds = BaseFds
  BY DEF Init, Terminal, NoChild
<1>2. BaseFds \in Nat
  BY DEF BaseFds
<1>3. Formed /\ ~pipe.writer /\ pipe.writer \in BOOLEAN
  BY <1>1 DEF Formed
<1>4. Counted
  <2>1. fds = BaseFds + piped + 0 /\ piped \in Nat
    <3>1. fds = BaseFds /\ piped = 0
      BY <1>1
    <3> QED
      BY <1>2, <3>1
  <2> QED
    BY <1>3, <2>1, Zenon DEF Counted
<1> QED
  BY <1>1, <1>3, <1>4 DEF PipeInv, Open, Over, GivesUpOnlyWhenFull

(* The steps that open and close nothing.                                  *)
LEMMA NothingOpened ==
  ASSUME PipeInv, UNCHANGED <<mode, fds, pipe, piped>>, Formed', Open', Over', outcome' # "pipe error"
  PROVE  PipeInv'
BY DEF PipeInv, Counted, GivesUpOnlyWhenFull, BaseFds

LEMMA PipeStep ==
  ASSUME PipeInv, [Next]_vars
  PROVE  PipeInv'
<1> USE DEF given, split, stream, pipes, ghosts
<1>1. CASE ReadLine \/ ReadEof \/ PipelineDone
  <2>1. /\ UNCHANGED <<mode, fds, pipe, piped, child>>
        /\ pc \in {"read", "pipe"} /\ pc' \in {"read", "pipe", "fork", "ended"}
    BY <1>1 DEF ReadLine, ReadAs, ReadEof, PipelineDone
  <2>2. outcome' \in {outcome, "crash", "done"}
    BY <1>1 DEF ReadLine, ReadAs, ReadEof, PipelineDone
  <2>3. outcome # "pipe error"
    BY <2>1 DEF PipeInv, Over
  <2>4. Formed' /\ Open' /\ Over'
    BY <2>1, <2>2, <2>3 DEF PipeInv, Formed, Open, Over
  <2> QED
    BY <2>1, <2>2, <2>3, <2>4, NothingOpened
<1>2. CASE MakePipe
  <2>1. pc = "pipe" /\ ~pipe.writer /\ outcome # "pipe error" /\ UNCHANGED <<mode, child, piped>>
    BY <1>2 DEF MakePipe, PipeInv, Open, Over
  <2>2. fds = BaseFds + piped /\ piped \in Nat /\ BaseFds \in Nat /\ BaseFds' = BaseFds
    <3>1. BaseFds \in Nat /\ BaseFds' = BaseFds
      BY <2>1 DEF BaseFds
    <3>2. fds = BaseFds + piped + 0 /\ piped \in Nat
      BY <2>1 DEF PipeInv, Counted
    <3> QED
      BY <3>1, <3>2
  <2>3. CASE /\ fds' = fds + 2 /\ pipe' = [data |-> <<>>, writer |-> TRUE]
             /\ pc' = "fork" /\ outcome' = outcome
    BY <2>1, <2>2, <2>3 DEF PipeInv, Formed, Counted, Open, Over, GivesUpOnlyWhenFull
  <2>4. CASE fds + 2 > MaxFds /\ pc' = "ended" /\ UNCHANGED <<fds, pipe>>
    <3>1. BaseFds + piped + 2 > MaxFds
      BY <2>2, <2>4
    <3> QED
      BY <2>1, <2>2, <2>4, <3>1 DEF PipeInv, Formed, Counted, Open, Over, GivesUpOnlyWhenFull
  <2> QED
    BY <1>2, <2>3, <2>4 DEF MakePipe
<1>3. CASE Fork
  <2>1. /\ UNCHANGED <<mode, fds, pipe, piped>> /\ pc = "fork" /\ outcome # "pipe error"
    BY <1>3 DEF Fork, PipeInv, Over
  <2>2. ASSUME NEW run,
               child' = [state |-> "running", reads |-> run.reads, left |-> run.left,
                         failed |-> run.left = <<Incorrect>>, piped |-> pipe.writer,
                         last |-> k = Len(cmds)],
               pc' = "wait", outcome' = outcome
        PROVE  PipeInv'
    BY <2>1, <2>2, NothingOpened DEF PipeInv, Formed, Open, Over
  <2>3. CASE pc' = "ended" /\ outcome' = "fork error" /\ child' = child
    BY <2>1, <2>3, NothingOpened DEF PipeInv, Formed, Open, Over
  <2> QED
    BY <1>3, <2>2, <2>3 DEF Fork
<1>4. CASE Wait
  <2>1. /\ pc = "wait" /\ child.piped = pipe.writer /\ outcome # "pipe error"
        /\ outcome' = outcome /\ mode' = mode
    BY <1>4 DEF Wait, PipeInv, Open, Over
  <2>2. CASE /\ child.piped /\ fds' = fds - 1 /\ pipe' = Terminal
             /\ piped' = piped + 1 /\ pc' = "pipe"
    <3>1. BaseFds \in Nat /\ BaseFds' = BaseFds
      BY <2>1 DEF BaseFds
    <3>2. fds = BaseFds + piped + 2 /\ piped \in Nat
      BY <2>1, <2>2 DEF PipeInv, Counted
    <3>3. ~pipe'.writer /\ pipe'.writer \in BOOLEAN
      BY <2>2 DEF Terminal
    <3>4. fds' = BaseFds' + piped' /\ piped' \in Nat
      BY <2>2, <3>1, <3>2
    <3>5. Counted'
      BY <3>1, <3>3, <3>4 DEF Counted
    <3>6. Formed'
      BY <1>4, <2>2 DEF Wait, Formed, Terminal, NoChild
    <3> QED
      BY <2>1, <2>2, <3>3, <3>5, <3>6 DEF PipeInv, Open, Over, GivesUpOnlyWhenFull
  <2>3. CASE ~child.piped /\ pc' = "read" /\ UNCHANGED <<pipes, piped>>
    <3>1. Formed'
      BY <1>4, <2>3 DEF Wait, PipeInv, Formed, NoChild
    <3> QED
      BY <2>1, <2>3, <3>1, NothingOpened DEF Open, Over
  <2> QED
    BY <1>4, <2>2, <2>3 DEF Wait
<1>5. CASE Command
  <2>1. UNCHANGED <<mode, fds, piped, pc, outcome>> /\ child.state = "running"
    BY <1>5 DEF Command, ChildRead, ChildWrite, ChildExit
  <2>2. /\ child = [state |-> "running", reads |-> child.reads, left |-> child.left,
                     failed |-> child.failed, piped |-> child.piped, last |-> child.last]
        /\ pipe = [data |-> pipe.data, writer |-> pipe.writer]
    BY <2>1 DEF PipeInv, Formed
  <2>3. /\ child' = [state |-> child'.state, reads |-> child.reads, left |-> child'.left,
                      failed |-> child.failed, piped |-> child.piped, last |-> child.last]
        /\ child'.state \in {"running", "ended"}
    BY <1>5, <2>2 DEF Command, ChildRead, ChildWrite, ChildExit
  <2>4. pipe' = [data |-> pipe'.data, writer |-> pipe.writer]
    BY <1>5, <2>2 DEF Command, ChildRead, ChildWrite, ChildExit
  <2>5. child'.piped = child.piped /\ pipe'.writer = pipe.writer /\ Formed'
    BY <2>3, <2>4 DEF Formed
  <2>6. BaseFds' = BaseFds
    BY <2>1 DEF BaseFds
  <2> QED
    BY <2>1, <2>5, <2>6 DEF PipeInv, Counted, Open, Over, GivesUpOnlyWhenFull
<1>6. CASE UNCHANGED vars
  BY <1>6 DEF vars, PipeInv, Formed, Counted, Open, Over, GivesUpOnlyWhenFull, BaseFds
<1> QED
  BY <1>1, <1>2, <1>3, <1>4, <1>5, <1>6 DEF Next, Shell, Ended

(* The shell gives up for want of descriptors only when the pipelines it   *)
(* has run, one descriptor lost for each command, have used them up.       *)
THEOREM GivesUpOnlyWhenFullHolds == Spec => []GivesUpOnlyWhenFull
<1>1. Init => PipeInv
  BY PipeInit
<1>2. PipeInv /\ [Next]_vars => PipeInv'
  BY PipeStep
<1> QED
  BY <1>1, <1>2, PTL DEF Spec, PipeInv

-----------------------------------------------------------------------------
(* What the terminal shows.  Nothing is said here of how a line is split:  *)
(* it is taken to be split as it was meant where it has a meaning, and     *)
(* into some commands everywhere.  C is the set of characters, W that of   *)
(* words and other units of data.                                          *)
Typed(C) == [text : Seq(C), newline : BOOLEAN]
Worded(W, C) ==
  /\ Incorrect \in W /\ Wild \in W /\ Seq(C) \subseteq W
  /\ Inputs \subseteq Seq(Typed(C))
  /\ \A text \in Seq(C) : Split(text) \in Seq(Seq(W))
SplitAsMeant == \A text \in DOMAIN Meaning : Split(text) = Meaning[text]

(* The pipeline at hand, and whether it is run as it was split.            *)
Plan == Meaning[line.text]
Length == Len(Plan)
Undisturbed == line.newline /\ line.text \in DOMAIN Meaning /\ ~loose

Shapes(W, C) ==
  /\ typed \in Inputs /\ input \in Seq(Typed(C))
  /\ cmds \in Seq(Seq(W)) /\ k \in Nat \ {0}
  /\ pc # "wait" => child = NoChild

(* While a command runs: what it has written, what it is about to write    *)
(* and what it has yet to read make up its output.                         *)
Written == IF ToPipe THEN pipe.data ELSE shown
Unread == IF child.reads /\ ~FromTerminal THEN fd_in.data ELSE <<>>

Running(W) ==
  /\ child = [state |-> child.state, reads |-> child.reads, left |-> child.left,
              failed |-> child.failed, piped |-> child.piped, last |-> child.last]
  /\ child.state \in {"running", "ended"}
  /\ child.reads \in BOOLEAN /\ (child.reads <=> Head(Plan[k]) = Cat)
  /\ (child.piped <=> Length > 1) /\ child.last \in BOOLEAN /\ (child.last <=> k = Length)
  /\ Written \in Seq(W) /\ child.left \in Seq(W) /\ Unread \in Seq(W)
  /\ Written \o child.left \o Unread = Composed(Plan, k, taken)
  /\ child.state = "ended" => child.left = <<>> /\ Unread = <<>>
  /\ ToPipe => shown = <<>>

(* Before: what the command before it has written waits for it.            *)
Supplied(W) ==
  /\ shown = <<>>
  /\ k = 1 => taken = <<>>
  /\ k > 1 => fd_in.data \in Seq(W) /\ fd_in.data = Composed(Plan, k - 1, taken)

Flow(W) ==
  Undisturbed =>
    /\ pc \in {"pipe", "fork", "wait"} =>
         cmds = Plan /\ taken \in Seq(W) /\ k \in 1 .. Length + 1
    /\ pc \in {"fork", "wait"} => k <= Length /\ (pipe.writer <=> Length > 1)
    /\ pc = "pipe" => Length > 1
    /\ pc = "fork" /\ Length > 1 => pipe.data = <<>>
    /\ pc \in {"pipe", "fork"} /\ k <= Length => Supplied(W)
    /\ pc = "wait" => Running(W)
    /\ pc = "read" \/ (pc = "pipe" /\ k > Length) => shown = Composed(Plan, Length, taken)

FlowInv(W, C) == PipeInv /\ Shapes(W, C) /\ Flow(W)

-----------------------------------------------------------------------------
(* Sequences.                                                              *)
LEMMA MoveOne ==
  ASSUME NEW W, NEW r \in Seq(W), NEW s \in Seq(W), NEW t \in Seq(W), s # <<>>
  PROVE  /\ Head(s) \in W /\ Tail(s) \in Seq(W)
         /\ Append(r, Head(s)) \in Seq(W)
         /\ Append(r, Head(s)) \o Tail(s) \o t = r \o s \o t
<1>1. Head(s) \in W /\ Tail(s) \in Seq(W) /\ <<Head(s)>> \in Seq(W)
  OBVIOUS
<1>2. Append(r, Head(s)) = r \o <<Head(s)>> /\ s = <<Head(s)>> \o Tail(s)
  <2>1. Append(r, Head(s)) = r \o <<Head(s)>>
    BY <1>1, AppendIsConcat
  <2>2. s = <<Head(s)>> \o Tail(s)
    BY <1>1
  <2> QED
    BY <2>1, <2>2
<1>3. (r \o <<Head(s)>>) \o Tail(s) = r \o (<<Head(s)>> \o Tail(s))
  BY <1>1, ConcatAssociative
<1> QED
  BY <1>1, <1>2, <1>3

LEMMA PassOne ==
  ASSUME NEW W, NEW r \in Seq(W), NEW s \in Seq(W), s # <<>>
  PROVE  /\ <<Head(s)>> \in Seq(W) /\ Tail(s) \in Seq(W)
         /\ r \o <<Head(s)>> \o Tail(s) = r \o <<>> \o s
<1>1. Head(s) \in W /\ Tail(s) \in Seq(W) /\ <<Head(s)>> \in Seq(W)
  OBVIOUS
<1>2. s = <<Head(s)>> \o Tail(s)
  BY <1>1
<1>3. (r \o <<Head(s)>>) \o Tail(s) = r \o (<<Head(s)>> \o Tail(s))
  BY <1>1, ConcatAssociative
<1>4. r \o <<>> = r
  BY ConcatEmptySeq
<1> QED
  BY <1>1, <1>2, <1>3, <1>4

LEMMA Nothing ==
  ASSUME NEW W, NEW r \in Seq(W)
  PROVE  /\ <<>> \o r = r /\ r \o <<>> = r
         /\ <<>> \o r \o <<>> = r /\ <<>> \o <<>> \o r = r /\ r \o <<>> \o <<>> = r
BY ConcatEmptySeq

(* What is read of a file, and what a line goes on with, are lines.        *)
LEMMA LinesFromType ==
  ASSUME NEW C, NEW lines \in Seq(Typed(C)), NEW p
  PROVE  LinesFrom(lines, p) \in Seq(Typed(C))
<1> DEFINE In(j) == {d \in 0 .. Len(lines[j].text) :
                       d < Size(lines[j]) /\ Before(lines, j) + d = p}
           here == {j \in DOMAIN lines : In(j) # {}}
           at == CHOOSE j \in here : TRUE
           d == CHOOSE x \in In(at) : TRUE
           text == lines[at].text
           first == [lines[at] EXCEPT !.text = SubSeq(@, d + 1, Len(@))]
           rest == SubSeq(lines, at + 1, Len(lines))
<1>1. CASE here = {}
  <2>1. LinesFrom(lines, p) = <<>>
    BY <1>1 DEF LinesFrom
  <2> QED
    BY <2>1
<1>2. CASE here # {}
  <2>1. LinesFrom(lines, p) = <<first>> \o rest
    BY <1>2 DEF LinesFrom
  <2>2. at \in DOMAIN lines /\ In(at) # {}
    BY <1>2
  <2>3. d \in In(at)
    BY <2>2
  <2> HIDE DEF at, here
  <2>4. /\ at \in 1 .. Len(lines) /\ Len(lines) \in Nat /\ lines[at] \in Typed(C)
    BY <2>2
  <2>5. text \in Seq(C) /\ d \in 0 .. Len(text) /\ lines[at] = [text |-> text, newline |-> lines[at].newline]
        /\ lines[at].newline \in BOOLEAN
    BY <2>3, <2>4 DEF Typed
  <2> HIDE DEF d
  <2>6. SubSeq(text, d + 1, Len(text)) \in Seq(C)
    <3> HIDE DEF text
    <3>1. d + 1 \in 1 .. Len(text) + 1 /\ Len(text) \in Nat
      BY <2>5
    <3> QED
      BY <2>5, <3>1, SubSeqProperties
  <2>7. first \in Typed(C)
    BY <2>5, <2>6 DEF Typed
  <2>8. rest \in Seq(Typed(C))
    <3>1. at + 1 \in 1 .. Len(lines) + 1
      BY <2>4
    <3> QED
      BY <2>4, <3>1, SubSeqProperties
  <2> HIDE DEF first, rest
  <2>9. <<first>> \in Seq(Typed(C))
    BY <2>7
  <2> QED
    BY <2>1, <2>8, <2>9, ConcatProperties
<1> QED
  BY <1>1, <1>2

LEMMA RefilledType ==
  ASSUME NEW C, NEW rest \in Seq(Typed(C)), NEW more \in Seq(Typed(C))
  PROVE  Refilled(rest, more) \in Seq(Typed(C))
<1>1. CASE rest = <<>> \/ more = <<>>
  BY <1>1, ConcatProperties DEF Refilled
<1>2. CASE rest # <<>> /\ more # <<>>
  <2> DEFINE first == [Head(more) EXCEPT !.text = Head(rest).text \o @]
  <2>1. Head(more) \in Typed(C) /\ Head(rest) \in Typed(C) /\ Tail(more) \in Seq(Typed(C))
    BY <1>2
  <2>2. Head(rest).text \o Head(more).text \in Seq(C)
    BY <2>1, ConcatProperties DEF Typed
  <2>3. first \in Typed(C)
    BY <2>1, <2>2 DEF Typed
  <2>4. Refilled(rest, more) = <<first>> \o Tail(more)
    BY <1>2 DEF Refilled
  <2> HIDE DEF first
  <2>5. <<first>> \in Seq(Typed(C))
    BY <2>3
  <2> QED
    BY <2>1, <2>4, <2>5, ConcatProperties
<1> QED
  BY <1>1, <1>2

LEMMA BufferType ==
  ASSUME NEW W, NEW C, Worded(W, C), Shapes(W, C)
  PROVE  Buffer \in Seq(Typed(C))
<1>1. typed \in Seq(Typed(C)) /\ input \in Seq(Typed(C))
  BY DEF Worded, Shapes
<1> QED
  BY <1>1, LinesFromType, RefilledType DEF Buffer

-----------------------------------------------------------------------------
(* What commands write.                                                    *)
LEMMA OwnType ==
  ASSUME NEW W, Incorrect \in W, NEW cmd \in Seq(W)
  PROVE  Own(cmd) \in Seq(W)
<1>1. CASE cmd = <<>>
  BY <1>1 DEF Own
<1>2. CASE cmd # <<>>
  <2>1. Tail(cmd) \in Seq(W) /\ <<Incorrect>> \in Seq(W) /\ <<>> \in Seq(W)
    BY <1>2
  <2> QED
    BY <1>2, <2>1 DEF Own
<1> QED
  BY <1>1, <1>2

LEMMA CatOwn ==
  ASSUME NEW cmd, cmd # <<>>, Head(cmd) = Cat
  PROVE  Own(cmd) = <<>>
BY ShellAssumption DEF Own

(* One command more.                                                       *)
LEMMA ComposedStep ==
  ASSUME NEW c, NEW n \in Nat \ {0}, NEW data
  PROVE  Composed(c, n, data) =
           IF Head(c[n]) = Cat THEN Composed(c, n - 1, data) ELSE Own(c[n])
<1> DEFINE own(m) == {i \in 1 .. m : Head(c[i]) # Cat}
<1>1. CASE Head(c[n]) = Cat
  <2>1. own(n) = own(n - 1)
    BY <1>1
  <2> QED
    BY <1>1, <2>1 DEF Composed
<1>2. CASE Head(c[n]) # Cat
  <2>1. n \in own(n) /\ \A m \in own(n) : n >= m /\ m \in Int
    BY <1>2
  <2>2. \A m \in own(n) : (\A i \in own(n) : m >= i) => m = n
    BY <2>1
  <2> HIDE DEF own
  <2>3. Max(own(n)) = n
    BY <2>1, <2>2 DEF Max
  <2>4. own(n) # {}
    BY <2>1
  <2> QED
    BY <1>2, <2>3, <2>4 DEF Composed, own
<1> QED
  BY <1>1, <1>2

LEMMA ComposedNone ==
  ASSUME NEW c, NEW data
  PROVE  Composed(c, 0, data) = data
BY DEF Composed

-----------------------------------------------------------------------------
LEMMA PlanFacts ==
  ASSUME NEW W, NEW C, FlowInv(W, C), Undisturbed, pc \in {"pipe", "fork", "wait"}
  PROVE  /\ cmds = Plan /\ Length \in Nat \ {0} /\ Length = Len(cmds)
         /\ taken \in Seq(W) /\ k \in 1 .. Length + 1
         /\ \A j \in 1 .. Length : Plan[j] \in Seq(W) /\ Plan[j] # <<>> /\ cmds[j] = Plan[j]
<1>1. cmds = Plan /\ Plan \in Seq(Seq(W)) /\ taken \in Seq(W) /\ k \in 1 .. Length + 1
  BY DEF FlowInv, Flow, Shapes
<1>2. Plan # <<>> /\ \A j \in DOMAIN Plan : Plan[j] # <<>>
  BY ShellAssumption DEF Undisturbed, Plan
<1>3. DOMAIN Plan = 1 .. Length /\ Length \in Nat \ {0} /\ Length = Len(cmds)
  BY <1>1, <1>2 DEF Length
<1>4. \A j \in 1 .. Length : Plan[j] \in Seq(W)
  BY <1>1, <1>3
<1> QED
  BY <1>1, <1>2, <1>3, <1>4

LEMMA PlanKept ==
  ASSUME line' = line, loose' = loose
  PROVE  Plan' = Plan /\ Length' = Length /\ (Undisturbed' <=> Undisturbed)
BY DEF Plan, Length, Undisturbed

(* Taking a line leaves lines.                                             *)
LEMMA OneTaken ==
  ASSUME NEW C, NEW lines \in Seq(Typed(C)), lines # <<>>
  PROVE  /\ Head(lines) \in Typed(C) /\ Head(lines).text \in Seq(C)
         /\ Tail(lines) \in Seq(Typed(C))
<1>1. Head(lines) \in Typed(C) /\ Tail(lines) \in Seq(Typed(C))
  OBVIOUS
<1> QED
  BY <1>1 DEF Typed

LEMMA LineFlow ==
  ASSUME NEW W, NEW C, Worded(W, C), SplitAsMeant, FlowInv(W, C), ReadLine
  PROVE  (Shapes(W, C) /\ Flow(W))'
<1> USE DEF given, pipes
<1> DEFINE c == Split(Text(Head(Buffer)))
<1>1. /\ pc = "read" /\ line' = Head(Buffer) /\ input' = Tail(Buffer) /\ ReadAs(c)
      /\ shown' = <<>> /\ taken' = <<>> /\ k' = 1
      /\ UNCHANGED <<mode, typed, pipe, child>> /\ Buffer # <<>>
  BY DEF ReadLine
<1>2. /\ line' \in Typed(C) /\ line'.text \in Seq(C) /\ typed \in Inputs
      /\ input' \in Seq(Typed(C))
  BY <1>1, BufferType, OneTaken DEF FlowInv, Shapes
<1>3. Text(Head(Buffer)) \in Seq(C)
  <2> DEFINE text == line'.text
  <2>1. text # <<>> => Front(text) \in Seq(C)
    <3>1. text \in Seq(C)
      BY <1>2
    <3> HIDE DEF text
    <3> QED
      BY <3>1 DEF Front
  <2> QED
    BY <1>1, <1>2, <2>1 DEF Text
<1>4. c \in Seq(Seq(W)) /\ Wild \in W
  BY <1>3 DEF Worded
<1>5. /\ pc' \in {"fork", "pipe", "ended"}
      /\ cmds' \in {cmds, c, Append(Front(c), Append(Last(c), Wild)), Front(c), Append(Front(c), <<Wild>>),
                    [j \in DOMAIN c |-> IF c[j] = <<>> THEN <<Wild>> ELSE c[j]]}
      /\ Len(c) >= 1
  <2> HIDE DEF c
  <2>1. Len(c) \in Nat
    BY <1>4
  <2>2. Len(c) = 1 \/ Len(c) > 1
    BY <1>1 DEF ReadAs
  <2>3. pc' \in {"fork", "pipe", "ended"}
    BY <1>1 DEF ReadAs
  <2>4. \/ cmds' = cmds
        \/ cmds' = c
        \/ cmds' = Append(Front(c), Append(Last(c), Wild))
        \/ cmds' = Front(c)
        \/ cmds' = Append(Front(c), <<Wild>>)
        \/ cmds' = [j \in DOMAIN c |-> IF c[j] = <<>> THEN <<Wild>> ELSE c[j]]
    BY <1>1, Zenon DEF ReadAs
  <2>5. cmds' \in {cmds, c, Append(Front(c), Append(Last(c), Wild)), Front(c), Append(Front(c), <<Wild>>),
                   [j \in DOMAIN c |-> IF c[j] = <<>> THEN <<Wild>> ELSE c[j]]}
    BY <2>4, Zenon
  <2>6. Len(c) >= 1
    BY <2>1, <2>2
  <2> QED
    BY <2>3, <2>5, <2>6
<1> HIDE DEF c
<1>6. cmds' \in Seq(Seq(W))
  <2>1. c # <<>>
    BY <1>4, <1>5
  <2>2. Front(c) \in Seq(Seq(W)) /\ Last(c) \in Seq(W)
    BY <1>4, <2>1 DEF Front, Last
  <2>3. Append(Last(c), Wild) \in Seq(W) /\ <<Wild>> \in Seq(W)
    BY <1>4, <2>2
  <2>4. /\ Append(Front(c), Append(Last(c), Wild)) \in Seq(Seq(W))
        /\ Append(Front(c), <<Wild>>) \in Seq(Seq(W))
    BY <2>2, <2>3
  <2>5. cmds \in Seq(Seq(W))
    BY DEF FlowInv, Shapes
  <2>6. [j \in DOMAIN c |-> IF c[j] = <<>> THEN <<Wild>> ELSE c[j]] \in Seq(Seq(W))
    <3>1. \A j \in 1 .. Len(c) : (IF c[j] = <<>> THEN <<Wild>> ELSE c[j]) \in Seq(W)
      BY <1>4, <2>3
    <3>2. DOMAIN c = 1 .. Len(c) /\ Len(c) \in Nat
      BY <1>4
    <3> QED
      BY <3>1, <3>2
  <2> QED
    BY <1>4, <1>5, <2>2, <2>4, <2>5, <2>6
<1>7. child' = NoChild
  BY <1>1 DEF FlowInv, Shapes
<1>8. Shapes(W, C)'
  BY <1>1, <1>2, <1>6, <1>7 DEF FlowInv, Shapes
<1>9. Flow(W)'
  <2> SUFFICES ASSUME Undisturbed' PROVE Flow(W)'
    BY DEF Flow
  <2>1. c = Plan' /\ Length' = Len(c)
    <3>1. line'.newline /\ line'.text \in DOMAIN Meaning
      BY DEF Undisturbed
    <3>2. Text(Head(Buffer)) = line'.text
      BY <1>1, <3>1 DEF Text
    <3> QED
      BY <3>1, <3>2 DEF SplitAsMeant, Plan, Length, c
  <2>2. c # <<>> /\ \A j \in DOMAIN c : c[j] # <<>>
    BY <2>1, ShellAssumption DEF Undisturbed, Plan
  <2>3. Unset(c) = {} /\ Len(c) \in DOMAIN c
    BY <1>4, <2>2 DEF Unset
  <2>4. ~RunsOn(c)
    BY <1>1 DEF ReadAs, Undisturbed
  <2>5. cmds' = c /\ (\/ Len(c) = 1 /\ pc' = "fork"
                      \/ Len(c) > 1 /\ pc' = "pipe")
    BY <1>1, <2>3, <2>4 DEF ReadAs
  <2>6. pipe'.writer = FALSE
    BY <1>1 DEF FlowInv, PipeInv, Open, Counted
  <2>7. taken' \in Seq(W) /\ k' \in 1 .. Length' + 1 /\ k' <= Length' /\ Length' \in Nat
    BY <1>1, <1>4, <1>5, <2>1
  <2>8. Supplied(W)'
    BY <1>1 DEF Supplied
  <2> QED
    BY <1>1, <2>1, <2>5, <2>6, <2>7, <2>8 DEF Flow
<1> QED
  BY <1>8, <1>9

LEMMA EofFlow ==
  ASSUME NEW W, NEW C, FlowInv(W, C), ReadEof
  PROVE  (Shapes(W, C) /\ Flow(W))'
<1> USE DEF given, pipes
<1>1. UNCHANGED <<typed, input, child>> /\ pc = "read"
  BY DEF ReadEof
<1>2. CASE pc' = "ended" /\ UNCHANGED <<split, k>>
  <2>1. Shapes(W, C)'
    BY <1>1, <1>2 DEF FlowInv, Shapes, split
  <2> QED
    BY <1>2, <2>1 DEF Flow
<1>3. CASE /\ line' = [text |-> <<>>, newline |-> FALSE]
           /\ pc' = "fork" /\ cmds' = << <<>> >> /\ k' = 1
  <2>1. << <<>> >> \in Seq(Seq(W))
    OBVIOUS
  <2>2. Shapes(W, C)'
    BY <1>1, <1>3, <2>1 DEF FlowInv, Shapes
  <2> QED
    BY <1>3, <2>2 DEF Flow, Undisturbed
<1> QED
  BY <1>2, <1>3 DEF ReadEof

LEMMA MakeFlow ==
  ASSUME NEW W, NEW C, FlowInv(W, C), MakePipe
  PROVE  (Shapes(W, C) /\ Flow(W))'
<1> USE DEF given, split, stream, ghosts
<1>1. /\ UNCHANGED <<typed, input, line, loose, cmds, k, child, shown, taken>>
      /\ pc = "pipe" /\ k <= Len(cmds) /\ pc' \in {"fork", "ended"}
  BY DEF MakePipe
<1>2. Shapes(W, C)'
  BY <1>1 DEF FlowInv, Shapes
<1>3. Plan' = Plan /\ Length' = Length /\ (Undisturbed' <=> Undisturbed)
  BY <1>1, PlanKept
<1>4. ASSUME Undisturbed, pc' = "fork"
      PROVE  Flow(W)'
  <2>1. /\ cmds = Plan /\ Length = Len(cmds) /\ Length > 1
        /\ taken \in Seq(W) /\ k \in 1 .. Length + 1 /\ Supplied(W)
    BY <1>1, <1>4, PlanFacts DEF FlowInv, Flow
  <2>2. pipe' = [data |-> <<>>, writer |-> TRUE] /\ fd_in' = IF k = 1 THEN Terminal ELSE fd_in
    BY <1>4 DEF MakePipe
  <2>3. Supplied(W)'
    BY <1>1, <1>3, <2>1, <2>2 DEF Supplied
  <2> QED
    BY <1>1, <1>3, <1>4, <2>1, <2>2, <2>3 DEF Flow
<1> QED
  BY <1>1, <1>2, <1>3, <1>4 DEF Flow

LEMMA DoneFlow ==
  ASSUME NEW W, NEW C, FlowInv(W, C), PipelineDone
  PROVE  (Shapes(W, C) /\ Flow(W))'
<1> USE DEF given, split, stream, ghosts
<1>1. /\ UNCHANGED <<typed, input, line, loose, cmds, k, child, shown, taken>>
      /\ pc = "pipe" /\ k > Len(cmds) /\ pc' \in {"read", "ended"}
  BY DEF PipelineDone
<1>2. Shapes(W, C)'
  BY <1>1 DEF FlowInv, Shapes
<1>3. Plan' = Plan /\ Length' = Length /\ (Undisturbed' <=> Undisturbed)
  BY <1>1, PlanKept
<1>4. ASSUME Undisturbed
      PROVE  shown' = Composed(Plan', Length', taken')
  <2>1. Length = Len(cmds)
    BY <1>1, <1>4, PlanFacts
  <2> QED
    BY <1>1, <1>3, <1>4, <2>1 DEF FlowInv, Flow
<1> QED
  BY <1>1, <1>2, <1>3, <1>4 DEF Flow

LEMMA ForkFlow ==
  ASSUME NEW W, NEW C, Worded(W, C), FlowInv(W, C), Fork
  PROVE  (Shapes(W, C) /\ Flow(W))'
<1> USE DEF given, split, stream, pipes, ghosts
<1>1. /\ UNCHANGED <<typed, input, line, cmds, k, fds, fd_in, pipe, loose, shown, taken>>
      /\ pc = "fork" /\ pc' \in {"wait", "ended"}
  BY DEF Fork
<1>2. Shapes(W, C)'
  BY <1>1 DEF Fork, FlowInv, Shapes
<1>3. Plan' = Plan /\ Length' = Length /\ (Undisturbed' <=> Undisturbed)
  BY <1>1, PlanKept
<1>4. ASSUME Undisturbed, pc' = "wait"
      PROVE  Flow(W)'
  <2>1. /\ cmds = Plan /\ Length = Len(cmds) /\ Length \in Nat \ {0}
        /\ taken \in Seq(W) /\ k \in 1 .. Length
        /\ Plan[k] \in Seq(W) /\ Plan[k] # <<>> /\ cmds[k] = Plan[k]
    <3>1. k <= Length /\ k \in 1 .. Length + 1 /\ Length \in Nat \ {0}
      BY <1>1, <1>4, PlanFacts DEF FlowInv, Flow
    <3>2. k \in 1 .. Length
      BY <3>1
    <3> QED
      BY <1>1, <1>4, <3>2, PlanFacts
  <2>2. /\ Supplied(W) /\ (pipe.writer <=> Length > 1) /\ pipe.writer \in BOOLEAN
        /\ Length > 1 => pipe.data = <<>>
    BY <1>1, <1>4, <2>1 DEF FlowInv, Flow, PipeInv, Counted
  <2> DEFINE reads == Head(Plan[k]) = Cat
             left == Own(Plan[k])
  <2>3. child' = [state |-> "running", reads |-> reads, left |-> left,
                  failed |-> left = <<Incorrect>>, piped |-> pipe.writer, last |-> k = Length]
    <3>1. Wild \notin ToSet(Plan[k])
      <4>1. k \in DOMAIN Plan
        BY <2>1
      <4> QED
        BY <1>4, <4>1, ShellAssumption DEF Undisturbed, Plan
    <3>2. Runs(cmds[k]) = {[reads |-> reads, left |-> left]}
      BY <2>1, <3>1 DEF Runs
    <3> QED
      BY <1>4, <2>1, <3>2 DEF Fork
  <2>4. /\ child'.state = "running" /\ (child'.reads <=> reads) /\ child'.reads \in BOOLEAN
        /\ child'.left = left /\ child'.piped = pipe.writer
        /\ (child'.last <=> k = Length) /\ child'.last \in BOOLEAN
        /\ child' = [state |-> child'.state, reads |-> child'.reads, left |-> child'.left,
                     failed |-> child'.failed, piped |-> child'.piped, last |-> child'.last]
    <3>1. reads \in BOOLEAN /\ (k = Length) \in BOOLEAN
      OBVIOUS
    <3> HIDE DEF reads, left
    <3> QED
      BY <2>3, <3>1
  <2>5. left \in Seq(W) /\ (reads => left = <<>>)
    BY <2>1, OwnType, CatOwn DEF Worded
  <2> HIDE DEF left
  <2>6. Written' = <<>> /\ (ToPipe' => shown' = <<>>)
    BY <1>1, <2>2, <2>4 DEF Written, ToPipe, Supplied
  <2>7. FromTerminal' <=> ~pipe.writer \/ k = 1
    BY <1>1, <2>4 DEF FromTerminal
  <2>8. k # 1 => Length > 1
    BY <2>1
  <2>9. Unread' \in Seq(W) /\ left \o Unread' = Composed(Plan, k, taken)
    <3>1. CASE ~reads
      <4>1. Unread' = <<>> /\ Composed(Plan, k, taken) = left
        BY <2>1, <2>4, <3>1, ComposedStep DEF Unread, left
      <4> QED
        BY <2>5, <4>1, Nothing
    <3>2. CASE reads /\ k = 1
      <4>1. Unread' = <<>>
        BY <2>7, <3>2 DEF Unread
      <4>2. Composed(Plan, 1, taken) = Composed(Plan, 1 - 1, taken)
        BY <3>2, ComposedStep
      <4>3. Composed(Plan, 1, taken) = <<>>
        BY <2>2, <3>2, <4>2, ComposedNone DEF Supplied
      <4> QED
        BY <2>5, <3>2, <4>1, <4>3, Nothing
    <3>3. CASE reads /\ k # 1
      <4>1. Unread' = fd_in.data /\ k > 1
        BY <1>1, <2>1, <2>2, <2>4, <2>7, <2>8, <3>3 DEF Unread
      <4>2. Composed(Plan, k, taken) = Composed(Plan, k - 1, taken)
        BY <2>1, <3>3, ComposedStep
      <4> QED
        BY <2>2, <2>5, <3>3, <4>1, <4>2, Nothing DEF Supplied
    <3> QED
      BY <3>1, <3>2, <3>3
  <2>10. Running(W)'
    <3>1. <<>> \o left = left /\ <<>> \in Seq(W)
      BY <2>5, Nothing
    <3>2. Written' \o child'.left \o Unread' = Composed(Plan', k', taken')
      BY <1>1, <1>3, <2>4, <2>6, <2>9, <3>1
    <3> QED
      BY <1>1, <1>3, <2>2, <2>4, <2>5, <2>6, <2>9, <3>1, <3>2 DEF Running
  <2>11. k' \in 1 .. Length' + 1 /\ k' <= Length'
    BY <1>1, <1>3, <2>1
  <2> QED
    BY <1>1, <1>3, <1>4, <2>1, <2>2, <2>10, <2>11 DEF Flow
<1> QED
  BY <1>1, <1>2, <1>3, <1>4 DEF Flow

LEMMA WaitFlow ==
  ASSUME NEW W, NEW C, FlowInv(W, C), Wait
  PROVE  (Shapes(W, C) /\ Flow(W))'
<1> USE DEF given, split, stream
<1>1. /\ UNCHANGED <<typed, input, line, cmds, loose, shown, taken>>
      /\ pc = "wait" /\ child.state = "ended" /\ child' = NoChild /\ k' = k + 1
      /\ pc' = IF child.piped THEN "pipe" ELSE "read"
  BY DEF Wait
<1>2. Shapes(W, C)'
  BY <1>1 DEF FlowInv, Shapes
<1>3. Plan' = Plan /\ Length' = Length /\ (Undisturbed' <=> Undisturbed)
  BY <1>1, PlanKept
<1>4. ASSUME Undisturbed
      PROVE  Flow(W)'
  <2>1. /\ cmds = Plan /\ Length \in Nat \ {0} /\ taken \in Seq(W) /\ k \in 1 .. Length
        /\ Running(W) /\ (pipe.writer <=> Length > 1)
    <3>1. k <= Length /\ k \in 1 .. Length + 1 /\ Length \in Nat \ {0}
      BY <1>1, <1>4, PlanFacts DEF FlowInv, Flow
    <3> QED
      BY <1>1, <1>4, <3>1, PlanFacts DEF FlowInv, Flow
  <2>2. Written \in Seq(W) /\ Written = Composed(Plan, k, taken)
    <3>1. Written \in Seq(W) /\ Written \o <<>> \o <<>> = Composed(Plan, k, taken)
      BY <1>1, <2>1 DEF Running
    <3> QED
      BY <3>1, Nothing
  <2>3. (child.piped <=> Length > 1) /\ (child.last <=> k = Length) /\ (ToPipe => shown = <<>>)
    BY <2>1 DEF Running
  <2>4. CASE k = Length
    <3>1. shown = Composed(Plan, Length, taken)
      BY <2>2, <2>3, <2>4 DEF Written, ToPipe
    <3>2. k' = Length + 1 /\ k' \in 1 .. Length + 1 /\ ~(k' <= Length)
      BY <1>1, <2>1, <2>4
    <3>3. pc' = "pipe" => Length > 1
      BY <1>1, <2>3
    <3> QED
      BY <1>1, <1>3, <2>1, <3>1, <3>2, <3>3 DEF Flow
  <2>5. CASE k # Length
    <3>1. /\ k' \in 1 .. Length + 1 /\ k' <= Length /\ Length > 1
          /\ k' # 1 /\ k' - 1 = k /\ ~(k' > Length)
      BY <1>1, <2>1, <2>5
    <3>2. ToPipe /\ child.piped
      BY <2>3, <2>5, <3>1 DEF ToPipe
    <3>3. pc' = "pipe" /\ fd_in' = [pipe EXCEPT !.writer = FALSE]
      BY <1>1, <3>2 DEF Wait
    <3>4. fd_in'.data = pipe.data
      BY <3>3 DEF FlowInv, PipeInv, Formed
    <3>5. shown = <<>> /\ Written = pipe.data
      BY <2>3, <3>2 DEF Written
    <3>6. Supplied(W)'
      BY <1>1, <1>3, <2>2, <3>1, <3>4, <3>5 DEF Supplied
    <3> QED
      BY <1>1, <1>3, <2>1, <3>1, <3>3, <3>6 DEF Flow
  <2> QED
    BY <2>4, <2>5
<1> QED
  BY <1>2, <1>3, <1>4 DEF Flow

(* The steps of a command: what they share.                                *)
LEMMA CommandKeeps ==
  ASSUME NEW W, NEW C, Worded(W, C), FlowInv(W, C), ChildRead \/ ChildWrite \/ ChildExit
  PROVE  /\ UNCHANGED <<typed, line, cmds, k, loose, pc>> /\ pc = "wait"
         /\ child.state = "running" /\ Shapes(W, C)'
         /\ pipe'.writer = pipe.writer
         /\ child' = [state |-> child'.state, reads |-> child.reads, left |-> child'.left,
                      failed |-> child.failed, piped |-> child.piped, last |-> child.last]
<1> USE DEF given, split, stream, pipes, ghosts
<1>1. /\ UNCHANGED <<typed, line, cmds, k, loose, pc>> /\ child.state = "running"
  BY DEF ChildRead, ChildWrite, ChildExit
<1>2. pc = "wait"
  BY <1>1 DEF FlowInv, Shapes, NoChild
<1>3. input' = input \/ (input # <<>> /\ input' = Tail(input))
  BY DEF ChildRead, ChildWrite, ChildExit
<1>4. Shapes(W, C)'
  BY <1>1, <1>2, <1>3, OneTaken DEF FlowInv, Shapes
<1>5. /\ child = [state |-> "running", reads |-> child.reads, left |-> child.left,
                  failed |-> child.failed, piped |-> child.piped, last |-> child.last]
      /\ pipe = [data |-> pipe.data, writer |-> pipe.writer]
  BY <1>1 DEF FlowInv, PipeInv, Formed
<1>6. pipe'.writer = pipe.writer
  BY <1>5 DEF ChildRead, ChildWrite, ChildExit
<1>7. child' = [state |-> child'.state, reads |-> child.reads, left |-> child'.left,
                failed |-> child.failed, piped |-> child.piped, last |-> child.last]
  BY <1>5 DEF ChildRead, ChildWrite, ChildExit
<1> QED
  BY <1>1, <1>2, <1>4, <1>6, <1>7

LEMMA CommandFlow ==
  ASSUME NEW W, NEW C, Worded(W, C), FlowInv(W, C), ChildRead \/ ChildWrite \/ ChildExit
  PROVE  (Shapes(W, C) /\ Flow(W))'
<1> USE DEF given, split, stream, pipes, ghosts
<1>1. /\ UNCHANGED <<typed, line, cmds, k, loose, pc>> /\ pc = "wait"
      /\ child.state = "running" /\ Shapes(W, C)'
      /\ pipe'.writer = pipe.writer
      /\ child' = [state |-> child'.state, reads |-> child.reads, left |-> child'.left,
                   failed |-> child.failed, piped |-> child.piped, last |-> child.last]
  BY CommandKeeps
<1>2. Plan' = Plan /\ Length' = Length /\ (Undisturbed' <=> Undisturbed)
  BY <1>1, PlanKept
<1> SUFFICES ASSUME Undisturbed PROVE Flow(W)'
  BY <1>1, <1>2 DEF Flow
<1>3. /\ cmds = Plan /\ Length \in Nat \ {0} /\ taken \in Seq(W) /\ k \in 1 .. Length
      /\ Running(W) /\ (pipe.writer <=> Length > 1)
  <2>1. k <= Length /\ k \in 1 .. Length + 1 /\ Length \in Nat \ {0}
    BY <1>1, PlanFacts DEF FlowInv, Flow
  <2> QED
    BY <1>1, <2>1, PlanFacts DEF FlowInv, Flow
<1>4. /\ child.reads \in BOOLEAN /\ (child.reads <=> Head(Plan[k]) = Cat)
      /\ (child.piped <=> Length > 1) /\ child.last \in BOOLEAN /\ (child.last <=> k = Length)
      /\ Written \in Seq(W) /\ child.left \in Seq(W) /\ Unread \in Seq(W)
      /\ Written \o child.left \o Unread = Composed(Plan, k, taken)
      /\ ToPipe => shown = <<>>
  BY <1>3 DEF Running
<1>5. /\ child'.reads = child.reads /\ child'.piped = child.piped /\ child'.last = child.last
      /\ (ToPipe' <=> ToPipe) /\ (FromTerminal' <=> FromTerminal)
  BY <1>1 DEF ToPipe, FromTerminal
(* It is enough that the three parts stay together.                        *)
<1>6. ASSUME /\ child'.state \in {"running", "ended"} /\ taken' \in Seq(W)
             /\ Written' \in Seq(W) /\ child'.left \in Seq(W) /\ Unread' \in Seq(W)
             /\ Written' \o child'.left \o Unread' = Composed(Plan, k, taken')
             /\ child'.state = "ended" => child'.left = <<>> /\ Unread' = <<>>
             /\ ToPipe => shown' = <<>>
      PROVE  Flow(W)'
  <2>1. Running(W)'
    BY <1>1, <1>2, <1>4, <1>5, <1>6 DEF Running
  <2>2. k' \in 1 .. Length + 1 /\ k' <= Length
    BY <1>1, <1>3
  <2> QED
    BY <1>1, <1>2, <1>3, <1>6, <2>1, <2>2 DEF Flow
<1>7. CASE ChildRead
  <2>1. /\ child.reads /\ child.left = <<>> /\ UNCHANGED <<pipe, shown>> /\ child'.state = "running"
    <3>1. child' = [child EXCEPT !.left = child'.left]
      BY <1>7, <1>1 DEF ChildRead
    <3> QED
      BY <1>7, <1>1, <3>1 DEF ChildRead
  <2>2. Written' = Written /\ (ToPipe => shown' = <<>>)
    BY <1>4, <1>5, <2>1 DEF Written
  <2>3. CASE /\ FromTerminal /\ input # <<>> /\ child'.left = <<Head(input).text>>
             /\ taken' = Append(taken, Head(input).text)
    <3>1. Head(input).text \in W
      BY <2>3, OneTaken DEF FlowInv, Shapes, Worded
    <3>2. Unread = <<>> /\ Unread' = <<>>
      BY <1>5, <2>3 DEF Unread
    <3>3. k = 1 => Composed(Plan, k, taken) = taken /\ Composed(Plan, k, taken') = taken'
      BY <1>4, <2>1, ComposedStep, ComposedNone
    <3>4. k = 1
      <4>1. CASE ~child.piped
        BY <1>3, <1>4, <4>1
      <4> QED
        BY <2>3, <4>1 DEF FromTerminal
    <3>5. Written = taken
      BY <1>4, <2>1, <3>2, <3>3, <3>4, Nothing
    <3>6. taken' = taken \o <<Head(input).text>> /\ taken' \in Seq(W) /\ <<Head(input).text>> \in Seq(W)
      BY <1>3, <2>3, <3>1, AppendIsConcat
    <3>7. Written' \o child'.left \o Unread' = Composed(Plan, k, taken')
      BY <2>2, <2>3, <3>2, <3>3, <3>4, <3>5, <3>6, Nothing
    <3>8. <<>> \in Seq(W)
      OBVIOUS
    <3> QED
      BY <1>4, <1>6, <2>1, <2>2, <2>3, <3>2, <3>6, <3>7, <3>8
  <2>4. CASE /\ ~FromTerminal /\ fd_in.data # <<>> /\ child'.left = <<Head(fd_in.data)>>
             /\ fd_in' = [fd_in EXCEPT !.data = Tail(@)] /\ taken' = taken
    <3>1. Unread = fd_in.data
      BY <2>1, <2>4 DEF Unread
    <3>2. Unread' = Tail(fd_in.data)
      BY <1>5, <2>1, <2>4 DEF Unread
    <3>3. fd_in.data \in Seq(W) /\ Written \o <<>> \o fd_in.data = Composed(Plan, k, taken)
      BY <1>4, <2>1, <3>1
    <3>4. /\ child'.left \in Seq(W) /\ Unread' \in Seq(W)
          /\ Written \o child'.left \o Unread' = Composed(Plan, k, taken)
      <4> DEFINE data == fd_in.data
      <4>1. data # <<>> /\ data \in Seq(W) /\ Written \in Seq(W)
        BY <1>4, <2>4, <3>3
      <4>2. /\ <<Head(data)>> \in Seq(W) /\ Tail(data) \in Seq(W)
            /\ Written \o <<Head(data)>> \o Tail(data) = Written \o <<>> \o data
        <5> HIDE DEF data
        <5> QED
          BY <4>1, PassOne
      <4> QED
        BY <2>4, <3>2, <3>3, <4>2
    <3> QED
      BY <1>3, <1>4, <1>6, <2>1, <2>2, <2>4, <3>4
  <2>5. \/ FromTerminal /\ input # <<>> /\ child' = [child EXCEPT !.left = <<Head(input).text>>]
             /\ taken' = Append(taken, Head(input).text)
        \/ ~FromTerminal /\ fd_in.data # <<>> /\ child' = [child EXCEPT !.left = <<Head(fd_in.data)>>]
             /\ fd_in' = [fd_in EXCEPT !.data = Tail(@)] /\ taken' = taken
    BY <1>7 DEF ChildRead
  <2>6. \A v : child' = [child EXCEPT !.left = v] => child'.left = v
    BY <1>3 DEF Running
  <2> QED
    BY <2>3, <2>4, <2>5, <2>6
<1>8. CASE ChildWrite
  <2>1. /\ child.left # <<>> /\ child'.left = Tail(child.left) /\ child'.state = "running"
        /\ taken' = taken /\ fd_in' = fd_in
    BY <1>8, <1>1, <1>3 DEF ChildWrite, Running
  <2>2. Unread' = Unread
    BY <1>5, <2>1 DEF Unread
  <2>3. Written' = Append(Written, Head(child.left)) /\ (ToPipe => shown' = <<>>)
    <3>1. CASE ToPipe
      <4>1. pipe' = [pipe EXCEPT !.data = Append(@, Head(child.left))] /\ shown' = shown
        BY <1>8, <3>1 DEF ChildWrite
      <4>2. pipe'.data = Append(pipe.data, Head(child.left))
        BY <4>1 DEF FlowInv, PipeInv, Formed
      <4> QED
        BY <1>4, <1>5, <3>1, <4>1, <4>2 DEF Written
    <3>2. CASE ~ToPipe
      BY <1>5, <1>8, <3>2 DEF ChildWrite, Written
    <3> QED
      BY <3>1, <3>2
  <2>4. /\ child'.left \in Seq(W) /\ Written' \in Seq(W)
        /\ Written' \o child'.left \o Unread = Written \o child.left \o Unread
    <3> DEFINE left == child.left
    <3>1. left # <<>> /\ left \in Seq(W) /\ Written \in Seq(W) /\ Unread \in Seq(W)
      BY <1>4, <2>1
    <3>2. /\ Tail(left) \in Seq(W) /\ Append(Written, Head(left)) \in Seq(W)
          /\ Append(Written, Head(left)) \o Tail(left) \o Unread = Written \o left \o Unread
      <4> HIDE DEF left
      <4> QED
        BY <3>1, MoveOne
    <3> QED
      BY <2>1, <2>3, <3>2
  <2> QED
    BY <1>3, <1>4, <1>6, <2>1, <2>2, <2>3, <2>4
<1>9. CASE ChildExit
  <2>1. /\ child.left = <<>> /\ child'.left = <<>> /\ child'.state = "ended"
        /\ UNCHANGED <<taken, fd_in, pipe, shown>> /\ (child.reads => AtEof)
    BY <1>9, <1>1, <1>3 DEF ChildExit, Running
  <2>2. Written' = Written /\ Unread' = Unread
    BY <1>5, <2>1 DEF Written, Unread
  <2>3. Unread = <<>>
    BY <2>1 DEF Unread, AtEof
  <2> QED
    BY <1>3, <1>4, <1>6, <2>1, <2>2, <2>3
<1> QED
  BY <1>7, <1>8, <1>9

(* For a line with bars set off by blanks the terminal shows what its      *)
(* pipeline means, no word lost, cut short or left over, in whatever order *)
(* the processes run and however many words a pipe holds; for all lines,   *)
(* commands and inputs for which the line is split as it was meant.        *)
THEOREM OutputAsTypedHolds ==
  ASSUME NEW W, NEW C, Worded(W, C), SplitAsMeant
  PROVE  Spec => []OutputAsTyped
<1>1. Init => FlowInv(W, C)
  <2> SUFFICES ASSUME Init PROVE FlowInv(W, C)
    OBVIOUS
  <2>1. PipeInv
    BY PipeInit
  <2>2. /\ typed \in Inputs /\ input \in {<<>>, typed} /\ cmds = <<>> /\ k = 1
        /\ pc = "read" /\ child = NoChild /\ line = [text |-> <<>>, newline |-> TRUE]
    BY DEF Init
  <2>3. Shapes(W, C)
    <3>1. input \in Seq(Typed(C))
      <4>1. typed \in Seq(Typed(C))
        BY <2>2 DEF Worded
      <4>2. <<>> \in Seq(Typed(C))
        OBVIOUS
      <4> QED
        BY <2>2, <4>1, <4>2
    <3>2. cmds \in Seq(Seq(W))
      BY <2>2
    <3> QED
      BY <2>2, <3>1, <3>2 DEF Shapes
  <2>4. ~Undisturbed
    BY <2>2, ShellAssumption DEF Undisturbed
  <2> QED
    BY <2>1, <2>3, <2>4 DEF FlowInv, Flow
<1>2. FlowInv(W, C) /\ [Next]_vars => FlowInv(W, C)'
  <2> SUFFICES ASSUME FlowInv(W, C), [Next]_vars
               PROVE  FlowInv(W, C)'
    OBVIOUS
  <2>1. PipeInv'
    BY PipeStep DEF FlowInv
  <2>2. CASE UNCHANGED vars
    <3> USE DEF vars, given, split, stream, pipes, ghosts
    <3>1. Shapes(W, C)'
      BY <2>2 DEF FlowInv, Shapes
    <3>2. Plan' = Plan /\ Length' = Length /\ (Undisturbed' <=> Undisturbed)
      BY <2>2, PlanKept
    <3>3. (ToPipe' <=> ToPipe) /\ (FromTerminal' <=> FromTerminal)
      BY <2>2 DEF ToPipe, FromTerminal
    <3>4. Written' = Written /\ Unread' = Unread
      BY <2>2, <3>3 DEF Written, Unread
    <3>5. (Running(W)' <=> Running(W)) /\ (Supplied(W)' <=> Supplied(W))
      BY <2>2, <3>2, <3>3, <3>4 DEF Running, Supplied
    <3> QED
      BY <2>1, <2>2, <3>1, <3>2, <3>5 DEF FlowInv, Flow
  <2>3. CASE ReadLine \/ ReadEof \/ MakePipe \/ PipelineDone
    BY <2>1, <2>3, LineFlow, EofFlow, MakeFlow, DoneFlow DEF FlowInv
  <2>4. CASE Fork \/ Wait
    BY <2>1, <2>4, ForkFlow, WaitFlow DEF FlowInv
  <2>5. CASE ChildRead \/ ChildWrite \/ ChildExit
    BY <2>1, <2>5, CommandFlow DEF FlowInv
  <2> QED
    BY <2>2, <2>3, <2>4, <2>5 DEF Next, Shell, Command, Ended
<1>3. FlowInv(W, C) => OutputAsTyped
  BY DEF FlowInv, Flow, Undisturbed, Plan, Length, OutputAsTyped
<1> QED
  BY <1>1, <1>2, <1>3, PTL DEF Spec

=============================================================================
