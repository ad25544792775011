------------------------- MODULE MasterWorkerProofs -------------------------
(***************************************************************************)
(* Theorems about MasterWorker, for every number of items, buffer slots,   *)
(* masters and workers.                                                    *)
(***************************************************************************)
EXTENDS MasterWorker, FiniteSetTheorems, TLAPS

(* No worker ever pops more than was pushed: what keeps item_to_consume    *)
(* from going below zero.                                                  *)
Heights ==
  /\ curr_buf_size <= item_to_produce
  /\ TotalItems - item_to_consume <= item_to_produce - curr_buf_size

TypeInv == TypeOK /\ Heights

LEMMA ThreadNumbers ==
  /\ NumThreads \in Nat
  /\ Masters \subseteq Threads
  /\ Workers \subseteq Threads
  /\ Masters \cap Workers = {}
  /\ Masters \cup Workers = Threads
  /\ NoThread \notin Threads
BY ArgumentAssumption DEF NumThreads, Masters, Workers, Threads, NoThread

LEMMA TypeInit == Init => TypeInv
BY ArgumentAssumption, ThreadNumbers
   DEF Init, TypeInv, TypeOK, Heights, Slots, Items, Consumed

LEMMA WokenType ==
  ASSUME TypeOK, NEW T
  PROVE  Woken(T) \in [Threads -> {"lock", "top", "wait", "woken", "resumed",
                                   "unlock", "broadcast", "done"}]
BY DEF TypeOK, Woken

LEMMA TypeStep == TypeInv /\ [Next]_vars => TypeInv'
<1> SUFFICES ASSUME TypeInv, [Next]_vars
             PROVE  TypeInv'
  OBVIOUS
<1> USE ArgumentAssumption, ThreadNumbers DEF TypeInv, shared, printed, main
<1>1. ASSUME NEW t \in Threads, Synchronise(t)
      PROVE  TypeInv'
  BY <1>1 DEF TypeOK, Heights, Synchronise, Lock, Unlock, Resume, Goto
<1>2. ASSUME NEW t \in Threads, SpuriousWakeup(t)
      PROVE  TypeInv'
  BY <1>2 DEF TypeOK, Heights, SpuriousWakeup, Goto
<1>3. ASSUME NEW m \in Masters, Master(m)
      PROVE  TypeInv'
  <2>1. CASE MasterTerminate(m)
    BY <2>1 DEF TypeOK, Heights, MasterTerminate, Goto
  <2>2. CASE MasterBroadcast(m)
    BY <2>2, WokenType DEF TypeOK, Heights, MasterBroadcast
  <2>3. CASE MasterWait(m)
    BY <2>3, WokenType DEF TypeOK, Heights, MasterWait
  <2>4. CASE MasterProduce(m)
    <3>1. CASE curr_buf_size < 0
      BY <3>1 DEF TypeOK
    <3>2. CASE ~(curr_buf_size < 0)
      <4>1. item_to_produce \in Items /\ curr_buf_size \in Slots
        BY <2>4 DEF TypeOK, Heights, MasterProduce, MayProduce, Items, Slots
      <4>2. \E v \in Items \cup {Consumed} :
              buffer' = [buffer EXCEPT ![curr_buf_size] = v]
        BY <2>4, <3>2, <4>1 DEF MasterProduce, Produce, Stored
      <4>3. buffer' \in [Slots -> Items \cup {Consumed}]
        BY <4>2 DEF TypeOK
      <4>4. /\ curr_buf_size' = curr_buf_size + 1
            /\ item_to_produce' = item_to_produce + 1
            /\ prod' = [prod EXCEPT ![item_to_produce] = @ + 1]
        BY <2>4, <3>2 DEF MasterProduce, Produce
      <4>5. prod' \in [Items -> Nat]
        BY <4>4, <4>1 DEF TypeOK
      <4>6. pc' = [pc EXCEPT ![m] = "unlock"]
        BY <2>4 DEF MasterProduce, Goto
      <4>7. UNCHANGED <<item_to_consume, mutex, main, spurious, cons>>
        BY <2>4 DEF MasterProduce
      <4>8. item_to_produce < TotalItems
        BY <4>1 DEF Items, TypeOK
      <4> QED
        BY <4>3, <4>4, <4>5, <4>6, <4>7, <4>8 DEF TypeOK, Heights
    <3> QED BY <3>1, <3>2
  <2> QED BY <1>3, <2>1, <2>2, <2>3, <2>4 DEF Master
<1>4. ASSUME NEW w \in Workers, Worker(w)
      PROVE  TypeInv'
  <2>1. CASE WorkerTerminate(w)
    BY <2>1 DEF TypeOK, Heights, WorkerTerminate, Goto
  <2>2. CASE WorkerWait(w)
    BY <2>2, WokenType DEF TypeOK, Heights, WorkerWait
  <2>3. CASE WorkerConsume(w)
    <3>1. /\ pc' = [pc EXCEPT ![w] = "unlock"]
          /\ UNCHANGED <<item_to_produce, mutex, main, spurious, prod>>
      BY <2>3 DEF WorkerConsume, Goto
    <3>2. CASE curr_buf_size <= 0
      BY <2>3, <3>1, <3>2 DEF TypeOK, Heights, WorkerConsume, Consume
    <3>3. CASE curr_buf_size > 0 /\ buffer[curr_buf_size - 1] = Consumed
      BY <2>3, <3>1, <3>3 DEF TypeOK, Heights, WorkerConsume, Consume
    <3>4. CASE curr_buf_size > 0 /\ buffer[curr_buf_size - 1] # Consumed
      <4>1. /\ curr_buf_size - 1 \in Slots
            /\ buffer[curr_buf_size - 1] \in Items
        BY <3>4 DEF TypeOK, Slots
      <4>2. /\ curr_buf_size' = curr_buf_size - 1
            /\ item_to_consume' = item_to_consume - 1
            /\ buffer' = [buffer EXCEPT ![curr_buf_size - 1] = Consumed]
            /\ cons' = [cons EXCEPT ![buffer[curr_buf_size - 1]] = @ + 1]
        BY <2>3, <3>4 DEF TypeOK, WorkerConsume, Consume
      <4>3. item_to_consume >= 1
        BY <3>4 DEF TypeOK, Heights
      <4>4. buffer' \in [Slots -> Items \cup {Consumed}] /\ cons' \in [Items -> Nat]
        BY <4>1, <4>2 DEF TypeOK
      <4> QED
        BY <3>1, <3>4, <4>2, <4>3, <4>4 DEF TypeOK, Heights
    <3> QED BY <3>2, <3>3, <3>4 DEF TypeOK
  <2> QED BY <1>4, <2>1, <2>2, <2>3 DEF Worker
<1>5. CASE Main
  BY <1>5 DEF TypeOK, Heights, Main, CreateThread, JoinThread
<1>6. CASE UNCHANGED vars
  BY <1>6 DEF TypeOK, Heights, vars
<1> QED
  BY <1>1, <1>2, <1>3, <1>4, <1>5, <1>6 DEF Next, Terminated

(* The variables keep their types in every run: in particular the counters *)
(* never leave 0 .. TotalItems, whatever the threads do.                   *)
THEOREM TypeCorrect == Spec => []TypeOK
<1>1. Spec => []TypeInv
  BY TypeInit, TypeStep, PTL DEF Spec
<1> QED
  BY <1>1, PTL DEF TypeInv

-----------------------------------------------------------------------------
(* MutualExclusion and NeverBothWaiting hold for every configuration: the  *)
(* first depends on the order of lock, wait and unlock only, the second on *)
(* each side's broadcast before it waits.                                  *)
LockInv == MutualExclusion /\ NeverBothWaiting

LEMMA LockInit == Init => LockInv
BY ThreadNumbers DEF Init, LockInv, MutualExclusion, NeverBothWaiting, Waiting

LEMMA MutualExclusionStep ==
  TypeOK /\ MutualExclusion /\ [Next]_vars => MutualExclusion'
<1> SUFFICES ASSUME TypeOK, MutualExclusion, [Next]_vars
             PROVE  MutualExclusion'
  OBVIOUS
<1> USE ThreadNumbers DEF TypeOK, MutualExclusion
<1>1. ASSUME NEW t \in Threads, Synchronise(t)
      PROVE  MutualExclusion'
  BY <1>1 DEF Synchronise, Lock, Unlock, Resume, Goto
<1>2. ASSUME NEW t \in Threads, SpuriousWakeup(t)
      PROVE  MutualExclusion'
  BY <1>2 DEF SpuriousWakeup, Goto
<1>3. ASSUME NEW m \in Masters, Master(m)
      PROVE  MutualExclusion'
  BY <1>3 DEF Master, MasterTerminate, MasterBroadcast, MasterWait,
              MasterProduce, MayProduce, Goto, Woken
<1>4. ASSUME NEW w \in Workers, Worker(w)
      PROVE  MutualExclusion'
  BY <1>4 DEF Worker, WorkerTerminate, WorkerWait, WorkerConsume, Goto, Woken
<1>5. CASE Main
  BY <1>5 DEF Main, CreateThread, JoinThread
<1>6. CASE UNCHANGED vars
  BY <1>6 DEF vars
<1> QED
  BY <1>1, <1>2, <1>3, <1>4, <1>5, <1>6 DEF Next, Terminated

LEMMA NeverBothWaitingStep ==
  TypeOK /\ NeverBothWaiting /\ [Next]_vars => NeverBothWaiting'
<1> SUFFICES ASSUME TypeOK, NeverBothWaiting, [Next]_vars
             PROVE  NeverBothWaiting'
  OBVIOUS
<1> USE ThreadNumbers DEF TypeOK, NeverBothWaiting, Waiting
<1>1. ASSUME NEW t \in Threads, Synchronise(t)
      PROVE  NeverBothWaiting'
  BY <1>1 DEF Synchronise, Lock, Unlock, Resume, Goto
<1>2. ASSUME NEW t \in Threads, SpuriousWakeup(t)
      PROVE  NeverBothWaiting'
  BY <1>2 DEF SpuriousWakeup, Goto
<1>3. ASSUME NEW m \in Masters, Master(m)
      PROVE  NeverBothWaiting'
  BY <1>3 DEF Master, MasterTerminate, MasterBroadcast, MasterWait,
              MasterProduce, Goto, Woken
<1>4. ASSUME NEW w \in Workers, Worker(w)
      PROVE  NeverBothWaiting'
  BY <1>4 DEF Worker, WorkerTerminate, WorkerWait, WorkerConsume, Goto, Woken
<1>5. CASE Main
  BY <1>5 DEF Main, CreateThread, JoinThread
<1>6. CASE UNCHANGED vars
  BY <1>6 DEF vars
<1> QED
  BY <1>1, <1>2, <1>3, <1>4, <1>5, <1>6 DEF Next, Terminated

LEMMA LockInvariant == Spec => [](TypeInv /\ LockInv)
<1>1. Init => TypeInv /\ LockInv
  BY TypeInit, LockInit
<1>2. TypeInv /\ LockInv /\ [Next]_vars => TypeInv' /\ LockInv'
  BY TypeStep, MutualExclusionStep, NeverBothWaitingStep DEF TypeInv, LockInv
<1> QED
  BY <1>1, <1>2, PTL DEF Spec

(* At most one thread is between pthread_mutex_lock and the unlock or wait *)
(* that ends it, and it is the one that holds the mutex.                   *)
THEOREM MutualExclusionHolds == Spec => []MutualExclusion
BY LockInvariant, PTL DEF LockInv

(* The two sides never wait for each other, with any number of masters and *)
(* workers and any number of spurious wakeups.                             *)
THEOREM NeverBothWaitingHolds == Spec => []NeverBothWaiting
BY LockInvariant, PTL DEF LockInv

-----------------------------------------------------------------------------
(* What depends on the configuration.  A master that comes back from       *)
(* pthread_cond_wait may find the buffer refilled by another and store     *)
(* behind its end; what follows is proved for the configurations in which  *)
(* this cannot happen (Refillable): waits return only after a broadcast    *)
(* and there is one master, or there are at most twice as many items as    *)
(* slots; or the buffer has room for all items.                            *)

(* Every item produced is still stacked or has been consumed.              *)
Accounting ==
  item_to_produce - curr_buf_size = TotalItems - item_to_consume

(* The items are printed in order, each once.                              *)
InOrder ==
  \A i \in Items : prod[i] = IF i < item_to_produce THEN 1 ELSE 0

(* A master that was woken finds room (or nothing to do): the only one     *)
(* does, as nobody else fills the buffer; of several, because they waited  *)
(* for a full buffer and were woken when it was empty, so at least         *)
(* MaxBufSize items have been consumed.  No master waits for a buffer that *)
(* never fills.                                                            *)
Room ==
  \A m \in Masters :
    /\ NumMasters = 1 /\ pc[m] \in {"woken", "resumed"} =>
         curr_buf_size < MaxBufSize \/ item_to_produce >= TotalItems
    /\ pc[m] = "wait" => item_to_produce >= MaxBufSize
    /\ pc[m] \in {"woken", "resumed"} => TotalItems - item_to_consume >= MaxBufSize
    /\ TotalItems <= MaxBufSize => pc[m] \notin {"wait", "woken", "resumed"}

DataInv == Accounting /\ InOrder /\ NothingLost /\ InBuffer /\ Room

LEMMA DataInit == Init => DataInv
BY ArgumentAssumption, ThreadNumbers
   DEF Init, DataInv, Accounting, InOrder, NothingLost, InBuffer, Room,
       Outstanding, Items

(* A step that leaves the stack and the output alone preserves what is     *)
(* said about them.                                                        *)
LEMMA DataUnchanged ==
  ASSUME DataInv, UNCHANGED <<shared, printed>>
  PROVE  (Accounting /\ InOrder /\ NothingLost /\ InBuffer)'
BY DEF DataInv, Accounting, InOrder, NothingLost, InBuffer, Outstanding,
       shared, printed

(* The slot a master stores to is one of the buffer.                       *)
LEMMA MasterMayStore ==
  ASSUME Refillable, TypeInv, DataInv, NEW m \in Masters, MayProduce(m)
  PROVE  curr_buf_size < MaxBufSize
<1> USE ArgumentAssumption
<1>1. CASE pc[m] = "top"
  BY <1>1 DEF MayProduce, TypeInv, TypeOK, DataInv, InBuffer
<1>2. CASE pc[m] = "resumed"
  <2>1. CASE NumMasters = 1
    BY <1>2, <2>1 DEF MayProduce, TypeInv, TypeOK, DataInv, Room
  <2>2. CASE TotalItems <= 2 * MaxBufSize
    <3>1. item_to_produce < TotalItems /\ TotalItems - item_to_consume >= MaxBufSize
      BY <1>2 DEF MayProduce, DataInv, Room
    <3>2. curr_buf_size = item_to_produce - (TotalItems - item_to_consume)
      BY DEF DataInv, Accounting, TypeInv, TypeOK
    <3> QED
      BY <2>2, <3>1, <3>2 DEF TypeInv, TypeOK
  <2>3. CASE TotalItems <= MaxBufSize
    BY <1>2, <2>3 DEF DataInv, Room
  <2> QED BY <2>1, <2>2, <2>3 DEF Refillable
<1> QED BY <1>1, <1>2 DEF MayProduce

(* The store and its print: the new item goes on top of the stack.         *)
LEMMA ProduceStep ==
  ASSUME Refillable, TypeInv, DataInv, NEW m \in Masters, MasterProduce(m)
  PROVE  (Accounting /\ InOrder /\ NothingLost /\ InBuffer)'
<1> USE ArgumentAssumption
<1>1. /\ curr_buf_size < MaxBufSize
      /\ curr_buf_size \in Slots
      /\ item_to_produce \in Items
  <2>1. item_to_produce \in Items /\ curr_buf_size \in Slots
    BY DEF TypeInv, TypeOK, Heights, MasterProduce, MayProduce, Slots, Items
  <2>2. curr_buf_size < MaxBufSize
    BY MasterMayStore DEF MasterProduce
  <2> QED BY <2>1, <2>2
<1>2. /\ buffer' = [buffer EXCEPT ![curr_buf_size] = item_to_produce]
      /\ curr_buf_size' = curr_buf_size + 1
      /\ item_to_produce' = item_to_produce + 1
      /\ prod' = [prod EXCEPT ![item_to_produce] = @ + 1]
      /\ cons' = cons
      /\ item_to_consume' = item_to_consume
  BY <1>1 DEF TypeInv, TypeOK, MasterProduce, Produce, Stored, InBlock
<1>3. \A i \in Items : prod'[i] = IF i = item_to_produce THEN 1 ELSE prod[i]
  BY <1>1, <1>2 DEF TypeInv, TypeOK, DataInv, InOrder, Items
<1>4. Accounting' /\ InOrder' /\ InBuffer'
  BY <1>1, <1>2, <1>3 DEF TypeInv, TypeOK, DataInv, Accounting, InOrder, InBuffer, Items
<1>5. prod[item_to_produce] = 0 /\ cons[item_to_produce] = 0
  BY <1>1 DEF TypeInv, TypeOK, DataInv, InOrder, NothingLost
<1>6. item_to_produce \notin Outstanding
  BY <1>5 DEF DataInv, NothingLost
<1>7. \A s \in 0 .. curr_buf_size' - 1 :
        buffer'[s] = IF s = curr_buf_size THEN item_to_produce ELSE buffer[s]
  BY <1>1, <1>2 DEF TypeInv, TypeOK, Slots
<1>8. Outstanding' = Outstanding \cup {item_to_produce}
  BY <1>1, <1>2, <1>7 DEF TypeInv, TypeOK, Outstanding
<1>9. (Outstanding = {i \in Items : prod[i] = 1 /\ cons[i] = 0})'
  BY <1>1, <1>2, <1>3, <1>5, <1>8 DEF DataInv, NothingLost, Items
<1>10. (\A s1, s2 \in 0 .. curr_buf_size - 1 : buffer[s1] = buffer[s2] => s1 = s2)'
  <2>1. \A s \in 0 .. curr_buf_size - 1 : buffer[s] # item_to_produce
    BY <1>6 DEF Outstanding
  <2>2. \A s1, s2 \in 0 .. curr_buf_size - 1 : buffer[s1] = buffer[s2] => s1 = s2
    BY DEF DataInv, NothingLost
  <2> QED
    BY <1>1, <1>2, <1>7, <2>1, <2>2 DEF TypeInv, TypeOK
<1>11. (\A i \in Items : cons[i] <= prod[i] /\ prod[i] <= 1)'
  BY <1>2, <1>3, <1>5 DEF TypeInv, TypeOK, DataInv, NothingLost, Items
<1> QED
  BY <1>4, <1>9, <1>10, <1>11 DEF NothingLost

(* The pop and its print: the item on top leaves the stack.                *)
LEMMA ConsumeStep ==
  ASSUME TypeInv, DataInv, NEW w \in Workers, WorkerConsume(w)
  PROVE  (Accounting /\ InOrder /\ NothingLost /\ InBuffer)'
<1> USE ArgumentAssumption
<1> DEFINE top == curr_buf_size - 1
<1>1. CASE curr_buf_size <= 0
  <2>1. UNCHANGED <<shared, printed>>
    BY <1>1 DEF TypeInv, TypeOK, WorkerConsume, Consume, shared, printed
  <2> QED BY <2>1, DataUnchanged
<1>2. CASE curr_buf_size > 0
  <2>1. top \in 0 .. curr_buf_size - 1 /\ top \in Slots
    BY <1>2 DEF TypeInv, TypeOK, Slots
  <2>2. buffer[top] \in Outstanding
    BY <2>1 DEF Outstanding
  <2>3. buffer[top] \in Items /\ prod[buffer[top]] = 1 /\ cons[buffer[top]] = 0
    BY <2>2 DEF DataInv, NothingLost
  <2>4. buffer[top] # Consumed
    BY <2>3 DEF Items, Consumed
  <2>5. /\ buffer' = [buffer EXCEPT ![top] = Consumed]
        /\ curr_buf_size' = top
        /\ item_to_consume' = item_to_consume - 1
        /\ cons' = [cons EXCEPT ![buffer[top]] = @ + 1]
        /\ prod' = prod
        /\ item_to_produce' = item_to_produce
    BY <1>2, <2>4 DEF TypeInv, TypeOK, WorkerConsume, Consume
  <2>6. \A i \in Items : cons'[i] = IF i = buffer[top] THEN 1 ELSE cons[i]
    BY <2>3, <2>5 DEF TypeInv, TypeOK
  <2>7. \A s \in 0 .. curr_buf_size' - 1 :
          buffer'[s] = buffer[s] /\ s \in 0 .. curr_buf_size - 1 /\ s # top
    BY <2>1, <2>5 DEF TypeInv, TypeOK, Slots
  <2>8. \A s1, s2 \in 0 .. curr_buf_size - 1 : buffer[s1] = buffer[s2] => s1 = s2
    BY DEF DataInv, NothingLost
  <2>9. Outstanding' = Outstanding \ {buffer[top]}
    <3>1. \A s \in 0 .. curr_buf_size' - 1 : buffer'[s] # buffer[top]
      BY <2>1, <2>7, <2>8
    <3>2. \A s \in 0 .. curr_buf_size - 1 : s = top \/ s \in 0 .. curr_buf_size' - 1
      BY <2>5 DEF TypeInv, TypeOK
    <3> QED BY <3>1, <3>2, <2>7 DEF Outstanding
  <2>10. (Outstanding = {i \in Items : prod[i] = 1 /\ cons[i] = 0})'
    BY <2>5, <2>6, <2>9 DEF DataInv, NothingLost, Items
  <2>11. (\A s1, s2 \in 0 .. curr_buf_size - 1 : buffer[s1] = buffer[s2] => s1 = s2)'
    BY <2>7, <2>8
  <2>12. (\A i \in Items : cons[i] <= prod[i] /\ prod[i] <= 1)'
    BY <2>3, <2>5, <2>6 DEF TypeInv, TypeOK, DataInv, NothingLost, Items
  <2>13. Accounting' /\ InOrder' /\ InBuffer'
    BY <2>5 DEF TypeInv, TypeOK, DataInv, Accounting, InOrder, InBuffer, Items
  <2> QED
    BY <2>10, <2>11, <2>12, <2>13 DEF NothingLost
<1> QED
  BY <1>1, <1>2 DEF TypeInv, TypeOK

(* The fewer items are left to consume, the more have been consumed.       *)
LEMMA MoreConsumed ==
  ASSUME NEW all \in Int, NEW left \in Int, NEW less \in Int, NEW n \in Int,
         less <= left, all - left >= n
  PROVE  all - less >= n
OBVIOUS

LEMMA DataStep ==
  ASSUME Refillable
  PROVE  TypeInv /\ DataInv /\ [Next]_vars => DataInv'
<1> SUFFICES ASSUME TypeInv, DataInv, [Next]_vars
             PROVE  DataInv'
  OBVIOUS
<1> USE ArgumentAssumption, ThreadNumbers
<1>1. ASSUME NEW t \in Threads, Synchronise(t)
      PROVE  DataInv'
  <2>1. UNCHANGED <<shared, printed>>
    BY <1>1 DEF Synchronise, Lock, Unlock, Resume
  <2>2. Room'
    BY <1>1 DEF TypeInv, TypeOK, DataInv, Room, Synchronise, Lock, Unlock,
                Resume, Goto, shared
  <2> QED BY <2>1, <2>2, DataUnchanged DEF DataInv
<1>2. ASSUME NEW t \in Threads, SpuriousWakeup(t)
      PROVE  DataInv'
  <2>1. UNCHANGED <<shared, printed>>
    BY <1>2 DEF SpuriousWakeup
  <2>2. TotalItems <= MaxBufSize
    BY <1>2 DEF Refillable, SpuriousWakeup, TypeInv, TypeOK
  <2>3. Room'
    BY <1>2, <2>2 DEF TypeInv, TypeOK, DataInv, Room, SpuriousWakeup, Goto
  <2> QED BY <2>1, <2>3, DataUnchanged DEF DataInv
<1>3. ASSUME NEW m \in Masters, Master(m)
      PROVE  DataInv'
  <2>1. CASE MasterTerminate(m)
    <3>1. UNCHANGED <<shared, printed>>
      BY <2>1 DEF MasterTerminate
    <3>2. Room'
      BY <2>1 DEF TypeInv, TypeOK, DataInv, Room, MasterTerminate, Goto, shared
    <3> QED BY <3>1, <3>2, DataUnchanged DEF DataInv
  <2>2. CASE MasterBroadcast(m)
    <3>1. UNCHANGED <<shared, printed>>
      BY <2>2 DEF MasterBroadcast
    <3>2. Room'
      BY <2>2 DEF TypeInv, TypeOK, DataInv, Room, MasterBroadcast, Woken, shared
    <3> QED BY <3>1, <3>2, DataUnchanged DEF DataInv
  <2>3. CASE MasterWait(m)
    <3>1. UNCHANGED <<shared, printed>>
      BY <2>3 DEF MasterWait
    <3>2. ~(TotalItems <= MaxBufSize) /\ item_to_produce >= MaxBufSize
      BY <2>3 DEF MasterWait, TypeInv, TypeOK, Heights
    <3>3. Room'
      BY <2>3, <3>2 DEF TypeInv, TypeOK, DataInv, Room, MasterWait, Woken, shared
    <3> QED BY <3>1, <3>3, DataUnchanged DEF DataInv
  <2>4. CASE MasterProduce(m)
    <3>1. pc' = [pc EXCEPT ![m] = "unlock"]
      BY <2>4 DEF MasterProduce, Goto
    <3>2. /\ item_to_produce' >= item_to_produce /\ item_to_produce' \in Int
          /\ item_to_consume' = item_to_consume
      BY <2>4 DEF MasterProduce, Produce, TypeInv, TypeOK
    <3>3. NumMasters = 1 => \A n \in Masters : pc'[n] = "unlock"
      BY <3>1 DEF Masters, TypeInv, TypeOK
    <3>4. Room'
      BY <3>1, <3>2, <3>3 DEF TypeInv, TypeOK, DataInv, Room
    <3> QED BY <2>4, <3>4, ProduceStep DEF DataInv
  <2> QED BY <1>3, <2>1, <2>2, <2>3, <2>4 DEF Master
<1>4. ASSUME NEW w \in Workers, Worker(w)
      PROVE  DataInv'
  <2>1. CASE WorkerTerminate(w)
    <3>1. UNCHANGED <<shared, printed>>
      BY <2>1 DEF WorkerTerminate
    <3>2. Room'
      BY <2>1 DEF TypeInv, TypeOK, DataInv, Room, WorkerTerminate, Goto, shared
    <3> QED BY <3>1, <3>2, DataUnchanged DEF DataInv
  <2>2. CASE WorkerWait(w)
    <3>1. UNCHANGED <<shared, printed>>
      BY <2>2 DEF WorkerWait
    <3>2. /\ curr_buf_size < MaxBufSize
          /\ TotalItems - item_to_consume = item_to_produce
      BY <2>2 DEF WorkerWait, TypeInv, TypeOK, DataInv, Accounting
    <3>3. Room'
      BY <2>2, <3>2 DEF TypeInv, TypeOK, DataInv, Room, WorkerWait, Woken, shared
    <3> QED BY <3>1, <3>3, DataUnchanged DEF DataInv
  <2>3. CASE WorkerConsume(w)
    <3>1. pc' = [pc EXCEPT ![w] = "unlock"] /\ item_to_produce' = item_to_produce
      BY <2>3 DEF WorkerConsume, Goto
    <3>2. /\ curr_buf_size' <= curr_buf_size /\ curr_buf_size' \in Int
          /\ item_to_consume' <= item_to_consume /\ item_to_consume' \in Int
      BY <2>3 DEF WorkerConsume, Consume, TypeInv, TypeOK
    <3>3. \A m \in Masters : pc'[m] = "unlock" \/ pc'[m] = pc[m]
      BY <3>1 DEF TypeInv, TypeOK
    <3>4. /\ TotalItems \in Int /\ item_to_consume \in Int /\ curr_buf_size \in Int
          /\ MaxBufSize \in Int
      BY DEF TypeInv, TypeOK
    <3>5. Room'
      <4> SUFFICES ASSUME NEW m \in Masters, pc'[m] # "unlock"
                   PROVE  Room!(m)'
        BY DEF Room
      <4>1. Room!(m) /\ pc'[m] = pc[m]
        BY <3>3 DEF DataInv, Room
      <4>2. pc'[m] \in {"woken", "resumed"} => TotalItems - item_to_consume' >= MaxBufSize
        <5>1. ASSUME TotalItems - item_to_consume >= MaxBufSize
              PROVE  TotalItems - item_to_consume' >= MaxBufSize
          BY <3>2, <3>4, <5>1, MoreConsumed
        <5> QED BY <4>1, <5>1
      <4>3. curr_buf_size < MaxBufSize => curr_buf_size' < MaxBufSize
        BY <3>2, <3>4
      <4> QED BY <3>1, <4>1, <4>2, <4>3
    <3> QED BY <2>3, <3>5, ConsumeStep DEF DataInv
  <2> QED BY <1>4, <2>1, <2>2, <2>3 DEF Worker
<1>5. CASE Main
  <2>1. UNCHANGED <<shared, printed, pc>>
    BY <1>5 DEF Main, CreateThread, JoinThread
  <2> QED BY <2>1, DataUnchanged DEF DataInv, Room, shared
<1>6. CASE UNCHANGED vars
  <2>1. UNCHANGED <<shared, printed, pc>>
    BY <1>6 DEF vars
  <2> QED BY <2>1, DataUnchanged DEF DataInv, Room, shared
<1> QED
  BY <1>1, <1>2, <1>3, <1>4, <1>5, <1>6 DEF Next, Terminated

-----------------------------------------------------------------------------
(* How the threads come to an end.                                         *)

(* A master leaves only when there is nothing left to produce; the last to *)
(* leave has woken every worker.                                           *)
MastersLeave ==
  /\ \A m \in Masters : pc[m] \in {"broadcast", "done"} => item_to_produce >= TotalItems
  /\ (\A m \in Masters : pc[m] = "done") => ~Waiting(Workers)

WorkersLeave == \A w \in Workers : pc[w] = "done" => item_to_consume < 1

(* main has joined only threads that have ended.                           *)
JoinedDone == \A t \in Threads : t < joined => pc[t] = "done"

LeaveInv == MastersLeave /\ WorkersLeave /\ JoinedDone

SafeInv == TypeInv /\ LockInv /\ DataInv /\ LeaveInv

LEMMA LeaveInit == Init => LeaveInv
BY ArgumentAssumption, ThreadNumbers
   DEF Init, LeaveInv, MastersLeave, WorkersLeave, JoinedDone, Waiting, Threads

LEMMA LeaveStep ==
  ASSUME Refillable
  PROVE  SafeInv /\ [Next]_vars => LeaveInv'
<1> SUFFICES ASSUME SafeInv, [Next]_vars
             PROVE  LeaveInv'
  OBVIOUS
<1> USE ArgumentAssumption, ThreadNumbers DEF SafeInv
<1>1. ASSUME NEW t \in Threads, Synchronise(t)
      PROVE  LeaveInv'
  BY <1>1 DEF TypeInv, TypeOK, LeaveInv, MastersLeave, WorkersLeave, JoinedDone,
              Waiting, Synchronise, Lock, Unlock, Resume, Goto, shared, main
<1>2. ASSUME NEW t \in Threads, SpuriousWakeup(t)
      PROVE  LeaveInv'
  BY <1>2 DEF TypeInv, TypeOK, LeaveInv, MastersLeave, WorkersLeave, JoinedDone,
              Waiting, SpuriousWakeup, Goto, shared, main
<1>3. ASSUME NEW m \in Masters, Master(m)
      PROVE  LeaveInv'
  <2>1. CASE MasterTerminate(m)
    BY <2>1 DEF TypeInv, TypeOK, LeaveInv, MastersLeave, WorkersLeave, JoinedDone,
                Waiting, MasterTerminate, Goto, shared, main
  <2>2. CASE MasterBroadcast(m)
    BY <2>2 DEF TypeInv, TypeOK, LeaveInv, MastersLeave, WorkersLeave, JoinedDone,
                Waiting, MasterBroadcast, Woken, shared, main
  <2>3. CASE MasterWait(m)
    BY <2>3 DEF TypeInv, TypeOK, LeaveInv, MastersLeave, WorkersLeave, JoinedDone,
                Waiting, MasterWait, Woken, shared, main
  <2>4. CASE MasterProduce(m)
    <3>1. /\ pc' = [pc EXCEPT ![m] = "unlock"]
          /\ UNCHANGED <<item_to_consume, main>>
          /\ pc[m] # "done"
      BY <2>4 DEF MasterProduce, MayProduce, Goto
    <3>2. /\ item_to_produce' \in Int
          /\ item_to_produce' >= item_to_produce
      BY <2>4 DEF TypeInv, TypeOK, MasterProduce, Produce
    <3> QED
      BY <3>1, <3>2 DEF TypeInv, TypeOK, LeaveInv, MastersLeave,
         WorkersLeave, JoinedDone, Waiting, main
  <2> QED BY <1>3, <2>1, <2>2, <2>3, <2>4 DEF Master
<1>4. ASSUME NEW w \in Workers, Worker(w)
      PROVE  LeaveInv'
  <2>1. CASE WorkerTerminate(w)
    BY <2>1 DEF TypeInv, TypeOK, LeaveInv, MastersLeave, WorkersLeave, JoinedDone,
                Waiting, WorkerTerminate, Goto, shared, main
  <2>2. CASE WorkerWait(w)
    <3>1. ~(\A m \in Masters : pc[m] = "done")
      <4>1. 0 \in Masters
        BY DEF Masters
      <4>2. item_to_produce >= TotalItems => item_to_consume <= 0
        BY <2>2 DEF WorkerWait, TypeInv, TypeOK, DataInv, Accounting
      <4> QED
        BY <2>2, <4>1, <4>2 DEF WorkerWait, LeaveInv, MastersLeave, TypeInv, TypeOK
    <3> QED
      BY <2>2, <3>1 DEF TypeInv, TypeOK, LeaveInv, MastersLeave, WorkersLeave,
         JoinedDone, Waiting, WorkerWait, Woken, shared, main
  <2>3. CASE WorkerConsume(w)
    <3>1. /\ pc' = [pc EXCEPT ![w] = "unlock"]
          /\ UNCHANGED <<item_to_produce, main>>
          /\ pc[w] \notin {"done", "wait"}
      BY <2>3 DEF WorkerConsume, Goto
    <3>2. item_to_consume' <= item_to_consume /\ item_to_consume' \in Int
      BY <2>3 DEF TypeInv, TypeOK, WorkerConsume, Consume
    <3> QED
      BY <3>1, <3>2 DEF TypeInv, TypeOK, LeaveInv, MastersLeave, WorkersLeave,
         JoinedDone, Waiting, main
  <2> QED BY <1>4, <2>1, <2>2, <2>3 DEF Worker
<1>5. CASE Main
  <2>1. CASE CreateThread
    BY <2>1 DEF CreateThread, LeaveInv, MastersLeave, WorkersLeave, JoinedDone,
                Waiting, shared
  <2>2. CASE JoinThread
    BY <2>2 DEF JoinThread, TypeInv, TypeOK, Threads, LeaveInv, MastersLeave,
                WorkersLeave, JoinedDone, Waiting, shared
  <2> QED BY <1>5, <2>1, <2>2 DEF Main
<1>6. CASE UNCHANGED vars
  BY <1>6 DEF vars, shared, main, LeaveInv, MastersLeave, WorkersLeave,
              JoinedDone, Waiting
<1> QED
  BY <1>1, <1>2, <1>3, <1>4, <1>5, <1>6 DEF Next, Terminated

-----------------------------------------------------------------------------
(* The invariant of these configurations, and what it implies.             *)
LEMMA SafeInvariant ==
  ASSUME Refillable
  PROVE  Spec => []SafeInv
<1>1. Init => SafeInv
  BY TypeInit, LockInit, DataInit, LeaveInit DEF SafeInv
<1>2. SafeInv /\ [Next]_vars => SafeInv'
  BY TypeStep, MutualExclusionStep, NeverBothWaitingStep, DataStep, LeaveStep
     DEF SafeInv, TypeInv, LockInv
<1> QED
  BY <1>1, <1>2, PTL DEF Spec

LEMMA SafeInvWakes == SafeInv => SomeoneWillWake
<1> SUFFICES ASSUME SafeInv
             PROVE  SomeoneWillWake
  OBVIOUS
<1> USE ArgumentAssumption DEF SafeInv
<1>1. Waiting(Workers) => Active(Masters)
  BY DEF LockInv, NeverBothWaiting, LeaveInv, MastersLeave, Waiting, Active
<1>2. ASSUME Waiting(Masters), item_to_produce < TotalItems
      PROVE  Active(Workers)
  <2>1. NumMasters \in Workers
    BY DEF Workers, NumThreads
  <2>3. item_to_consume >= 1
    BY <1>2 DEF TypeInv, TypeOK, DataInv, Accounting
  <2>4. pc[NumMasters] # "done"
    BY <2>1, <2>3 DEF LeaveInv, WorkersLeave, TypeInv, TypeOK
  <2>5. pc[NumMasters] # "wait"
    BY <1>2, <2>1 DEF LockInv, NeverBothWaiting, Waiting
  <2> QED BY <2>1, <2>4, <2>5 DEF Active
<1> QED BY <1>1, <1>2 DEF SomeoneWillWake

LEMMA SafeInvPasses == SafeInv => AllTestCasesPassed
<1> SUFFICES ASSUME SafeInv, Finished
             PROVE  \A i \in Items : prod[i] = 1 /\ cons[i] = 1
  BY DEF AllTestCasesPassed
<1> USE ArgumentAssumption, ThreadNumbers DEF SafeInv
<1>1. \A t \in Threads : pc[t] = "done"
  BY DEF Finished, LeaveInv, JoinedDone, Threads
<1>2. 0 \in Masters /\ NumMasters \in Workers
  BY DEF Masters, Workers, NumThreads
<1>3. item_to_produce >= TotalItems /\ item_to_consume < 1
  BY <1>1, <1>2 DEF LeaveInv, MastersLeave, WorkersLeave
<1>4. item_to_produce = TotalItems /\ curr_buf_size = 0
  BY <1>3 DEF TypeInv, TypeOK, DataInv, Accounting
<1>5. Outstanding = {}
  BY <1>4 DEF Outstanding
<1>6. \A i \in Items : prod[i] = 1 /\ cons[i] # 0
  BY <1>4, <1>5 DEF DataInv, InOrder, NothingLost, Items
<1> QED
  BY <1>6 DEF TypeInv, TypeOK, DataInv, NothingLost

(* The stack never grows behind the end of the buffer, for any number of   *)
(* masters that refill it at most once, for a single one, and for a buffer *)
(* with room for all the items.                                            *)
THEOREM NoOverrunHolds == Spec => []NoOverrun
<1>1. CASE Refillable
  <2>1. Spec => []InBuffer
    BY <1>1, SafeInvariant, PTL DEF SafeInv, DataInv
  <2>2. InBuffer => NoOverrun
    BY DEF NoOverrun
  <2> QED
    BY <2>1, <2>2, PTL
<1>2. CASE ~Refillable
  <2>1. NoOverrun
    BY <1>2 DEF NoOverrun
  <2> QED
    BY <2>1, PTL
<1> QED
  BY <1>1, <1>2

(* ... and loses or duplicates no item ...                                 *)
THEOREM NothingLostHolds ==
  ASSUME Refillable
  PROVE  Spec => []NothingLost
BY SafeInvariant, PTL DEF SafeInv, DataInv

(* ... and leaves no thread waiting without one that will wake it ...      *)
THEOREM SomeoneWillWakeHolds ==
  ASSUME Refillable
  PROVE  Spec => []SomeoneWillWake
BY SafeInvariant, SafeInvWakes, PTL

(* ... and when main returns, check.awk finds every number produced once   *)
(* and consumed once.                                                      *)
THEOREM AllTestCasesPassedHolds ==
  ASSUME Refillable
  PROVE  Spec => []AllTestCasesPassed
BY SafeInvariant, SafeInvPasses, PTL

-----------------------------------------------------------------------------
(* The refinement of ItemDispatch.                                         *)

LEMMA StackHeight ==
  ASSUME SafeInv
  PROVE  IsFiniteSet(Outstanding) /\ Cardinality(Outstanding) <= curr_buf_size
<1> DEFINE f == [s \in 1 .. curr_buf_size |-> buffer[s - 1]]
<1>1. curr_buf_size \in Nat
  BY DEF SafeInv, TypeInv, TypeOK
<1>2. \A x \in Outstanding : \E s \in 1 .. curr_buf_size : f[s] = x
  <2> SUFFICES ASSUME NEW r \in 0 .. curr_buf_size - 1
               PROVE  \E s \in 1 .. curr_buf_size : f[s] = buffer[r]
    BY DEF Outstanding
  <2>1. r + 1 \in 1 .. curr_buf_size /\ f[r + 1] = buffer[r]
    BY <1>1
  <2> QED BY <2>1
<1>3. f \in [1 .. curr_buf_size -> Outstanding]
  BY <1>1 DEF Outstanding
<1>4. f \in Surjection(1 .. curr_buf_size, Outstanding)
  BY <1>2, <1>3 DEF Surjection
<1>5. ExistsSurjection(1 .. curr_buf_size, Outstanding)
  BY <1>4 DEF ExistsSurjection
<1> QED
  BY <1>1, <1>5, FS_NatSurjection, FS_SurjCardinalityBound

(* ItemDispatch counts with the same Cardinality.                          *)
LEMMA SameCardinality ==
  ASSUME NEW S
  PROVE  Dispatch!Cardinality(S) = Cardinality(S)
BY DEF Dispatch!Cardinality, Cardinality

LEMMA DispatchInit == Init => Dispatch!Init
BY ArgumentAssumption DEF Init, Dispatch!Init, Outstanding, Items

LEMMA DispatchStutter ==
  ASSUME UNCHANGED <<shared, printed>>
  PROVE  UNCHANGED Dispatch!vars
BY DEF shared, printed, Dispatch!vars, Outstanding

LEMMA DispatchStep ==
  ASSUME Refillable
  PROVE  SafeInv /\ SafeInv' /\ [Next]_vars => [Dispatch!Next]_(Dispatch!vars)
<1> SUFFICES ASSUME SafeInv, SafeInv', [Next]_vars
             PROVE  Dispatch!Next \/ UNCHANGED Dispatch!vars
  OBVIOUS
<1> USE ArgumentAssumption
<1>1. ASSUME NEW m \in Masters, MasterProduce(m)
      PROVE  Dispatch!Produce
  <2>1. /\ curr_buf_size < MaxBufSize
        /\ item_to_produce < TotalItems
    BY <1>1, MasterMayStore DEF SafeInv, MasterProduce, MayProduce
  <2>2. Cardinality(Outstanding) < MaxBufSize
    BY <2>1, StackHeight, FS_CardinalityType DEF SafeInv, TypeInv, TypeOK
  <2>3. /\ item_to_produce' = item_to_produce + 1
        /\ prod' = [prod EXCEPT ![item_to_produce] = @ + 1]
        /\ cons' = cons
    BY <1>1, <2>1 DEF SafeInv, TypeInv, TypeOK, MasterProduce, Produce
  <2>4. \A i \in Items : prod'[i] = IF i = item_to_produce THEN 1 ELSE prod[i]
    BY <2>1, <2>3 DEF SafeInv, TypeInv, TypeOK, DataInv, InOrder, Items
  <2>5. item_to_produce \in Items /\ cons[item_to_produce] = 0
    BY <2>1 DEF SafeInv, TypeInv, TypeOK, DataInv, InOrder, NothingLost, Items
  <2>6. Outstanding' = Outstanding \cup {item_to_produce}
    BY <2>3, <2>4, <2>5 DEF SafeInv, DataInv, NothingLost, Items
  <2>7. {i \in Items : cons[i] > 0}' = {i \in Items : cons[i] > 0}
    BY <2>3 DEF Items
  <2> QED
    BY <2>1, <2>2, <2>3, <2>6, <2>7, SameCardinality DEF Dispatch!Produce
<1>2. ASSUME NEW w \in Workers, WorkerConsume(w)
      PROVE  Dispatch!Consume \/ UNCHANGED Dispatch!vars
  <2>1. CASE curr_buf_size <= 0
    <3>1. UNCHANGED <<shared, printed>>
      BY <1>2, <2>1 DEF SafeInv, TypeInv, TypeOK, WorkerConsume, Consume,
                        shared, printed
    <3> QED BY <3>1, DispatchStutter
  <2>2. CASE curr_buf_size > 0
    <3> DEFINE item == buffer[curr_buf_size - 1]
    <3>1. item \in Outstanding
      BY <2>2 DEF SafeInv, TypeInv, TypeOK, Outstanding
    <3>2. item \in Items /\ prod[item] = 1 /\ cons[item] = 0
      BY <3>1 DEF SafeInv, DataInv, NothingLost
    <3>3. item # Consumed
      BY <3>2 DEF Items, Consumed
    <3>4. /\ cons' = [cons EXCEPT ![item] = @ + 1]
          /\ UNCHANGED <<item_to_produce, prod>>
      BY <1>2, <2>2, <3>3 DEF SafeInv, TypeInv, TypeOK, WorkerConsume, Consume
    <3>5. \A i \in Items : cons'[i] = IF i = item THEN 1 ELSE cons[i]
      BY <3>2, <3>4 DEF SafeInv, TypeInv, TypeOK
    <3>6. Outstanding' = Outstanding \ {item}
      BY <3>4, <3>5 DEF SafeInv, DataInv, NothingLost, Items
    <3>7. {i \in Items : cons[i] > 0}' = {i \in Items : cons[i] > 0} \cup {item}
      BY <3>2, <3>5 DEF Items
    <3> QED
      BY <3>1, <3>4, <3>6, <3>7 DEF Dispatch!Consume
  <2> QED
    BY <2>1, <2>2 DEF SafeInv, TypeInv, TypeOK
<1>3. ASSUME ~(\E m \in Masters : MasterProduce(m)),
             ~(\E w \in Workers : WorkerConsume(w))
      PROVE  UNCHANGED <<shared, printed>>
  BY <1>3 DEF Next, Synchronise, Lock, Unlock, Resume, SpuriousWakeup, Master,
     MasterTerminate, MasterBroadcast, MasterWait, Worker, WorkerTerminate,
     WorkerWait, Main, CreateThread, JoinThread, Terminated, vars
<1> QED
  BY <1>1, <1>2, <1>3, DispatchStutter DEF Dispatch!Next

(* In these configurations the threads implement the dispatch of items     *)
(* one by one: every step produces one item in order, takes one out, or is *)
(* invisible.                                                              *)
THEOREM DispatchRefined ==
  ASSUME Refillable
  PROVE  Spec => DispatchSpec
<1>1. Spec => []SafeInv
  BY SafeInvariant
<1> QED
  BY <1>1, DispatchInit, DispatchStep, PTL DEF Spec, DispatchSpec, Dispatch!Spec
=============================================================================
