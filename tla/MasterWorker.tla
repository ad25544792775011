---------------------------- MODULE MasterWorker ----------------------------
(***************************************************************************)
(* ssu_pthread/master-worker.c: master threads produce the numbers         *)
(* 0 .. TotalItems-1 into a bounded stack, worker threads consume them,    *)
(* under one mutex and two condition variables.                            *)
(*                                                                         *)
(* Every access to the shared data is made with the mutex held, so one     *)
(* step of a thread is the code between two synchronisation calls.  The    *)
(* broadcast a terminating master makes AFTER it has unlocked is a step of *)
(* its own.  A thread inside pthread_cond_wait is at "wait"; a broadcast   *)
(* (or a spurious wakeup) moves it to "woken", from where it still has to  *)
(* win the mutex again before it goes on at "resumed".                     *)
(***************************************************************************)
EXTENDS Integers, FiniteSets

CONSTANTS
  TotalItems,   (* argv[1]: the number of items to produce                 *)
  MaxBufSize,   (* argv[2]: the number of slots malloc'ed for the buffer   *)
  NumWorkers,   (* argv[3]                                                 *)
  NumMasters,   (* argv[4]                                                 *)
  MaxSpurious   (* bound: spurious wakeups of pthread_cond_wait in a run   *)

ASSUME ArgumentAssumption ==
  /\ TotalItems \in Nat
  /\ MaxBufSize \in Nat \ {0}
  /\ NumWorkers \in Nat \ {0}
  /\ NumMasters \in Nat \ {0}
  /\ MaxSpurious \in Nat

VARIABLES
  item_to_produce,  (* the next number to produce                          *)
  item_to_consume,  (* how many items are still to be consumed             *)
  curr_buf_size,    (* the height of the stack                             *)
  buffer,           (* the heap slots the stack is written to              *)
  mutex,            (* the thread that holds the mutex, or NoThread        *)
  pc,               (* where each master and each worker is                *)
  created,          (* how many threads main has created ...               *)
  joined,           (* ... and how many it has joined                      *)
  spurious,         (* spurious wakeups so far                             *)
  prod, cons        (* how often each number was printed as produced and   *)
                    (* as consumed: what check.awk counts in the output    *)

shared == <<item_to_produce, item_to_consume, curr_buf_size, buffer>>
printed == <<prod, cons>>
main == <<created, joined>>
vars == <<shared, mutex, pc, main, spurious, printed>>

-----------------------------------------------------------------------------
(* main creates the masters first and then the workers, and joins them in  *)
(* the same order, so the threads are numbered in that order.              *)
NumThreads == NumMasters + NumWorkers
Masters == 0 .. NumMasters - 1
Workers == NumMasters .. NumThreads - 1
Threads == 0 .. NumThreads - 1
NoThread == -1

Items == 0 .. TotalItems - 1
Consumed == -1    \* what a consumed slot is overwritten with

(* The stack never grows past the number of items; the slots from          *)
(* MaxBufSize on lie behind the malloc'ed block.                           *)
Slots == 0 .. TotalItems - 1
InBlock(slot) == slot < MaxBufSize

(* A store behind the block hits memory the program does not own: what is  *)
(* read back later may be anything.                                        *)
Stored(slot, item) == IF InBlock(slot) THEN {item} ELSE {Consumed} \cup Items

Init ==
  /\ item_to_produce = 0
  /\ item_to_consume = TotalItems
  /\ curr_buf_size = 0
  /\ buffer = [s \in Slots |-> Consumed]  \* uninitialised; written before read
  /\ mutex = NoThread
  /\ pc = [t \in Threads |-> "lock"]
  /\ created = 0
  /\ joined = 0
  /\ spurious = 0
  /\ prod = [i \in Items |-> 0]
  /\ cons = [i \in Items |-> 0]

-----------------------------------------------------------------------------
Goto(t, label) == pc' = [pc EXCEPT ![t] = label]

(* pthread_cond_broadcast: every thread of T that waits is woken.          *)
Woken(T) == [t \in Threads |-> IF t \in T /\ pc[t] = "wait" THEN "woken" ELSE pc[t]]

(* pthread_mutex_lock at the top of the loop.                              *)
Lock(t) ==
  /\ t < created
  /\ pc[t] = "lock"
  /\ mutex = NoThread
  /\ mutex' = t
  /\ Goto(t, "top")
  /\ UNCHANGED <<shared, main, spurious, printed>>

(* pthread_mutex_unlock at the end of the loop.                            *)
Unlock(t) ==
  /\ pc[t] = "unlock"
  /\ mutex' = NoThread
  /\ Goto(t, "lock")
  /\ UNCHANGED <<shared, main, spurious, printed>>

(* A woken thread gets the mutex back and returns from pthread_cond_wait.  *)
Resume(t) ==
  /\ pc[t] = "woken"
  /\ mutex = NoThread
  /\ mutex' = t
  /\ Goto(t, "resumed")
  /\ UNCHANGED <<shared, main, spurious, printed>>

(* pthread_cond_wait may also return without any broadcast.                *)
SpuriousWakeup(t) ==
  /\ pc[t] = "wait"
  /\ spurious < MaxSpurious
  /\ spurious' = spurious + 1
  /\ Goto(t, "woken")
  /\ UNCHANGED <<shared, mutex, main, printed>>

-----------------------------------------------------------------------------
(* generate_requests_loop                                                  *)

(* All items are produced: unlock; the broadcast is the next step.         *)
MasterTerminate(m) ==
  /\ pc[m] \in {"top", "resumed"}
  /\ item_to_produce >= TotalItems
  /\ mutex' = NoThread
  /\ Goto(m, "broadcast")
  /\ UNCHANGED <<shared, main, spurious, printed>>

(* Faulty variant: the last broadcast is forgotten.                        *)
MasterBroadcastForgotten(m) ==
  /\ pc[m] = "broadcast"
  /\ Goto(m, "done")
  /\ UNCHANGED <<shared, mutex, main, spurious, printed>>

MasterBroadcast(m) ==
  /\ pc[m] = "broadcast"
  /\ pc' = [Woken(Workers) EXCEPT ![m] = "done"]
  /\ UNCHANGED <<shared, mutex, main, spurious, printed>>

(* The buffer is full: wake the workers and wait.                          *)
MasterWait(m) ==
  /\ pc[m] = "top"
  /\ item_to_produce < TotalItems
  /\ curr_buf_size = MaxBufSize
  /\ pc' = [Woken(Workers) EXCEPT ![m] = "wait"]
  /\ mutex' = NoThread
  /\ UNCHANGED <<shared, main, spurious, printed>>

(* Faulty variant: nobody looks whether the buffer is full.                *)
MayProduceUnchecked(m) ==
  /\ item_to_produce < TotalItems
  /\ pc[m] \in {"top", "resumed"}

(* Whether a master may store an item: the test for a full buffer is made  *)
(* at the top only, not again when the wait returns.                       *)
MayProduce(m) ==
  /\ item_to_produce < TotalItems
  /\ \/ pc[m] = "top" /\ curr_buf_size # MaxBufSize
     \/ pc[m] = "resumed"

Produce ==
  IF curr_buf_size < 0
    THEN /\ curr_buf_size' = 0
         /\ UNCHANGED <<item_to_produce, buffer, prod>>
    ELSE /\ \E v \in Stored(curr_buf_size, item_to_produce) :
              buffer' = [buffer EXCEPT ![curr_buf_size] = v]
         /\ curr_buf_size' = curr_buf_size + 1
         /\ prod' = [prod EXCEPT ![item_to_produce] = @ + 1]
         /\ item_to_produce' = item_to_produce + 1

MasterProduce(m) ==
  /\ MayProduce(m)
  /\ Produce
  /\ Goto(m, "unlock")
  /\ UNCHANGED <<item_to_consume, mutex, main, spurious, cons>>

-----------------------------------------------------------------------------
(* consume_requests_loop                                                   *)

(* Faulty variant: a worker leaves while one item is outstanding.          *)
WorkerTerminateEarly(w) ==
  /\ pc[w] = "top"
  /\ item_to_consume <= 1
  /\ mutex' = NoThread
  /\ Goto(w, "done")
  /\ UNCHANGED <<shared, main, spurious, printed>>

(* All items are consumed: leave.                                          *)
WorkerTerminate(w) ==
  /\ pc[w] = "top"
  /\ item_to_consume < 1
  /\ mutex' = NoThread
  /\ Goto(w, "done")
  /\ UNCHANGED <<shared, main, spurious, printed>>

(* Faulty variant: the worker polls instead of waiting.                    *)
WorkerWaitPolling(w) ==
  /\ pc[w] = "top"
  /\ item_to_consume >= 1
  /\ curr_buf_size <= 0
  /\ pc' = [Woken(Masters) EXCEPT ![w] = "lock"]
  /\ mutex' = NoThread
  /\ UNCHANGED <<shared, main, spurious, printed>>

(* The buffer is empty: wake the masters and wait.                         *)
WorkerWait(w) ==
  /\ pc[w] = "top"
  /\ item_to_consume >= 1
  /\ curr_buf_size <= 0
  /\ pc' = [Woken(Masters) EXCEPT ![w] = "wait"]
  /\ mutex' = NoThread
  /\ UNCHANGED <<shared, main, spurious, printed>>

(* Faulty variant: the top is read but not popped.                         *)
ConsumeUnpopped ==
  LET top == curr_buf_size - 1 IN
  IF curr_buf_size <= 0 \/ buffer[top] = Consumed
    THEN UNCHANGED <<curr_buf_size, item_to_consume, buffer, cons>>
    ELSE /\ cons' = [cons EXCEPT ![buffer[top]] = @ + 1]
         /\ buffer' = [buffer EXCEPT ![top] = Consumed]
         /\ item_to_consume' = item_to_consume - 1
         /\ UNCHANGED curr_buf_size

(* Popping the stack; nothing to pop is no error, the loop just goes on.   *)
Consume ==
  LET top == curr_buf_size - 1 IN
  IF curr_buf_size <= 0
    THEN /\ curr_buf_size' = 0
         /\ UNCHANGED <<item_to_consume, buffer, cons>>
    ELSE /\ curr_buf_size' = top
         /\ IF buffer[top] # Consumed
              THEN /\ cons' = [cons EXCEPT ![buffer[top]] = @ + 1]
                   /\ buffer' = [buffer EXCEPT ![top] = Consumed]
                   /\ item_to_consume' = item_to_consume - 1
              ELSE UNCHANGED <<item_to_consume, buffer, cons>>

WorkerConsume(w) ==
  /\ \/ pc[w] = "top" /\ item_to_consume >= 1 /\ curr_buf_size > 0
     \/ pc[w] = "resumed"
  /\ Consume
  /\ Goto(w, "unlock")
  /\ UNCHANGED <<item_to_produce, mutex, main, spurious, prod>>

-----------------------------------------------------------------------------
(* main                                                                    *)

CreateThread ==
  /\ created < NumThreads
  /\ created' = created + 1
  /\ UNCHANGED <<shared, mutex, pc, joined, spurious, printed>>

JoinThread ==
  /\ created = NumThreads
  /\ joined < NumThreads
  /\ pc[joined] = "done"
  /\ joined' = joined + 1
  /\ UNCHANGED <<shared, mutex, pc, created, spurious, printed>>

Finished == joined = NumThreads

(* main has returned: nothing happens any more.                            *)
Terminated == Finished /\ UNCHANGED vars

-----------------------------------------------------------------------------
Master(m) == \/ MasterTerminate(m)
             \/ MasterBroadcast(m)
             \/ MasterWait(m)
             \/ MasterProduce(m)

Worker(w) == \/ WorkerTerminate(w)
             \/ WorkerWait(w)
             \/ WorkerConsume(w)

Synchronise(t) == Lock(t) \/ Unlock(t) \/ Resume(t)

Main == CreateThread \/ JoinThread

Next ==
  \/ \E t \in Threads : Synchronise(t)
  \/ \E t \in Threads : SpuriousWakeup(t)
  \/ \E m \in Masters : Master(m)
  \/ \E w \in Workers : Worker(w)
  \/ Main
  \/ Terminated

Spec == Init /\ [][Next]_vars

(* The kernel runs every thread that can take a step.  No fairness of the  *)
(* mutex is assumed: a thread may lose every race for it.                  *)
Fairness ==
  /\ WF_vars(Main)
  /\ \A t \in Threads : WF_vars(Synchronise(t))
  /\ \A m \in Masters : WF_vars(Master(m))
  /\ \A w \in Workers : WF_vars(Worker(w))

FairSpec == Spec /\ Fairness

-----------------------------------------------------------------------------
(* Properties                                                              *)

(* The variables keep their types; the stack height stays within the heap  *)
(* slots the model knows.                                                  *)
TypeOK ==
  /\ item_to_produce \in 0 .. TotalItems
  /\ item_to_consume \in 0 .. TotalItems
  /\ curr_buf_size \in 0 .. TotalItems
  /\ buffer \in [Slots -> Items \cup {Consumed}]
  /\ mutex \in Threads \cup {NoThread}
  /\ pc \in [Threads -> {"lock", "top", "wait", "woken", "resumed", "unlock",
                         "broadcast", "done"}]
  /\ created \in 0 .. NumThreads
  /\ joined \in 0 .. NumThreads
  /\ spurious \in 0 .. MaxSpurious
  /\ prod \in [Items -> Nat]
  /\ cons \in [Items -> Nat]

(* A thread is between lock and unlock exactly if it holds the mutex, so   *)
(* the shared data and the output are touched by one thread at a time.     *)
MutualExclusion ==
  \A t \in Threads : pc[t] \in {"top", "resumed", "unlock"} <=> mutex = t

(* The buffer is refilled at most once, or there is no second master to    *)
(* overtake the one that returns from the wait; and no wait returns        *)
(* without a broadcast, unless nobody ever waits.                          *)
Refillable ==
  \/ MaxSpurious = 0 /\ (NumMasters = 1 \/ TotalItems <= 2 * MaxBufSize)
  \/ TotalItems <= MaxBufSize

(* The stack stays within the max_buf_size slots that main allocated.      *)
InBuffer == curr_buf_size <= MaxBufSize

(* The test for a full buffer (line 49) and the store (line 64) are        *)
(* separated by a wait after which only item_to_produce is tested again    *)
(* (line 53).  Masters are woken only once the workers have emptied the    *)
(* buffer, so several masters woken by one broadcast find room one after   *)
(* another as long as no more than twice max_buf_size items are produced;  *)
(* a single master always does.  With more masters and items the second of *)
(* them stores behind the buffer the first has refilled                    *)
(* (MasterWorker_overrun.cfg), and nothing is claimed here.                *)
NoOverrun == Refillable => InBuffer

(* The stack holds exactly the items that were printed as produced and not *)
(* yet as consumed, each of them once: no item is lost, overwritten or     *)
(* duplicated by the hand-over between masters and workers.                *)
Outstanding == {buffer[s] : s \in 0 .. curr_buf_size - 1}
NothingLost ==
  /\ Outstanding = {i \in Items : prod[i] = 1 /\ cons[i] = 0}
  /\ \A s1, s2 \in 0 .. curr_buf_size - 1 : buffer[s1] = buffer[s2] => s1 = s2
  /\ \A i \in Items : cons[i] <= prod[i] /\ prod[i] <= 1

Waiting(T) == \E t \in T : pc[t] = "wait"
Active(T) == \E t \in T : pc[t] \notin {"wait", "done"}

(* Masters wait for a full buffer to drain and workers for an empty one to *)
(* fill; because each side wakes the other before it waits, the two sides  *)
(* never wait for each other.                                              *)
NeverBothWaiting == ~(Waiting(Masters) /\ Waiting(Workers))

(* As long as a worker waits, a master is still on its way to the          *)
(* broadcast that wakes it, and as long as a master waits that has         *)
(* something left to produce, a worker is: no wakeup is lost, in           *)
(* particular not when masters and workers terminate.  A master that waits *)
(* when another has produced the last item is left alone by both sides     *)
(* (MasterWorker_stuck.cfg).                                               *)
SomeoneWillWake ==
  /\ Waiting(Workers) => Active(Masters)
  /\ Waiting(Masters) /\ item_to_produce < TotalItems => Active(Workers)

(* What check.awk demands of the output of a finished run: every number    *)
(* below total_items was produced once and consumed once.                  *)
AllTestCasesPassed ==
  Finished => \A i \in Items : prod[i] = 1 /\ cons[i] = 1

(* main gets through all its pthread_joins.                                *)
Termination == <>Finished

(* "If all item is produced, terminate" (lines 43 and 53): a master does   *)
(* not stay blocked once there is nothing left to produce.                 *)
MastersTerminate ==
  \A m \in Masters : (item_to_produce >= TotalItems) ~> (pc[m] = "done")

-----------------------------------------------------------------------------
(* The threads implement the dispatch of items one by one.                 *)
Dispatch == INSTANCE ItemDispatch
              WITH Capacity <- MaxBufSize,
                   produced <- item_to_produce,
                   queued   <- Outstanding,
                   consumed <- {i \in Items : cons[i] > 0}

(* Every step is one item produced, one item consumed, or invisible.       *)
DispatchSpec == Dispatch!Spec

(* ... and under the scheduler's fairness both sides keep going until all  *)
(* items are dispatched.                                                   *)
DispatchFairSpec == Dispatch!FairSpec
=============================================================================
