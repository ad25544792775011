---------------------------- MODULE ItemDispatch ----------------------------
(***************************************************************************)
(* What ssu_pthread/master-worker.c promises, without threads, mutex or    *)
(* condition variables: the items 0 .. TotalItems-1 are put into a         *)
(* container of bounded capacity in order, and each of them is taken out   *)
(* exactly once, in any order.                                             *)
(***************************************************************************)
EXTENDS Naturals, FiniteSets

CONSTANTS TotalItems, Capacity

VARIABLES
  produced,   (* how many items have been produced                         *)
  queued,     (* the items in the container                                *)
  consumed    (* the items taken out of it                                 *)

vars == <<produced, queued, consumed>>

Init ==
  /\ produced = 0
  /\ queued = {}
  /\ consumed = {}

Produce ==
  /\ produced < TotalItems
  /\ Cardinality(queued) < Capacity
  /\ queued' = queued \cup {produced}
  /\ produced' = produced + 1
  /\ UNCHANGED consumed

Consume ==
  \E item \in queued :
    /\ queued' = queued \ {item}
    /\ consumed' = consumed \cup {item}
    /\ UNCHANGED produced

Next == Produce \/ Consume

Spec == Init /\ [][Next]_vars

(* Neither side stops while it has something to do.                        *)
FairSpec == Spec /\ WF_vars(Produce) /\ WF_vars(Consume)
=============================================================================
