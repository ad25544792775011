----------------------------- MODULE PageBlocks -----------------------------
(***************************************************************************)
(* What ssu_alloc promises, without bitmap or size table: one page of      *)
(* Granules granules from which blocks are taken, each from the lowest gap *)
(* that holds it, and given back whole.                                    *)
(***************************************************************************)
EXTENDS Naturals

CONSTANT Granules

VARIABLES
  open,    (* whether there is a page                                      *)
  blocks   (* the blocks in use: [at, len], in granules                    *)

vars == <<open, blocks>>

Cells(b) == b.at .. b.at + b.len - 1
Used == UNION {Cells(b) : b \in blocks}

(* len granules from at on are unused.                                     *)
Gap(at, len) ==
  at + len <= Granules /\ Used \cap (at .. at + len - 1) = {}

Init ==
  /\ open = FALSE
  /\ blocks = {}

Open ==
  /\ ~open
  /\ open' = TRUE
  /\ blocks' = {}

Close ==
  /\ open
  /\ open' = FALSE
  /\ blocks' = {}

Take ==
  \E len \in 1 .. Granules, at \in 0 .. Granules - 1 :
    /\ open
    /\ Gap(at, len)
    /\ \A lower \in 0 .. at - 1 : ~Gap(lower, len)
    /\ blocks' = blocks \cup {[at |-> at, len |-> len]}
    /\ UNCHANGED open

GiveBack ==
  /\ open
  /\ \E b \in blocks : blocks' = blocks \ {b}
  /\ UNCHANGED open

Next == Open \/ Close \/ Take \/ GiveBack

Spec == Init /\ [][Next]_vars
=============================================================================
