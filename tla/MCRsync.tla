------------------------------ MODULE MCRsync -------------------------------
(* Rsync for TLC: the files, what they may hold and what copying does.     *)
EXTENDS Rsync

CONSTANTS old, new, none   \* model values for contents

a == <<"a">>
b == <<"b">>

OneName == {a}
TwoNames == {a, b}
NoConflict == {}
SwpName == {a, Swp(a)}   \* a and its backup, or a user's file of that name

OldNew == {old, new}

(* Contents of different lengths, and of the same length.                  *)
OwnSize == (old :> 1) @@ (new :> 2) @@ (none :> 0)
SameSizes == (old :> 1) @@ (new :> 1) @@ (none :> 0)

(* Lines of text are copied as they are; of new, which has a NUL in its    *)
(* first line, as much as old holds is left.                               *)
Text == [d \in OldNew |-> d]
Binary == [d \in OldNew |-> old]
=============================================================================
