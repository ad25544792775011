------------------------------- MODULE Alloc --------------------------------
(***************************************************************************)
(* ssu_alloc/alloc.c: a memory allocator over one page from mmap.  The     *)
(* struct m is two int arrays one after the other, mem_alloc (is a granule *)
(* of MINALLOC bytes in use) and mem_offset (how long is the block that    *)
(* starts here); alloc scans PAGESIZE ints of the first, which is MINALLOC *)
(* times its length, so it reads and writes the second and the memory      *)
(* behind m too.  Memory is therefore one array of words, as the indices   *)
(* see it.                                                                 *)
(***************************************************************************)
EXTENDS Integers

CONSTANTS
  MINALLOC,   (* the bytes of a granule: 8                                 *)
  Granules,   (* PAGESIZE/8, the length of both arrays                     *)
  Requests,   (* the sizes, in bytes, the client asks for                  *)
  Clients     (* which clients there may be: TRUE stands for one that asks *)
              (* only for what fits in a gap, FALSE for one that asks for  *)
              (* anything                                                  *)

ASSUME PageAssumption ==
  /\ MINALLOC \in Nat \ {0, 1}
  /\ Granules \in Nat \ {0}
  /\ Requests \subseteq Int
  /\ Clients \subseteq BOOLEAN

VARIABLES
  page,   (* "none" before init_alloc and after cleanup, "mapped", or how  *)
          (* the process ended: "exited" after an mmap or munmap error,    *)
          (* "faulted" after an access behind m                            *)
  mem,    (* the words from m.mem_alloc[0] on                              *)
  live,   (* the blocks the client holds: [at, len], in granules           *)
  careful (* the client                                                    *)

vars == <<page, mem, live, careful>>

-----------------------------------------------------------------------------
PAGESIZE == MINALLOC * Granules
Scanned == 0 .. PAGESIZE - 1              \* the indices alloc looks at
Words == 0 .. PAGESIZE + Granules         \* mem_offset behind those, too
InStruct(w) == w < 2 * Granules

mem_alloc(i) == mem[i]
mem_offset(i) == mem[Granules + i]

Cells(b) == b.at .. b.at + b.len - 1

Init ==
  /\ page = "none"
  /\ mem = [w \in Words |-> 0]
  /\ live = {}
  /\ careful \in Clients

init_alloc ==
  /\ page = "none"
  /\ \/ /\ page' = "mapped"
        /\ mem' = [w \in Words |-> IF InStruct(w) THEN 0 ELSE mem[w]]
     \/ /\ page' = "exited"
        /\ UNCHANGED mem
  /\ live' = {}
  /\ UNCHANGED careful

cleanup ==
  /\ page = "mapped"
  /\ page' \in {"none", "exited"}
  /\ live' = {}
  /\ UNCHANGED <<mem, careful>>

-----------------------------------------------------------------------------
(* Faulty variant: a granule in use does not reset the count.              *)
countUnreset(size) ==
  LET after[i \in Scanned] ==
        (IF i = 0 THEN size ELSE after[i - 1])
          - (IF mem_alloc(i) = 0 THEN 1 ELSE 0)
  IN after

(* The scan.  count goes down with every free granule and is reset by one  *)
(* in use; the scan stops when it is 0.                                    *)
count(size) ==
  LET after[i \in Scanned] ==
        IF mem_alloc(i) = 0 THEN (IF i = 0 THEN size ELSE after[i - 1]) - 1
                            ELSE size
  IN after

(* What that amounts to: the scan for len granules stops at i if len free  *)
(* granules end there; a scan for none stops at a granule in use.          *)
Stop(len, i) ==
  IF len > 0
    THEN len <= i + 1 /\ \A j \in i - len + 1 .. i : mem_alloc(j) = 0
    ELSE len = 0 /\ mem_alloc(i) # 0

FirstStop(len, i) == Stop(len, i) /\ \A h \in 0 .. i - 1 : ~Stop(len, h)

(* Whether a gap of the page holds len granules, which a careful client    *)
(* knows from its own blocks.                                              *)
Fits(len) ==
  \E at \in 0 .. Granules - len :
    \A b \in live : Cells(b) \cap (at .. at + len - 1) = {}

MayAsk(size) ==
  careful /\ size % MINALLOC = 0 /\ size <= PAGESIZE =>
    LET len == size \div MINALLOC IN len > 0 /\ Fits(len)

(* Faulty variant: the length is recorded at the last granule, not at the  *)
(* first.                                                                  *)
TakenAtEnd(at, len) ==
  [w \in Words |-> IF w = Granules + at + len - 1 THEN len
                   ELSE IF w \in at .. at + len - 1 THEN 1 ELSE mem[w]]

(* The granules are marked, then the length is recorded.                   *)
Taken(at, len) ==
  [w \in Words |-> IF w = Granules + at THEN len
                   ELSE IF w \in at .. at + len - 1 THEN 1 ELSE mem[w]]

(* Faulty variant: off by one.                                             *)
FirstOffByOne(len, i) == i - len

(* The first granule of the block whose last is i.                         *)
First(len, i) == i - len + 1

(* The block alloc(size) returns, p + MINALLOC*at: none when it is NULL.   *)
Returned(size) ==
  LET len == size \div MINALLOC IN
  {[at |-> First(len, i), len |-> len] :
     i \in {j \in Scanned : size % MINALLOC = 0 /\ size <= PAGESIZE /\ FirstStop(len, j)}}

alloc(size) ==
  /\ page = "mapped"
  /\ MayAsk(size)
  /\ \/ Returned(size) = {} /\ UNCHANGED vars
     \/ \E b \in Returned(size) :
          /\ mem' = Taken(b.at, b.len)
          /\ live' = live \cup {b}
          /\ UNCHANGED <<page, careful>>

(* A scan that leaves m may also hit memory that is not there.             *)
alloc_faults(size) ==
  /\ page = "mapped"
  /\ MayAsk(size)
  /\ size % MINALLOC = 0 /\ size <= PAGESIZE
  /\ \A i \in Scanned : InStruct(i) => ~Stop(size \div MINALLOC, i)
  /\ page' = "faulted"
  /\ UNCHANGED <<mem, live, careful>>

(* Faulty variant: one granule too few is freed.                           *)
FreedShort(at) ==
  [w \in Words |-> IF w \in at .. at + mem_offset(at) - 2 THEN 0 ELSE mem[w]]

(* As many granules as are recorded for the first one are freed.           *)
Freed(at) ==
  [w \in Words |-> IF w \in at .. at + mem_offset(at) - 1 THEN 0 ELSE mem[w]]

(* The client gives back a block it holds.                                 *)
dealloc(b) ==
  /\ page = "mapped"
  /\ mem' = Freed(b.at)
  /\ live' = live \ {b}
  /\ UNCHANGED <<page, careful>>

-----------------------------------------------------------------------------
Ended == page \in {"exited", "faulted"} /\ UNCHANGED vars

Next ==
  \/ init_alloc
  \/ cleanup
  \/ \E size \in Requests : alloc(size) \/ alloc_faults(size)
  \/ \E b \in live : dealloc(b)
  \/ Ended

Spec == Init /\ [][Next]_vars
-----------------------------------------------------------------------------
(* Properties                                                              *)

(* The variables keep their types.                                         *)
TypeOK ==
  /\ page \in {"none", "mapped", "exited", "faulted"}
  /\ mem \in [Words -> 0 .. Granules]
  /\ live \subseteq [at : 0 .. PAGESIZE, len : 0 .. Granules]

(* A careful client is never handed memory outside the page ("is there    *)
(* room for size", alloc.c:43).                                            *)
Inside == \A b \in live : b.at + b.len <= Granules
InPage == careful => Inside

(* No two blocks the client holds share a granule, and neither does the    *)
(* block alloc would return next with any of them: alloc does not give a   *)
(* granule out twice nor does dealloc free one of another block, not even  *)
(* for a client that asks when there is no room, whose blocks lie behind   *)
(* the page and under mem_offset.  A client that asks for 0 bytes is left  *)
(* out: it gets a block of no granule where another may start, and frees   *)
(* that one when it gives its own back (Alloc_zero.cfg).                   *)
Disjoint(b, c) == Cells(b) \cap Cells(c) = {}
Apart == \A b1, b2 \in live : b1 # b2 => Disjoint(b1, b2)
NextApart ==
  page = "mapped" =>
    \A size \in Requests : \A b \in Returned(size), c \in live : Disjoint(b, c)
NoOverlap == careful \/ 0 \notin Requests => Apart /\ NextApart

(* The granules marked in use are those of the blocks held: none leaks,    *)
(* although dealloc leaves stale lengths behind in mem_offset.             *)
NoLeak ==
  careful /\ page = "mapped" =>
    \A i \in 0 .. Granules - 1 :
      mem_alloc(i) = IF \E b \in live : i \in Cells(b) THEN 1 ELSE 0

(* mem_offset is "the array that records the sizes allocated" (alloc.h:12):*)
(* for every block held it has the block's own length.                     *)
SizeRecorded == \A b \in live : mem_offset(b.at) = b.len

(* The counting loop finds, for every length, the first place where that   *)
(* many free granules end.                                                 *)
FirstFit ==
  \A len \in -1 .. Granules :
    \A i \in Scanned :
      (count(len)[i] = 0 /\ \A h \in 0 .. i - 1 : count(len)[h] # 0)
        <=> FirstStop(len, i)

(* For a client that asks only for what fits, alloc and dealloc are the    *)
(* block allocator of PageBlocks.                                          *)
Blocks == INSTANCE PageBlocks WITH open <- careful /\ page = "mapped",
                                   blocks <- IF careful THEN live ELSE {}
BlocksSpec == Blocks!Spec
=============================================================================
