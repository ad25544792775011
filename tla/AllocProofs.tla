---------------------------- MODULE AllocProofs -----------------------------
(***************************************************************************)
(* Theorems about Alloc, for every page size and granule size: what a      *)
(* careful client, one that asks only for what fits, may rely on, and what *)
(* any client may that does not ask for 0 bytes.                           *)
(***************************************************************************)
EXTENDS Alloc, WellFoundedInduction, TLAPS

(* The blocks held are sound, and there are none without a page.  A        *)
(* careful client never makes alloc scan past the page, so it never faults.*)
Held ==
  /\ page # "mapped" => live = {}
  /\ page # "faulted"
  /\ \A b \in live : b.len >= 1

AllocInv == TypeOK /\ Held /\ InPage /\ Apart /\ NoLeak /\ SizeRecorded

(* The client does not change; for one that asks for anything see Marked.  *)
CarefulInv == careful \in Clients /\ (careful => AllocInv)

LEMMA AllocInit == Init => AllocInv
BY PageAssumption
   DEF Init, AllocInv, TypeOK, Held, InPage, Inside, Apart, NoLeak, SizeRecorded,
       Words, PAGESIZE

LEMMA PageIndices ==
  /\ PAGESIZE \in Nat
  /\ PAGESIZE >= Granules + Granules
BY PageAssumption DEF PAGESIZE

(* For a careful client the scan ends at the end of a gap inside the page. *)
LEMMA ScanInPage ==
  ASSUME AllocInv, page = "mapped", careful,
         NEW len \in Int, len > 0, Fits(len)
  PROVE  \E e \in 0 .. Granules - 1 : Stop(len, e)
<1> USE PageAssumption, PageIndices
<1>1. PICK at \in 0 .. Granules - len :
        \A b \in live : Cells(b) \cap (at .. at + len - 1) = {}
  BY DEF Fits
<1>2. \A j \in at .. at + len - 1 :
        j \in 0 .. Granules - 1 /\ ~\E b \in live : j \in Cells(b)
  BY <1>1
<1>3. \A j \in at .. at + len - 1 : mem_alloc(j) = 0
  BY <1>2 DEF AllocInv, NoLeak
<1>4. Stop(len, at + len - 1)
  BY <1>3 DEF Stop
<1> QED
  BY <1>4

LEMMA AllocStep ==
  ASSUME AllocInv, careful, NEW size \in Int, alloc(size)
  PROVE  AllocInv'
<1> USE PageAssumption, PageIndices
<1> DEFINE len == size \div MINALLOC
<1>1. CASE UNCHANGED vars
  BY <1>1 DEF vars, AllocInv, TypeOK, Held, InPage, Inside, Apart, NoLeak,
              SizeRecorded, mem_alloc, mem_offset
<1>2. ASSUME size % MINALLOC = 0, size <= PAGESIZE,
             NEW i \in Scanned, FirstStop(len, i),
             mem' = Taken(First(len, i), len),
             live' = live \cup {[at |-> First(len, i), len |-> len]},
             page' = page
      PROVE  AllocInv'
  <2> DEFINE at == i - len + 1
  <2> DEFINE new == [at |-> at, len |-> len]
  <2>1. len \in Int /\ len > 0 /\ Fits(len) /\ page = "mapped"
    BY <1>2 DEF alloc, MayAsk
  <2>2. i < Granules
    <3>1. PICK e \in 0 .. Granules - 1 : Stop(len, e)
      BY <2>1, ScanInPage
    <3>2. ~(e < i)
      BY <1>2, <3>1 DEF FirstStop, Scanned
    <3> QED BY <3>1, <3>2, <1>2 DEF Scanned
  <2> HIDE DEF len
  <2>3. /\ i \in Nat
        /\ at \in 0 .. Granules - 1
        /\ at + len = i + 1
        /\ \A j \in at .. i : mem_alloc(j) = 0
        /\ len \in 1 .. Granules
    BY <1>2, <2>1, <2>2 DEF FirstStop, Stop, Scanned
  <2>4. live' = live \cup {new} /\ Cells(new) = at .. i
    BY <1>2, <2>3 DEF First, Cells
  <2>5. \A w \in Words : mem'[w] = IF w = Granules + at THEN len
                                   ELSE IF w \in at .. i THEN 1 ELSE mem[w]
    BY <1>2, <2>3 DEF First, Taken
  <2>6. \A j \in 0 .. Granules - 1 :
          /\ j \in Words /\ Granules + j \in Words
          /\ mem'[j] = IF j \in at .. i THEN 1 ELSE mem[j]
          /\ mem'[Granules + j] = IF j = at THEN len ELSE mem[Granules + j]
    BY <2>2, <2>3, <2>5 DEF Words
  <2>7. \A b \in live : Cells(b) \cap (at .. i) = {}
    <3>1. \A j \in at .. i : ~\E b \in live : j \in Cells(b)
      <4>1. \A j \in at .. i : j \in 0 .. Granules - 1
        BY <2>2, <2>3
      <4> QED BY <2>1, <2>3, <4>1 DEF AllocInv, NoLeak
    <3> QED BY <3>1
  <2>8. \A b \in live : b.at # at /\ b.at \in 0 .. Granules - 1
    <3> SUFFICES ASSUME NEW b \in live
                 PROVE  b.at # at /\ b.at \in 0 .. Granules - 1
      OBVIOUS
    <3>1. b.at \in Nat /\ b.len \in Nat /\ b.len >= 1 /\ b.at + b.len <= Granules
      BY DEF AllocInv, TypeOK, Held, InPage, Inside
    <3>2. b.at \in Cells(b)
      BY <3>1 DEF Cells
    <3>3. at \in at .. i
      BY <2>3
    <3> QED BY <3>1, <3>2, <3>3, <2>7
  <2>9. TypeOK'
    <3>1. mem' \in [Words -> 0 .. Granules]
      <4>1. \A w \in Words : mem[w] \in 0 .. Granules
        BY DEF AllocInv, TypeOK
      <4>2. mem' = [w \in Words |-> IF w = Granules + First(len, i) THEN len
                      ELSE IF w \in First(len, i) .. First(len, i) + len - 1
                             THEN 1 ELSE mem[w]]
        BY <1>2 DEF Taken
      <4> QED BY <2>3, <4>1, <4>2
    <3>2. new \in [at : 0 .. PAGESIZE, len : 0 .. Granules]
      BY <2>3
    <3> QED BY <1>2, <2>4, <3>1, <3>2 DEF AllocInv, TypeOK
  <2>10. Held'
    BY <1>2, <2>1, <2>3, <2>4 DEF AllocInv, Held
  <2>11. InPage'
    BY <2>2, <2>3, <2>4 DEF AllocInv, InPage, Inside
  <2>12. Apart'
    BY <2>4, <2>7 DEF AllocInv, Apart, Disjoint
  <2>13. NoLeak'
    BY <2>1, <2>4, <2>6, <1>2 DEF AllocInv, NoLeak, mem_alloc
  <2>14. SizeRecorded'
    BY <2>3, <2>4, <2>6, <2>8 DEF AllocInv, SizeRecorded, mem_offset
  <2> QED
    BY <2>9, <2>10, <2>11, <2>12, <2>13, <2>14 DEF AllocInv
<1>3. ASSUME NEW b \in Returned(size), mem' = Taken(b.at, b.len),
             live' = live \cup {b}, page' = page
      PROVE  AllocInv'
  <2>1. PICK i \in Scanned : /\ size % MINALLOC = 0 /\ size <= PAGESIZE
                            /\ FirstStop(len, i)
                            /\ b = [at |-> First(len, i), len |-> len]
    BY <1>3 DEF Returned
  <2>2. b.at = First(len, i) /\ b.len = len
    BY <2>1
  <2> QED
    BY <1>2, <1>3, <2>1, <2>2
<1> QED
  BY <1>1, <1>3 DEF alloc

LEMMA NoFault ==
  ASSUME AllocInv, careful, NEW size \in Int
  PROVE  ~alloc_faults(size)
<1> SUFFICES ASSUME alloc_faults(size)
             PROVE  FALSE
  OBVIOUS
<1> USE PageAssumption, PageIndices
<1> DEFINE len == size \div MINALLOC
<1>1. len \in Int /\ len > 0 /\ Fits(len) /\ page = "mapped"
  BY DEF alloc_faults, MayAsk
<1>2. PICK e \in 0 .. Granules - 1 : Stop(len, e)
  BY <1>1, ScanInPage
<1>3. e \in Scanned /\ InStruct(e)
  BY DEF Scanned, InStruct
<1> QED
  BY <1>2, <1>3 DEF alloc_faults

LEMMA DeallocStep ==
  ASSUME AllocInv, careful, NEW b \in live, dealloc(b)
  PROVE  AllocInv'
<1> USE PageAssumption, PageIndices
<1>1. /\ b.at \in 0 .. Granules - 1
      /\ b.len \in 1 .. Granules
      /\ b.at + b.len <= Granules
  BY DEF AllocInv, TypeOK, Held, InPage, Inside
<1>2. mem_offset(b.at) = b.len
  BY DEF AllocInv, SizeRecorded
<1>3. /\ mem' = [w \in Words |-> IF w \in Cells(b) THEN 0 ELSE mem[w]]
      /\ live' = live \ {b}
      /\ page' = page /\ page = "mapped"
  BY <1>2 DEF dealloc, Freed, Cells
<1>4. \A j \in 0 .. Granules - 1 :
        /\ j \in Words /\ Granules + j \in Words
        /\ mem'[j] = IF j \in Cells(b) THEN 0 ELSE mem[j]
        /\ mem'[Granules + j] = mem[Granules + j]
  BY <1>1, <1>3 DEF Words, Cells
<1>5. TypeOK'
  BY <1>3 DEF AllocInv, TypeOK
<1>6. Held' /\ InPage' /\ Apart'
  BY <1>3 DEF AllocInv, Held, InPage, Inside, Apart
<1>7. NoLeak'
  <2>1. \A j \in Cells(b) : ~\E c \in live' : j \in Cells(c)
    BY <1>3 DEF AllocInv, Apart, Disjoint
  <2>2. \A j : j \notin Cells(b) =>
          ((\E c \in live' : j \in Cells(c)) <=> (\E c \in live : j \in Cells(c)))
    BY <1>3
  <2> QED
    BY <1>3, <1>4, <2>1, <2>2 DEF AllocInv, NoLeak, mem_alloc
<1>8. SizeRecorded'
  <2>1. \A c \in live : c.at \in 0 .. Granules - 1
    BY DEF AllocInv, TypeOK, Held, InPage, Inside
  <2> QED
    BY <1>3, <1>4, <2>1 DEF AllocInv, SizeRecorded, mem_offset
<1> QED
  BY <1>5, <1>6, <1>7, <1>8 DEF AllocInv

LEMMA ClientStays ==
  ASSUME [Next]_vars
  PROVE  UNCHANGED careful
BY DEF Next, vars, init_alloc, cleanup, alloc, alloc_faults, dealloc, Ended

LEMMA AllocInvStep ==
  ASSUME careful
  PROVE  AllocInv /\ [Next]_vars => AllocInv'
<1> SUFFICES ASSUME AllocInv, [Next]_vars
             PROVE  AllocInv'
  OBVIOUS
<1> USE PageAssumption, PageIndices
<1>1. CASE init_alloc
  <2>1. mem' \in [Words -> 0 .. Granules]
    BY <1>1 DEF init_alloc, AllocInv, TypeOK
  <2>2. page' = "mapped" => \A j \in 0 .. Granules - 1 : mem'[j] = 0
    BY <1>1 DEF init_alloc, Words, InStruct
  <2> QED
    BY <1>1, <2>1, <2>2 DEF init_alloc, AllocInv, TypeOK, Held, InPage, Inside,
                            Apart, NoLeak, SizeRecorded, mem_alloc
<1>2. CASE cleanup
  BY <1>2 DEF cleanup, AllocInv, TypeOK, Held, InPage, Inside, Apart, NoLeak,
              SizeRecorded
<1>3. ASSUME NEW size \in Requests, alloc(size) \/ alloc_faults(size)
      PROVE  AllocInv'
  BY <1>3, AllocStep, NoFault
<1>4. ASSUME NEW b \in live, dealloc(b)
      PROVE  AllocInv'
  BY <1>4, DeallocStep
<1>5. CASE UNCHANGED vars
  BY <1>5 DEF vars, AllocInv, TypeOK, Held, InPage, Inside, Apart, NoLeak,
              SizeRecorded, mem_alloc, mem_offset
<1> QED
  BY <1>1, <1>2, <1>3, <1>4, <1>5 DEF Next, Ended

LEMMA AllocInvariant == Spec => []CarefulInv
<1>1. Init => CarefulInv
  BY AllocInit DEF Init, CarefulInv
<1>2. CarefulInv /\ [Next]_vars => CarefulInv'
  BY AllocInvStep, ClientStays DEF CarefulInv
<1> QED
  BY <1>1, <1>2, PTL DEF Spec

(* A careful client only gets memory inside the page ...                   *)
THEOREM InPageHolds == Spec => []InPage
<1>1. CarefulInv => InPage
  BY DEF CarefulInv, AllocInv, InPage, Inside
<1> QED
  BY <1>1, AllocInvariant, PTL

(* ... and every granule it gives back can be had again.                   *)
THEOREM NoLeakHolds == Spec => []NoLeak
<1>1. CarefulInv => NoLeak
  BY DEF CarefulInv, AllocInv, NoLeak
<1> QED
  BY <1>1, AllocInvariant, PTL

-----------------------------------------------------------------------------
(* What any client may rely on that does not ask for 0 bytes, although its *)
(* blocks may lie behind the page, where marking a granule overwrites a    *)
(* recorded length: the granules of the blocks held are marked, and no     *)
(* more of a block is freed than its own length.                           *)
Asks == careful \/ 0 \notin Requests

Marked ==
  \A b \in live :
    /\ b.len >= 1
    /\ Cells(b) \subseteq Scanned
    /\ mem_offset(b.at) <= b.len
    /\ \A j \in Cells(b) : mem_alloc(j) # 0

MarkedInv == TypeOK /\ Apart /\ Marked

(* What alloc returns is free, and where it can be marked and recorded.    *)
LEMMA ReturnedFree ==
  ASSUME Asks, TypeOK, NEW size \in Requests, MayAsk(size), NEW b \in Returned(size)
  PROVE  /\ b.at \in Nat /\ b.len \in 1 .. Granules
         /\ b.at + b.len <= PAGESIZE
         /\ b = [at |-> b.at, len |-> b.len]
         /\ \A j \in Cells(b) : mem_alloc(j) = 0
<1> USE PageAssumption, PageIndices
<1> DEFINE len == size \div MINALLOC
<1>1. PICK i \in Scanned : /\ size % MINALLOC = 0 /\ size <= PAGESIZE
                          /\ FirstStop(len, i)
                          /\ b = [at |-> First(len, i), len |-> len]
  BY DEF Returned
<1>2. size \in Int /\ len \in Int /\ len >= 0 /\ size = MINALLOC * len
  BY <1>1 DEF FirstStop, Stop
<1>3. len # 0
  BY <1>1, <1>2 DEF Asks, MayAsk
<1>4. len <= Granules
  BY <1>1, <1>2 DEF PAGESIZE
<1> HIDE DEF len
<1>5. i \in Nat /\ i <= PAGESIZE - 1 /\ len <= i + 1
      /\ \A j \in i - len + 1 .. i : mem_alloc(j) = 0
  BY <1>1, <1>2, <1>3 DEF FirstStop, Stop, Scanned
<1> QED
  BY <1>1, <1>2, <1>3, <1>4, <1>5 DEF First, Cells

(* What alloc would return is free even when the client does not ask.      *)
LEMMA ReturnedCells ==
  ASSUME NEW size \in Requests, NEW b \in Returned(size), NEW j \in Cells(b)
  PROVE  mem_alloc(j) = 0
<1> USE PageAssumption, PageIndices
<1> DEFINE len == size \div MINALLOC
<1>1. PICK i \in Scanned : FirstStop(len, i) /\ b = [at |-> First(len, i), len |-> len]
  BY DEF Returned
<1>2. len \in Int /\ i \in Int
  BY DEF Scanned
<1> HIDE DEF len
<1>3. j \in i - len + 1 .. i
  BY <1>1, <1>2 DEF First, Cells
<1>4. len > 0
  BY <1>2, <1>3
<1> QED
  BY <1>1, <1>3, <1>4 DEF FirstStop, Stop

LEMMA MarkedTake ==
  ASSUME Asks, MarkedInv, NEW size \in Requests, alloc(size)
  PROVE  MarkedInv'
<1> USE PageAssumption, PageIndices
<1>1. CASE UNCHANGED vars
  BY <1>1 DEF vars, MarkedInv, TypeOK, Apart, Marked, mem_alloc, mem_offset
<1>2. ASSUME NEW b \in Returned(size), mem' = Taken(b.at, b.len),
             live' = live \cup {b}, UNCHANGED <<page, careful>>
      PROVE  MarkedInv'
  <2>1. /\ b.at \in Nat /\ b.len \in 1 .. Granules
        /\ b.at + b.len <= PAGESIZE
        /\ b = [at |-> b.at, len |-> b.len]
        /\ \A j \in Cells(b) : mem_alloc(j) = 0
    BY ReturnedFree DEF alloc, MarkedInv
  <2>2. Cells(b) = b.at .. b.at + b.len - 1 /\ Cells(b) \subseteq Scanned
    BY <2>1 DEF Cells, Scanned
  <2>3. \A w \in Words : mem'[w] = IF w = Granules + b.at THEN b.len
                                   ELSE IF w \in Cells(b) THEN 1 ELSE mem[w]
    BY <1>2, <2>2 DEF Taken
  <2>4. \A c \in live : Disjoint(b, c)
    BY <2>1 DEF MarkedInv, Marked, Disjoint
  <2>5. \A c \in live : c.at \in Cells(c) /\ c.at \in Nat /\ c.len \in Nat /\ c.at <= PAGESIZE
    BY DEF MarkedInv, TypeOK, Marked, Cells
  <2>6. b.at \in Cells(b)
    BY <2>1, <2>2
  <2>7. TypeOK'
    <3>1. mem' \in [Words -> 0 .. Granules]
      <4>1. \A w \in Words : mem[w] \in 0 .. Granules
        BY DEF MarkedInv, TypeOK
      <4> QED BY <1>2, <2>1, <4>1 DEF Taken
    <3>2. b \in [at : 0 .. PAGESIZE, len : 0 .. Granules]
      BY <2>1
    <3> QED BY <1>2, <3>1, <3>2 DEF MarkedInv, TypeOK
  <2>8. Apart'
    BY <1>2, <2>4 DEF MarkedInv, Apart, Disjoint, Cells
  <2>9. Marked'
    <3> SUFFICES ASSUME NEW c \in live'
                 PROVE  /\ c.len >= 1
                        /\ Cells(c) \subseteq Scanned
                        /\ mem'[Granules + c.at] <= c.len
                        /\ \A j \in Cells(c) : mem'[j] # 0
      BY DEF Marked, Cells, mem_alloc, mem_offset
    <3>1. /\ Scanned \subseteq Words
          /\ \A n \in 0 .. PAGESIZE : Granules + n \in Words
      BY DEF Scanned, Words
    <3>2. CASE c = b
      BY <2>1, <2>2, <2>3, <3>1, <3>2
    <3>3. CASE c \in live
      <4>1. /\ c.len >= 1 /\ Cells(c) \subseteq Scanned
            /\ mem[Granules + c.at] <= c.len
            /\ \A j \in Cells(c) : mem[j] # 0
        BY <3>3 DEF MarkedInv, Marked, mem_alloc, mem_offset
      <4>2. c.at # b.at
        BY <2>4, <2>5, <2>6, <3>3 DEF Disjoint
      <4>3. mem'[Granules + c.at] \in {1, mem[Granules + c.at]}
        <5>1. Granules + c.at \in Words /\ Granules + c.at # Granules + b.at
          BY <2>1, <2>5, <3>1, <3>3, <4>2
        <5> QED BY <2>3, <5>1
      <4>4. \A j \in Cells(c) : mem'[j] # 0
        BY <2>1, <2>3, <3>1, <4>1
      <4> QED BY <4>1, <4>3, <4>4
    <3> QED BY <1>2, <3>2, <3>3
  <2> QED
    BY <2>7, <2>8, <2>9 DEF MarkedInv
<1> QED
  BY <1>1, <1>2 DEF alloc

LEMMA MarkedGiveBack ==
  ASSUME MarkedInv, NEW b \in live, dealloc(b)
  PROVE  MarkedInv'
<1> USE PageAssumption, PageIndices
<1>1. /\ b.at \in Nat /\ b.len \in Nat
      /\ Granules + b.at \in Words
      /\ mem_offset(b.at) \in Nat /\ mem_offset(b.at) <= b.len
  BY DEF MarkedInv, TypeOK, Marked, mem_offset, Words
<1>2. b.at .. b.at + mem_offset(b.at) - 1 \subseteq Cells(b)
  BY <1>1 DEF Cells
<1>3. mem' \in [Words -> 0 .. Granules]
  BY DEF dealloc, Freed, MarkedInv, TypeOK
<1>4. \A w \in Words : mem'[w] = mem[w] \/ (mem'[w] = 0 /\ w \in Cells(b))
  BY <1>2 DEF dealloc, Freed
<1>5. TypeOK' /\ Apart'
  BY <1>3 DEF dealloc, MarkedInv, TypeOK, Apart, Disjoint, Cells
<1>6. Marked'
  <2> SUFFICES ASSUME NEW c \in live, c # b
               PROVE  /\ c.len >= 1
                      /\ Cells(c) \subseteq Scanned
                      /\ mem'[Granules + c.at] <= c.len
                      /\ \A j \in Cells(c) : mem'[j] # 0
    BY DEF dealloc, Marked, Cells, mem_alloc, mem_offset
  <2>1. /\ c.len >= 1 /\ Cells(c) \subseteq Scanned
        /\ mem[Granules + c.at] <= c.len
        /\ \A j \in Cells(c) : mem[j] # 0
        /\ Granules + c.at \in Words /\ c.len \in Nat
    BY DEF MarkedInv, TypeOK, Marked, mem_alloc, mem_offset, Words
  <2>2. Scanned \subseteq Words
    BY DEF Scanned, Words
  <2>3. Cells(c) \cap Cells(b) = {}
    BY DEF MarkedInv, Apart, Disjoint
  <2>4. mem'[Granules + c.at] \in {0, mem[Granules + c.at]}
    BY <1>4, <2>1
  <2>5. \A j \in Cells(c) : mem'[j] # 0
    BY <1>4, <2>1, <2>2, <2>3
  <2> QED
    BY <2>1, <2>4, <2>5
<1> QED
  BY <1>5, <1>6 DEF MarkedInv

LEMMA MarkedStep == Asks /\ MarkedInv /\ [Next]_vars => MarkedInv'
<1> SUFFICES ASSUME Asks, MarkedInv, [Next]_vars
             PROVE  MarkedInv'
  OBVIOUS
<1> USE PageAssumption, PageIndices
<1>1. CASE init_alloc
  <2>1. mem' \in [Words -> 0 .. Granules] /\ live' = {}
    BY <1>1 DEF init_alloc, MarkedInv, TypeOK
  <2> QED
    BY <1>1, <2>1 DEF init_alloc, MarkedInv, TypeOK, Apart, Marked
<1>2. CASE cleanup
  BY <1>2 DEF cleanup, MarkedInv, TypeOK, Apart, Marked
<1>3. ASSUME NEW size \in Requests, alloc(size)
      PROVE  MarkedInv'
  BY <1>3, MarkedTake
<1>4. ASSUME NEW size \in Requests, alloc_faults(size)
      PROVE  MarkedInv'
  BY <1>4 DEF alloc_faults, MarkedInv, TypeOK, Apart, Marked, mem_alloc, mem_offset
<1>5. ASSUME NEW b \in live, dealloc(b)
      PROVE  MarkedInv'
  BY <1>5, MarkedGiveBack
<1>6. CASE UNCHANGED vars
  BY <1>6 DEF vars, MarkedInv, TypeOK, Apart, Marked, mem_alloc, mem_offset
<1> QED
  BY <1>1, <1>2, <1>3, <1>4, <1>5, <1>6 DEF Next, Ended

(* No granule is handed out twice: neither to a careful client nor to one  *)
(* that asks for anything but 0 bytes.                                     *)
THEOREM NoOverlapHolds == Spec => []NoOverlap
<1> DEFINE Inv == Asks => MarkedInv
<1>1. Init => Inv
  BY AllocInit DEF Init, AllocInv, MarkedInv, Marked
<1>2. Inv /\ [Next]_vars => Inv'
  BY MarkedStep, ClientStays DEF Asks
<1>3. Inv => NoOverlap
  <2> SUFFICES ASSUME Asks, MarkedInv
               PROVE  Apart /\ NextApart
    BY DEF NoOverlap, Asks
  <2>1. ASSUME NEW size \in Requests, NEW b \in Returned(size), NEW c \in live
        PROVE  Disjoint(b, c)
    BY ReturnedCells DEF MarkedInv, Marked, Disjoint
  <2> QED
    BY <2>1 DEF MarkedInv, NextApart
<1> QED
  BY <1>1, <1>2, <1>3, PTL DEF Spec

-----------------------------------------------------------------------------
(* The refinement of PageBlocks.                                           *)

LEMMA UsedCells ==
  ASSUME AllocInv, careful, page = "mapped", NEW j \in 0 .. Granules - 1
  PROVE  mem_alloc(j) = 0 <=> j \notin Blocks!Used
BY DEF AllocInv, NoLeak, Cells, Blocks!Used, Blocks!Cells

LEMMA TakeStep ==
  ASSUME AllocInv, careful, NEW size \in Int, alloc(size)
  PROVE  Blocks!Take \/ UNCHANGED Blocks!vars
<1> USE PageAssumption, PageIndices
<1> DEFINE len == size \div MINALLOC
<1>1. CASE UNCHANGED vars
  BY <1>1 DEF vars, Blocks!vars
<1>2. ASSUME size % MINALLOC = 0, size <= PAGESIZE,
             NEW i \in Scanned, FirstStop(len, i),
             live' = live \cup {[at |-> First(len, i), len |-> len]},
             page' = page, careful' = careful
      PROVE  Blocks!Take
  <2> DEFINE at == i - len + 1
  <2>1. len \in Int /\ len > 0 /\ Fits(len) /\ page = "mapped"
    BY <1>2 DEF alloc, MayAsk
  <2>2. PICK e \in 0 .. Granules - 1 : Stop(len, e)
    BY <2>1, ScanInPage
  <2>3. i \in 0 .. Granules - 1
    BY <1>2, <2>2 DEF FirstStop, Scanned
  <2> HIDE DEF len
  <2>4. /\ at \in 0 .. Granules - 1
        /\ len \in 1 .. Granules
        /\ at + len = i + 1
        /\ \A j \in at .. i : mem_alloc(j) = 0
    BY <1>2, <2>1, <2>3 DEF FirstStop, Stop
  <2>5. Blocks!Gap(at, len)
    <3>1. \A j \in at .. at + len - 1 : j \notin Blocks!Used
      BY <2>1, <2>3, <2>4, UsedCells
    <3> QED BY <2>3, <2>4, <3>1 DEF Blocks!Gap
  <2>6. ASSUME NEW lower \in 0 .. at - 1, Blocks!Gap(lower, len)
        PROVE  FALSE
    <3>1. /\ lower + len - 1 \in 0 .. i - 1
          /\ lower + len <= Granules
      BY <2>3, <2>4
    <3>2. \A j \in lower .. lower + len - 1 : mem_alloc(j) = 0
      BY <2>1, <2>3, <2>4, <2>6, <3>1, UsedCells DEF Blocks!Gap
    <3>3. Stop(len, lower + len - 1)
      BY <2>4, <3>1, <3>2 DEF Stop
    <3> QED BY <1>2, <3>1, <3>3 DEF FirstStop
  <2>7. live' = live \cup {[at |-> at, len |-> len]}
    BY <1>2 DEF First
  <2>8. (careful /\ page = "mapped")' = (careful /\ page = "mapped")
    BY <1>2
  <2>9. (IF careful THEN live ELSE {})' =
          (IF careful THEN live ELSE {}) \cup {[at |-> at, len |-> len]}
    BY <1>2, <2>7
  <2> QED
    BY <2>1, <2>4, <2>5, <2>6, <2>8, <2>9 DEF Blocks!Take
<1> QED
  BY <1>1, <1>2 DEF alloc, Returned

LEMMA BlocksStep ==
  ASSUME careful
  PROVE  AllocInv /\ [Next]_vars => [Blocks!Next]_(Blocks!vars)
<1> SUFFICES ASSUME AllocInv, [Next]_vars
             PROVE  Blocks!Next \/ UNCHANGED Blocks!vars
  OBVIOUS
<1> USE PageAssumption
<1>1. CASE init_alloc
  BY <1>1 DEF init_alloc, AllocInv, Held, Blocks!Next, Blocks!Open, Blocks!vars
<1>2. CASE cleanup
  BY <1>2 DEF cleanup, Blocks!Next, Blocks!Close
<1>3. ASSUME NEW size \in Requests, alloc(size) \/ alloc_faults(size)
      PROVE  Blocks!Next \/ UNCHANGED Blocks!vars
  BY <1>3, TakeStep, NoFault DEF Blocks!Next
<1>4. ASSUME NEW b \in live, dealloc(b)
      PROVE  Blocks!GiveBack
  BY <1>4 DEF dealloc, Blocks!GiveBack
<1>5. CASE UNCHANGED vars
  BY <1>5 DEF vars, Blocks!vars
<1> QED
  BY <1>1, <1>2, <1>3, <1>4, <1>5 DEF Next, Ended, Blocks!Next

(* For a careful client the bitmap and the size table implement the first- *)
(* fit block allocator.                                                    *)
THEOREM BlocksRefined == Spec => BlocksSpec
<1>1. Init => Blocks!Init
  BY DEF Init, Blocks!Init
<1>2. CarefulInv /\ [Next]_vars => [Blocks!Next]_(Blocks!vars)
  <2>1. CASE careful
    BY <2>1, BlocksStep DEF CarefulInv
  <2>2. CASE ~careful
    BY <2>2, ClientStays DEF Blocks!vars
  <2> QED BY <2>1, <2>2
<1> QED
  BY <1>1, <1>2, AllocInvariant, PTL DEF Spec, BlocksSpec, Blocks!Spec

-----------------------------------------------------------------------------
(* The scan of alloc: what its loop counts.                                *)
LEMMA LeastOf ==
  ASSUME NEW S \in SUBSET Nat, S # {}
  PROVE  \E n \in S : \A m \in S : n <= m
<1>1. PICK n \in S : \A m \in S : ~(<<m, n>> \in OpToRel(<, Nat))
  BY WFMin, NatLessThanWellFounded
<1>2. \A m \in S : ~(m < n)
  BY <1>1 DEF OpToRel
<1>3. n \in S /\ \A m \in S : n <= m
  BY <1>2
<1> QED
  BY <1>3

(* r free granules end at i, and no more than these.                       *)
IsRun(i, r) ==
  /\ \A j \in i - r + 1 .. i : mem_alloc(j) = 0
  /\ r <= i => mem_alloc(i - r) # 0

Run(i) == CHOOSE r \in 0 .. i + 1 : IsRun(i, r)

LEMMA RunFound ==
  ASSUME NEW i \in Nat
  PROVE  Run(i) \in 0 .. i + 1 /\ IsRun(i, Run(i))
<1> DEFINE S == {r \in 0 .. i + 1 : r <= i => mem_alloc(i - r) # 0}
<1>1. i + 1 \in S /\ S \in SUBSET Nat
  OBVIOUS
<1>2. PICK r \in S : \A s \in S : r <= s
  BY <1>1, LeastOf
<1>3. ASSUME NEW j \in i - r + 1 .. i
      PROVE  mem_alloc(j) = 0
  <2>1. i - j \in 0 .. i + 1 /\ i - j <= i /\ i - (i - j) = j /\ ~(r <= i - j)
    BY <1>2
  <2>2. i - j \notin S
    BY <1>2, <2>1
  <2> QED
    BY <2>1, <2>2
<1>4. r \in 0 .. i + 1 /\ IsRun(i, r)
  BY <1>2, <1>3 DEF IsRun
<1> QED
  BY <1>4 DEF Run

LEMMA RunOnly ==
  ASSUME NEW i \in Nat, NEW r \in 0 .. i + 1, IsRun(i, r)
  PROVE  Run(i) = r
<1> DEFINE s == Run(i)
<1>1. s \in 0 .. i + 1 /\ IsRun(i, s)
  BY RunFound
<1> HIDE DEF s
<1>2. ~(r < s)
  <2> SUFFICES ASSUME r < s PROVE FALSE
    OBVIOUS
  <2>1. i - r \in i - s + 1 .. i /\ r <= i
    BY <1>1
  <2> QED
    BY <1>1, <2>1 DEF IsRun
<1>3. ~(s < r)
  <2> SUFFICES ASSUME s < r PROVE FALSE
    OBVIOUS
  <2>1. i - s \in i - r + 1 .. i /\ s <= i
    BY <1>1
  <2> QED
    BY <1>1, <2>1 DEF IsRun
<1> QED
  BY <1>1, <1>2, <1>3 DEF s

LEMMA RunGrows ==
  ASSUME NEW i \in Nat
  PROVE  /\ mem_alloc(i) # 0 => Run(i) = 0
         /\ mem_alloc(i) = 0 /\ i = 0 => Run(i) = 1
         /\ mem_alloc(i) = 0 /\ i # 0 => Run(i) = Run(i - 1) + 1
<1>1. ASSUME mem_alloc(i) # 0
      PROVE  Run(i) = 0
  <2>1. IsRun(i, 0)
    BY <1>1 DEF IsRun
  <2> QED
    BY <2>1, RunOnly
<1>2. ASSUME mem_alloc(i) = 0, i = 0
      PROVE  Run(i) = 1
  <2>1. IsRun(i, 1)
    BY <1>2 DEF IsRun
  <2> QED
    BY <2>1, <1>2, RunOnly
<1>3. ASSUME mem_alloc(i) = 0, i # 0
      PROVE  Run(i) = Run(i - 1) + 1
  <2> DEFINE r == Run(i - 1)
  <2>1. i - 1 \in Nat
    BY <1>3
  <2>2. r \in 0 .. (i - 1) + 1 /\ IsRun(i - 1, r)
    BY <2>1, RunFound
  <2> HIDE DEF r
  <2>3. r + 1 \in 0 .. i + 1
    BY <2>2
  <2>4. \A j \in i - (r + 1) + 1 .. i : mem_alloc(j) = 0
    <3> TAKE j \in i - (r + 1) + 1 .. i
    <3>1. j = i \/ j \in (i - 1) - r + 1 .. i - 1
      BY <2>2
    <3> QED
      BY <1>3, <2>2, <3>1 DEF IsRun
  <2>5. r + 1 <= i => mem_alloc(i - (r + 1)) # 0
    <3> SUFFICES ASSUME r + 1 <= i PROVE mem_alloc(i - (r + 1)) # 0
      OBVIOUS
    <3>1. r <= i - 1 /\ i - (r + 1) = (i - 1) - r
      BY <2>2
    <3> QED
      BY <2>2, <3>1 DEF IsRun
  <2>6. IsRun(i, r + 1)
    BY <2>4, <2>5 DEF IsRun
  <2> QED
    BY <2>3, <2>6, RunOnly DEF r
<1> QED
  BY <1>1, <1>2, <1>3

(* The loop has one result, and it is the length asked for less the free   *)
(* granules that end here.                                                 *)
Looped(f, len) ==
  [i \in Scanned |-> IF mem_alloc(i) = 0 THEN (IF i = 0 THEN len ELSE f[i - 1]) - 1
                                         ELSE len]

LEMMA Counts ==
  ASSUME NEW len \in Int, NEW i \in Scanned
  PROVE  count(len)[i] = len - Run(i)
<1> DEFINE g == [j \in Scanned |-> len - Run(j)]
           f == count(len)
<1>1. Scanned \subseteq Nat /\ \A j \in Scanned : j # 0 => j - 1 \in Scanned
  BY PageIndices DEF Scanned
<1>2. g = Looped(g, len)
  <2>1. ASSUME NEW j \in Scanned
        PROVE  g[j] = IF mem_alloc(j) = 0 THEN (IF j = 0 THEN len ELSE g[j - 1]) - 1 ELSE len
    <3>1. j \in Nat /\ Run(j) \in Nat /\ (j # 0 => j - 1 \in Scanned /\ Run(j - 1) \in Nat)
      BY <1>1, RunFound
    <3> QED
      BY <1>1, <3>1, RunGrows
  <2> QED
    BY <2>1 DEF Looped
<1>3. f = CHOOSE h : h = Looped(h, len)
  BY DEF count, Looped
<1>4. f = Looped(f, len)
  BY <1>2, <1>3
<1> HIDE DEF f
<1>5. \A j \in Scanned :
        f[j] = IF mem_alloc(j) = 0 THEN (IF j = 0 THEN len ELSE f[j - 1]) - 1 ELSE len
  BY <1>4 DEF Looped
<1> DEFINE D == {j \in Scanned : f[j] # g[j]}
<1>6. D = {}
  <2> SUFFICES ASSUME D # {} PROVE FALSE
    OBVIOUS
  <2>1. PICK d \in D : \A m \in D : d <= m
    BY <1>1, LeastOf
  <2>2. d # 0 => d - 1 \in Scanned /\ f[d - 1] = g[d - 1]
    BY <1>1, <2>1
  <2>3. g[d] = IF mem_alloc(d) = 0 THEN (IF d = 0 THEN len ELSE g[d - 1]) - 1 ELSE len
    BY <1>2 DEF Looped
  <2> HIDE DEF g
  <2> QED
    BY <1>5, <2>1, <2>2, <2>3
<1> QED
  BY <1>6 DEF f

LEMMA StopIsRun ==
  ASSUME NEW len \in Int, NEW i \in Nat
  PROVE  /\ len > 0 => (Stop(len, i) <=> Run(i) >= len)
         /\ len = 0 => (Stop(len, i) <=> Run(i) = 0)
         /\ len < 0 => ~Stop(len, i)
<1> DEFINE r == Run(i)
<1>1. r \in 0 .. i + 1 /\ IsRun(i, r)
  BY RunFound
<1>2. mem_alloc(i) # 0 => r = 0
  BY RunGrows
<1> HIDE DEF r
<1>3. ASSUME len > 0
      PROVE  Stop(len, i) <=> r >= len
  <2>1. ASSUME Stop(len, i), r < len
        PROVE  FALSE
    <3>1. r <= i /\ i - r \in i - len + 1 .. i
      BY <1>1, <1>3, <2>1 DEF Stop
    <3> QED
      BY <1>1, <1>3, <2>1, <3>1 DEF IsRun, Stop
  <2>2. ASSUME r >= len
        PROVE  Stop(len, i)
    <3>1. \A j \in i - len + 1 .. i : j \in i - r + 1 .. i
      BY <1>1, <2>2
    <3> QED
      BY <1>1, <1>3, <2>2, <3>1 DEF IsRun, Stop
  <2> QED
    BY <1>1, <2>1, <2>2
<1>4. ASSUME len = 0
      PROVE  Stop(len, i) <=> r = 0
  <2>1. r = 0 => mem_alloc(i) # 0
    BY <1>1 DEF IsRun
  <2> QED
    BY <1>2, <1>4, <2>1 DEF Stop
<1>5. len < 0 => ~Stop(len, i)
  BY DEF Stop
<1> QED
  BY <1>3, <1>4, <1>5 DEF r

(* The runs grow by one: the first that is long enough is just so long.    *)
LEMMA FirstRun ==
  ASSUME NEW len \in Nat \ {0}, NEW i \in Nat, Run(i) >= len, \A h \in 0 .. i - 1 : Run(h) < len
  PROVE  Run(i) = len
<1>1. Run(i) \in Nat /\ Run(i) # 0 /\ mem_alloc(i) = 0
  BY RunFound, RunGrows
<1>2. CASE i = 0
  BY <1>1, <1>2, RunGrows
<1>3. CASE i # 0
  <2>1. i - 1 \in 0 .. i - 1 /\ i - 1 \in Nat
    BY <1>3
  <2>2. Run(i - 1) \in Nat /\ Run(i - 1) < len /\ Run(i) = Run(i - 1) + 1
    BY <1>1, <1>3, <2>1, RunFound, RunGrows
  <2> QED
    BY <2>2
<1> QED
  BY <1>2, <1>3

LEMMA ScanFirst ==
  ASSUME NEW len \in -1 .. Granules, NEW i \in Scanned
  PROVE  (count(len)[i] = 0 /\ \A h \in 0 .. i - 1 : count(len)[h] # 0) <=> FirstStop(len, i)
<1> USE PageAssumption
<1>1. /\ len \in Int /\ i \in Nat
      /\ \A h \in 0 .. i - 1 : h \in Scanned /\ h \in Nat
  BY PageIndices DEF Scanned
<1>2. /\ Run(i) \in Nat /\ \A h \in 0 .. i - 1 : Run(h) \in Nat
  BY <1>1, RunFound
<1>3. /\ (count(len)[i] = 0) <=> (Run(i) = len)
      /\ \A h \in 0 .. i - 1 : (count(len)[h] # 0) <=> (Run(h) # len)
  <2>1. \A h \in Scanned : count(len)[h] = len - Run(h)
    BY <1>1, Counts
  <2>2. ASSUME NEW h \in Scanned, Run(h) \in Nat
        PROVE  (count(len)[h] = 0) <=> (Run(h) = len)
    <3>1. count(len)[h] = len - Run(h)
      BY <2>1
    <3> HIDE DEF count
    <3> QED
      BY <1>1, <2>2, <3>1
  <2> QED
    BY <1>1, <1>2, <2>2
<1>4. CASE len > 0
  <2>1. /\ Stop(len, i) <=> Run(i) >= len
        /\ \A h \in 0 .. i - 1 : Stop(len, h) <=> Run(h) >= len
    BY <1>1, <1>4, StopIsRun
  <2>2. ASSUME Run(i) = len, \A h \in 0 .. i - 1 : Run(h) # len
        PROVE  \A h \in 0 .. i - 1 : Run(h) < len
    <3> DEFINE D == {h \in 0 .. i - 1 : Run(h) >= len}
    <3>1. D \in SUBSET Nat
      OBVIOUS
    <3>2. D = {}
      <4> SUFFICES ASSUME D # {} PROVE FALSE
        OBVIOUS
      <4>1. PICK d \in D : \A m \in D : d <= m
        BY <3>1, LeastOf
      <4>2. d \in 0 .. i - 1 /\ Run(d) >= len
        BY <4>1
      <4>3. \A h \in 0 .. d - 1 : Run(h) < len
        <5> TAKE h \in 0 .. d - 1
        <5>1. h \in 0 .. i - 1 /\ ~(d <= h)
          BY <1>1, <4>2
        <5>2. h \notin D
          BY <4>1, <5>1
        <5> QED
          BY <1>1, <1>2, <5>1, <5>2
      <4>4. Run(d) = len
        BY <1>1, <1>4, <4>2, <4>3, FirstRun
      <4> QED
        BY <2>2, <4>2, <4>4
    <3> QED
      BY <1>1, <1>2, <3>2
  <2>3. ASSUME Run(i) >= len, \A h \in 0 .. i - 1 : Run(h) < len
        PROVE  Run(i) = len
    BY <1>1, <1>4, <2>3, FirstRun
  <2> QED
    BY <1>1, <1>2, <1>3, <2>1, <2>2, <2>3 DEF FirstStop
<1>5. CASE len = 0
  <2>1. /\ Stop(len, i) <=> Run(i) = 0
        /\ \A h \in 0 .. i - 1 : Stop(len, h) <=> Run(h) = 0
    BY <1>1, <1>5, StopIsRun
  <2> QED
    BY <1>3, <1>5, <2>1 DEF FirstStop
<1>6. CASE len < 0
  BY <1>1, <1>2, <1>3, <1>6, StopIsRun DEF FirstStop
<1> QED
  BY <1>1, <1>4, <1>5, <1>6

(* The counting loop finds, for every length, the first place where that   *)
(* many free granules end, whatever the arrays hold.                       *)
THEOREM FirstFitHolds == Spec => []FirstFit
<1>1. FirstFit
  BY ScanFirst DEF FirstFit
<1> QED
  BY <1>1, PTL

=============================================================================
