----------------------------- MODULE HeapProofs -----------------------------
(***************************************************************************)
(* The kernel heap for every page size, word size, base address, number of *)
(* frames and set of request sizes that the assumptions of Heap allow.     *)
(*                                                                         *)
(* The argument rests on one inductive invariant, ListInv: the list is in  *)
(* order (BlocksInOrder), live pointers and used blocks correspond         *)
(* (LiveBlocks), the loop variables point into the list (Cursor), and the  *)
(* frames bound the growth (Budget).  Each action has a lemma that it      *)
(* keeps ListInv; the three actions that rewrite the list have a second    *)
(* lemma before it that says what the list looks like afterwards.  The     *)
(* theorems of the second half follow from ListInv or are invariant        *)
(* relative to it.                                                         *)
(***************************************************************************)
EXTENDS Heap, TLAPS

\* Where the locals of the two loops point: last_block is a block, and it is
\* the tail once current_block has run off the list, which is what
\* expand_heap needs to link its block (heap.cpp:49-52, 84-86).
Cursor ==
    /\ pc = "scan" =>
         /\ size \in Granted
         /\ last \in DOMAIN hdr
         /\ IF cur = NULL THEN hdr[last].next = NULL ELSE cur \in DOMAIN hdr
    /\ pc = "coalesce" => cur \in DOMAIN hdr

\* Pages that back the heap come out of the frames there were at boot, so
\* heap_limit cannot reach the end of the address space.
Budget == heap_limit + (frames + others) * PageSize
             <= Base + PageSize + Frames * PageSize

\* The inductive invariant.
ListInv == TypeOK /\ BlocksInOrder /\ LiveBlocks /\ Cursor /\ Budget

\* Division with remainder: a quotient times its divisor is within one
\* divisor of the dividend.
LEMMA DivBounds ==
  ASSUME NEW n \in Nat, NEW d \in Nat \ {0}
  PROVE  /\ n \div d \in Nat
         /\ (n \div d) * d \in Nat
         /\ n - d < (n \div d) * d
  OBVIOUS

\* Z3 needs the closure of Nat under this product spelled out.
LEMMA SumTimes ==
  ASSUME NEW x \in Nat, NEW y \in Nat, NEW z \in Nat
  PROVE  (x + y) * z \in Nat
  OBVIOUS

\* needed_pages of expand_heap covers needed_size, as long as the rounding of
\* heap.cpp:67 does not wrap.
LEMMA PagesFacts ==
  ASSUME NEW n \in Nat, n + PageSize - 1 < WordSize
  PROVE  /\ Pages(n) \in Nat
         /\ n <= Pages(n) * PageSize
         /\ Pages(n) * PageSize \in Nat
<1> DEFINE m == n + PageSize - 1
<1>1. m \in Nat /\ PageSize \in Nat \ {0} /\ n = m - PageSize + 1
  BY PageAssumption DEF HDR
<1>2. Pages(n) = m \div PageSize
  BY PageAssumption DEF Pages, Add
<1> HIDE DEF m
<1>3. /\ m \div PageSize \in Nat
      /\ (m \div PageSize) * PageSize \in Nat
      /\ m - PageSize < (m \div PageSize) * PageSize
  BY <1>1, DivBounds
<1> QED
  BY <1>1, <1>2, <1>3

\* A size kmalloc searches for is a positive multiple of 4 and small enough
\* that adding the header and a page does not wrap (heap.cpp:27, 66-67).
LEMMA GrantedFacts ==
  ASSUME NEW n \in Granted
  PROVE  /\ n \in Nat /\ 4 <= n /\ n % 4 = 0
         /\ n + HDR + PageSize - 1 < WordSize
         /\ Add(n, HDR) = n + HDR
<1>1. PICK r \in Requests : n = RoundUp4(r) /\ RoundUp4(r) # 0
  BY DEF Granted
<1>2. r \in 0 .. WordSize - 1 /\ Sane(r)
  BY RequestsAssumption
<1> QED
  BY <1>1, <1>2, WordAssumption, PageAssumption DEF RoundUp4, Add, Sane, HDR

\* What the order of the list says of one block: where it lies, where it
\* ends, and that every block of higher address begins behind its end.
LEMMA Walk ==
  ASSUME TypeOK, BlocksInOrder, NEW a \in DOMAIN hdr
  PROVE  /\ a \in Nat /\ a # NULL /\ Base <= a
         /\ hdr[a].size \in Nat /\ 4 <= hdr[a].size
         /\ hdr[a].is_free \in BOOLEAN /\ hdr[a].next \in Nat
         /\ hdr[a].prev \in Nat
         /\ a + HDR + hdr[a].size <= heap_limit
         /\ hdr[a].next # NULL =>
              /\ hdr[a].next \in DOMAIN hdr
              /\ a + HDR + hdr[a].size <= hdr[a].next
         /\ \A b \in DOMAIN hdr : a < b =>
              /\ hdr[a].next # NULL /\ hdr[a].next <= b
              /\ a + HDR + hdr[a].size <= b
  BY BaseAssumption DEF TypeOK, BlocksInOrder, Block, HDR, NULL

\* init_heap leaves one free block as long as its page.
LEMMA InitInv == Init => ListInv
<1> SUFFICES ASSUME Init PROVE ListInv
  OBVIOUS
<1> USE DEF Init, init_heap, Header
<1>1. TypeOK
  BY BaseAssumption, PageAssumption, FramesAssumption DEF TypeOK, Block, HDR, NULL
<1>2. BlocksInOrder
  BY BaseAssumption, PageAssumption DEF BlocksInOrder, HDR, NULL
<1>3. LiveBlocks
  BY DEF LiveBlocks
<1>4. Cursor
  BY DEF Cursor
<1>5. Budget
  BY BaseAssumption, PageAssumption, FramesAssumption DEF Budget
<1> QED
  BY <1>1, <1>2, <1>3, <1>4, <1>5 DEF ListInv

\* What scan_split writes: the block shortened to size and a free block at
\* SplitAt that ends where the old block did (heap.cpp:34-43).
SplitAt == cur + HDR + size

\* The new header of a split lies strictly inside the old block, and only the
\* split block and the new one differ from before.
LEMMA SplitShape ==
  ASSUME ListInv, scan_split
  PROVE  /\ size \in Nat /\ 4 <= size
         /\ cur \in DOMAIN hdr
         /\ hdr[cur].is_free /\ hdr[cur].size - size >= MinBlock
         /\ cur < SplitAt /\ SplitAt \in Nat
         /\ SplitAt + HDR + 4 <= cur + HDR + hdr[cur].size
         /\ SplitAt \notin DOMAIN hdr
         /\ DOMAIN hdr' = DOMAIN hdr \cup {SplitAt}
         /\ \A x \in DOMAIN hdr \ {cur} : hdr'[x] = hdr[x]
         /\ hdr' = [x \in DOMAIN hdr' |-> hdr'[x]]
         /\ hdr'[cur] \in Block /\ hdr'[SplitAt] \in Block
         /\ hdr'[cur].size = size /\ hdr'[cur].next = SplitAt /\ ~hdr'[cur].is_free
         /\ hdr'[SplitAt].size = hdr[cur].size - size - HDR
         /\ hdr'[SplitAt].next = hdr[cur].next /\ hdr'[SplitAt].is_free
<1> USE DEF ListInv
<1> DEFINE new == cur + HDR + size
           D == DOMAIN hdr
<1>1. /\ size \in Nat /\ 4 <= size
      /\ cur \in D
      /\ hdr[cur].is_free /\ hdr[cur].size - size >= MinBlock
  BY GrantedFacts DEF Cursor, scan_split, Fits
<1>2. /\ cur < new /\ new \in Nat
      /\ new + HDR + 4 <= cur + HDR + hdr[cur].size
      /\ new \notin D
  BY <1>1 DEF TypeOK, Block, BlocksInOrder, MinBlock, HDR, NULL
<1>3. /\ DOMAIN hdr' = D \cup {new}
      /\ \A x \in D \ {cur} : hdr'[x] = hdr[x]
      /\ hdr' = [x \in DOMAIN hdr' |-> hdr'[x]]
  BY <1>1, <1>2 DEF scan_split, Split
<1>4. /\ hdr'[cur] \in Block /\ hdr'[new] \in Block
      /\ hdr'[cur].size = size /\ hdr'[cur].next = new /\ ~hdr'[cur].is_free
      /\ hdr'[new].size = hdr[cur].size - size - HDR
      /\ hdr'[new].next = hdr[cur].next /\ hdr'[new].is_free
  <2>1. /\ hdr'[cur] = Header(size, FALSE, new, hdr[cur].prev)
        /\ hdr'[new] = Header(hdr[cur].size - size - HDR, TRUE, hdr[cur].next, cur)
    BY <1>1, <1>2 DEF scan_split, Split
  <2> QED
    BY <1>1, <1>2, <2>1 DEF TypeOK, Block, Header, MinBlock, HDR
<1> QED
  BY <1>1, <1>2, <1>3, <1>4 DEF SplitAt

\* Splitting a block keeps the list in order and its pointer live.
LEMMA SplitInv ==
  ASSUME ListInv, scan_split
  PROVE  ListInv'
<1> USE DEF ListInv
<1> DEFINE new == SplitAt
           D == DOMAIN hdr
<1>1. /\ size \in Nat /\ 4 <= size
      /\ cur \in D
      /\ hdr[cur].is_free /\ hdr[cur].size - size >= MinBlock
  BY SplitShape
<1>w. /\ cur \in Nat /\ Base <= cur /\ hdr[cur].size \in Nat /\ hdr[cur].next \in Nat
      /\ cur + HDR + hdr[cur].size <= heap_limit /\ heap_limit \in Nat
      /\ hdr[cur].next # NULL =>
           hdr[cur].next \in D /\ cur + HDR + hdr[cur].size <= hdr[cur].next
  BY <1>1, Walk DEF TypeOK
<1>2. /\ cur < new /\ new \in Nat
      /\ new + HDR + 4 <= cur + HDR + hdr[cur].size
      /\ new \notin D
  BY SplitShape
<1>3. /\ DOMAIN hdr' = D \cup {new}
      /\ \A x \in D \ {cur} : hdr'[x] = hdr[x]
      /\ hdr' = [x \in DOMAIN hdr' |-> hdr'[x]]
  BY SplitShape
<1>4. /\ hdr'[cur] \in Block /\ hdr'[new] \in Block
      /\ hdr'[cur].size = size /\ hdr'[cur].next = new /\ ~hdr'[cur].is_free
      /\ hdr'[new].size = hdr[cur].size - size - HDR
      /\ hdr'[new].next = hdr[cur].next /\ hdr'[new].is_free
  BY SplitShape
<1> HIDE DEF D, new
<1>5. TypeOK'
  <2>1. \A x \in DOMAIN hdr' : hdr'[x] \in Block
    BY <1>3, <1>4 DEF TypeOK, D
  <2>2. live' \in [DOMAIN live' -> Nat] /\ DOMAIN live' \subseteq Nat
    BY <1>1 DEF TypeOK, scan_split, HandOut, D, HDR
  <2> QED
    BY <1>2, <1>3, <2>1, <2>2 DEF TypeOK, scan_split, Return, NULL, D
<1>6. BlocksInOrder'
  <2>1. heap_limit' = heap_limit /\ heap_limit \in Nat
    BY DEF scan_split, TypeOK
  <2>2. ASSUME NEW a \in DOMAIN hdr'
        PROVE  /\ Base <= a /\ 4 <= hdr'[a].size
               /\ a + HDR + hdr'[a].size <= heap_limit
               /\ hdr'[a].next # NULL =>
                    /\ hdr'[a].next \in DOMAIN hdr'
                    /\ a + HDR + hdr'[a].size <= hdr'[a].next
    <3>1. CASE a = cur
      BY <1>w, <1>1, <1>2, <1>3, <1>4, <2>1, <3>1, BaseAssumption DEF HDR, MinBlock, new, SplitAt
    <3>2. CASE a = new
      BY <1>w, <1>1, <1>2, <1>3, <1>4, <2>1, <3>2, BaseAssumption
         DEF HDR, MinBlock, new, SplitAt
    <3>3. CASE a \in D \ {cur}
      BY <1>3, <3>3, Walk DEF D
    <3> QED
      BY <1>3, <3>1, <3>2, <3>3
  <2>3. ASSUME NEW a \in DOMAIN hdr', NEW b \in DOMAIN hdr', a < b
        PROVE  hdr'[a].next # NULL /\ hdr'[a].next <= b
    <3>1. CASE a = cur
      <4>1. b # cur /\ (b # new => b \in D /\ hdr[cur].next <= b
                                   /\ cur + HDR + hdr[cur].size <= b)
        BY <1>1, <1>2, <1>3, <2>3, <3>1, Walk DEF D
      <4> QED
        BY <1>1, <1>2, <1>4, <3>1, <4>1, Walk DEF D, NULL, HDR
    <3>2. CASE a = new
      <4>1. b \in D /\ cur < b
        BY <1>1, <1>2, <1>3, <2>3, <3>2, Walk DEF D
      <4> QED
        BY <1>1, <1>4, <3>2, <4>1, Walk DEF D
    <3>3. CASE a \in D \ {cur} /\ b = new
      <4>1. a < cur
        BY <1>1, <1>2, <2>3, <3>3, Walk DEF D, HDR
      <4> QED
        BY <1>1, <1>2, <1>3, <3>3, <4>1, Walk DEF D
    <3>4. CASE a \in D \ {cur} /\ b \in D
      BY <1>3, <2>3, <3>4, Walk DEF D
    <3> QED
      BY <1>3, <3>1, <3>2, <3>3, <3>4
  <2> QED
    BY <2>1, <2>2, <2>3 DEF BlocksInOrder
<1>7. LiveBlocks'
  <2>1. /\ DOMAIN live' = DOMAIN live \cup {cur + HDR}
        /\ live'[cur + HDR] = size
        /\ \A p \in DOMAIN live \ {cur + HDR} : live'[p] = live[p]
    BY DEF scan_split, HandOut
  <2>2. \A p \in DOMAIN live : p - HDR # cur /\ p # cur + HDR
    BY <1>1 DEF LiveBlocks, TypeOK, HDR, D
  <2>3. ASSUME NEW p \in DOMAIN live'
        PROVE  /\ HDR <= p /\ p - HDR \in DOMAIN hdr'
               /\ ~hdr'[p - HDR].is_free
               /\ 0 < live'[p] /\ live'[p] <= hdr'[p - HDR].size
    <3>1. CASE p = cur + HDR
      BY <1>w, <1>1, <1>3, <1>4, <2>1, <3>1 DEF HDR, D
    <3>2. CASE p \in DOMAIN live
      BY <1>3, <2>1, <2>2, <3>2 DEF LiveBlocks, D
    <3> QED
      BY <2>1, <3>1, <3>2
  <2>4. ASSUME NEW a \in DOMAIN hdr', ~hdr'[a].is_free
        PROVE  a + HDR \in DOMAIN live'
    BY <1>1, <1>3, <1>4, <2>1, <2>4 DEF LiveBlocks, D
  <2> QED
    BY <2>3, <2>4 DEF LiveBlocks
<1>8. Cursor' /\ Budget'
  BY DEF Cursor, Budget, scan_split, Return
<1> QED
  BY <1>5, <1>6, <1>7, <1>8

\* Handing out a whole block only turns its is_free to false.
LEMMA TakeInv ==
  ASSUME ListInv, scan_take
  PROVE  ListInv'
<1> USE DEF ListInv
<1>1. /\ size \in Nat /\ 4 <= size
      /\ cur \in DOMAIN hdr
      /\ hdr[cur].is_free /\ size <= hdr[cur].size
      /\ cur \in Nat
  BY GrantedFacts DEF Cursor, scan_take, Fits, TypeOK
<1>2. /\ DOMAIN hdr' = DOMAIN hdr
      /\ \A x \in DOMAIN hdr : /\ hdr'[x] \in Block
                               /\ hdr'[x].size = hdr[x].size
                               /\ hdr'[x].next = hdr[x].next
      /\ ~hdr'[cur].is_free
      /\ \A x \in DOMAIN hdr \ {cur} : hdr'[x] = hdr[x]
      /\ hdr' = [x \in DOMAIN hdr' |-> hdr'[x]]
  BY <1>1 DEF scan_take, Take, TypeOK, Block
<1>3. /\ DOMAIN live' = DOMAIN live \cup {cur + HDR}
      /\ live'[cur + HDR] = size
      /\ \A p \in DOMAIN live \ {cur + HDR} : live'[p] = live[p]
  BY DEF scan_take, HandOut
<1>4. TypeOK'
  <2>1. live' \in [DOMAIN live' -> Nat] /\ DOMAIN live' \subseteq Nat
    BY <1>1 DEF TypeOK, scan_take, HandOut, HDR
  <2> QED
    BY <1>2, <2>1 DEF TypeOK, scan_take, Return, NULL
<1>5. BlocksInOrder'
  BY <1>2 DEF BlocksInOrder, scan_take
<1>6. LiveBlocks'
  <2>1. \A p \in DOMAIN live : p - HDR # cur /\ p # cur + HDR
    BY <1>1 DEF LiveBlocks, TypeOK, HDR
  <2>2. ASSUME NEW p \in DOMAIN live'
        PROVE  /\ HDR <= p /\ p - HDR \in DOMAIN hdr'
               /\ ~hdr'[p - HDR].is_free
               /\ 0 < live'[p] /\ live'[p] <= hdr'[p - HDR].size
    <3>1. CASE p = cur + HDR
      BY <1>1, <1>2, <1>3, <3>1 DEF HDR
    <3>2. CASE p \in DOMAIN live
      BY <1>2, <1>3, <2>1, <3>2 DEF LiveBlocks
    <3> QED
      BY <1>3, <3>1, <3>2
  <2>3. ASSUME NEW a \in DOMAIN hdr', ~hdr'[a].is_free
        PROVE  a + HDR \in DOMAIN live'
    BY <1>2, <1>3, <2>3 DEF LiveBlocks
  <2> QED
    BY <2>2, <2>3 DEF LiveBlocks
<1>7. Cursor' /\ Budget'
  BY DEF Cursor, Budget, scan_take, Return
<1> QED
  BY <1>4, <1>5, <1>6, <1>7

\* A step of kmalloc's scan keeps last_block one block behind.
LEMMA AdvanceInv ==
  ASSUME ListInv, scan_advance
  PROVE  ListInv'
<1> USE DEF ListInv
<1>1. cur \in DOMAIN hdr /\ cur # NULL
  BY DEF Cursor, scan_advance
<1>2. TypeOK'
  BY <1>1, Walk DEF TypeOK, scan_advance
<1>3. BlocksInOrder' /\ LiveBlocks' /\ Budget'
  BY DEF BlocksInOrder, LiveBlocks, Budget, scan_advance
<1>4. Cursor'
  BY <1>1, Walk DEF Cursor, scan_advance
<1> QED
  BY <1>2, <1>3, <1>4

\* A failing expand_heap moves heap_limit away from the last block and leaves
\* the list alone (heap.cpp:73-80).
LEMMA ExpandFailsInv ==
  ASSUME ListInv, expand_fails
  PROVE  ListInv'
<1> USE DEF ListInv
<1>1. /\ heap_limit' = heap_limit + frames * PageSize
      /\ heap_limit' \in Nat /\ heap_limit <= heap_limit'
  BY PageAssumption DEF expand_fails, TypeOK
<1>2. TypeOK'
  BY <1>1 DEF TypeOK, expand_fails, Return, NULL
<1>3. BlocksInOrder'
  <2>1. ASSUME NEW a \in DOMAIN hdr
        PROVE  a + HDR + hdr[a].size <= heap_limit'
    BY <1>1, Walk DEF HDR, TypeOK
  <2> QED
    BY <2>1 DEF BlocksInOrder, expand_fails
<1>4. LiveBlocks' /\ Cursor'
  BY DEF LiveBlocks, Cursor, expand_fails, Return
<1>5. Budget'
  <2>1. (frames + others) * PageSize = frames * PageSize + others * PageSize
    BY PageAssumption DEF TypeOK
  <2>2. (0 + others) * PageSize = others * PageSize
    BY PageAssumption DEF TypeOK
  <2> QED
    BY <1>1, <2>1, <2>2, PageAssumption, BaseAssumption, FramesAssumption
       DEF Budget, expand_fails, TypeOK
<1> QED
  BY <1>2, <1>3, <1>4, <1>5

\* kfree of a live pointer touches the one block of that pointer.
LEMMA FreeInv ==
  ASSUME ListInv, NEW p \in DOMAIN live, kfree(p)
  PROVE  ListInv'
<1> USE DEF ListInv
<1> DEFINE a == p - HDR
<1>1. /\ a \in DOMAIN hdr /\ p \in Nat /\ a \in Nat /\ p = a + HDR
  BY DEF LiveBlocks, TypeOK, HDR
<1> HIDE DEF a
<1>2. /\ DOMAIN hdr' = DOMAIN hdr
      /\ \A x \in DOMAIN hdr : /\ hdr'[x] \in Block
                               /\ hdr'[x].size = hdr[x].size
                               /\ hdr'[x].next = hdr[x].next
      /\ hdr'[a].is_free
      /\ \A x \in DOMAIN hdr \ {a} : hdr'[x] = hdr[x]
      /\ hdr' = [x \in DOMAIN hdr' |-> hdr'[x]]
  <2>1. hdr' = [hdr EXCEPT ![a].is_free = TRUE]
    BY DEF kfree, a
  <2> QED
    BY <1>1, <2>1 DEF TypeOK, Block
<1>3. /\ DOMAIN live' = DOMAIN live \ {p}
      /\ \A q \in DOMAIN live' : live'[q] = live[q]
      /\ live' = [q \in DOMAIN live' |-> live'[q]]
  BY DEF kfree
<1>4. TypeOK'
  BY <1>2, <1>3, BaseAssumption DEF TypeOK, kfree
<1>5. BlocksInOrder'
  BY <1>2 DEF BlocksInOrder, kfree
<1>6. LiveBlocks'
  <2>1. ASSUME NEW q \in DOMAIN live'
        PROVE  /\ HDR <= q /\ q - HDR \in DOMAIN hdr'
               /\ ~hdr'[q - HDR].is_free
               /\ 0 < live'[q] /\ live'[q] <= hdr'[q - HDR].size
    <3>1. q \in DOMAIN live /\ q \in Nat /\ q # p
      BY <1>3 DEF TypeOK
    <3>2. q - HDR # a
      BY <1>1, <3>1 DEF HDR
    <3> QED
      BY <1>2, <1>3, <3>1, <3>2 DEF LiveBlocks
  <2>2. ASSUME NEW b \in DOMAIN hdr', ~hdr'[b].is_free
        PROVE  b + HDR \in DOMAIN live'
    BY <1>1, <1>2, <1>3, <2>2 DEF LiveBlocks, TypeOK, HDR
  <2> QED
    BY <2>1, <2>2 DEF LiveBlocks
<1>7. Cursor' /\ Budget'
  BY <1>2 DEF Cursor, Budget, kfree, TypeOK
<1> QED
  BY <1>4, <1>5, <1>6, <1>7

\* What coalesce_merge writes: the successor leaves the list, its bytes go to
\* current_block, and of the block behind only the back link changes.
Swallowed == hdr[cur].next

\* After a merge the list lost exactly the swallowed block, and sizes, links
\* and marks of the others are as before.
LEMMA MergeShape ==
  ASSUME ListInv, coalesce_merge
  PROVE  /\ cur \in DOMAIN hdr /\ Swallowed \in DOMAIN hdr /\ Swallowed # NULL
         /\ hdr[cur].is_free /\ hdr[Swallowed].is_free
         /\ cur # Swallowed
         /\ DOMAIN hdr' = DOMAIN hdr \ {Swallowed}
         /\ hdr' = [x \in DOMAIN hdr' |-> hdr'[x]]
         /\ \A x \in DOMAIN hdr \ {Swallowed, cur} :
              /\ hdr'[x] \in Block
              /\ hdr'[x].size = hdr[x].size
              /\ hdr'[x].next = hdr[x].next
              /\ hdr'[x].is_free = hdr[x].is_free
         /\ hdr'[cur] \in Block
         /\ hdr'[cur].size = hdr[cur].size + hdr[Swallowed].size + HDR
         /\ hdr'[cur].next = hdr[Swallowed].next /\ hdr'[cur].is_free
<1> USE DEF ListInv
<1> DEFINE b == hdr[cur].next
           c == hdr[b].next
           D == DOMAIN hdr
<1>1. /\ cur \in D /\ b \in D /\ b # NULL
      /\ hdr[cur].is_free /\ hdr[b].is_free
      /\ cur # b
  BY Walk DEF Cursor, coalesce_merge, BothFree, HDR
<1>2. /\ cur \in Nat /\ hdr[cur].size \in Nat /\ 4 <= hdr[cur].size /\ Base <= cur
      /\ hdr[cur].prev \in Nat
      /\ cur + HDR + hdr[cur].size <= b
      /\ b \in Nat /\ hdr[b].size \in Nat /\ c \in Nat /\ c # cur
      /\ b + HDR + hdr[b].size <= heap_limit /\ heap_limit \in Nat
      /\ c # NULL => c \in D /\ b + HDR + hdr[b].size <= c
  BY <1>1, Walk DEF TypeOK, HDR, NULL
<1>3. /\ DOMAIN hdr' = D \ {b}
      /\ hdr' = [x \in DOMAIN hdr' |-> hdr'[x]]
      /\ \A x \in D \ {b, cur} : /\ hdr'[x] \in Block
                                 /\ hdr'[x].size = hdr[x].size
                                 /\ hdr'[x].next = hdr[x].next
                                 /\ hdr'[x].is_free = hdr[x].is_free
      /\ hdr'[cur] \in Block
      /\ hdr'[cur].size = hdr[cur].size + hdr[b].size + HDR
      /\ hdr'[cur].next = c /\ hdr'[cur].is_free
  <2>1. hdr' = Merge(cur, b)
    BY DEF coalesce_merge
  <2>2. /\ DOMAIN hdr' = D \ {b}
        /\ hdr' = [x \in DOMAIN hdr' |-> hdr'[x]]
        /\ hdr'[cur] = Header(hdr[cur].size + hdr[b].size + HDR, TRUE,
                              hdr[b].next, hdr[cur].prev)
        /\ \A x \in D \ {b, cur} :
             hdr'[x] = IF x = c THEN [hdr[x] EXCEPT !.prev = cur] ELSE hdr[x]
    BY <1>1, <2>1 DEF Merge
  <2>3. /\ hdr'[cur] \in Block
        /\ hdr'[cur].size = hdr[cur].size + hdr[b].size + HDR
        /\ hdr'[cur].next = c /\ hdr'[cur].is_free
    BY <1>2, <2>2 DEF Header, Block, HDR
  <2>4. ASSUME NEW x \in D \ {b, cur}
        PROVE  /\ hdr'[x] \in Block
               /\ hdr'[x].size = hdr[x].size
               /\ hdr'[x].next = hdr[x].next
               /\ hdr'[x].is_free = hdr[x].is_free
    <3>1. hdr[x] \in Block
      BY DEF TypeOK
    <3> HIDE DEF c
    <3>2. hdr'[x] = IF x = c THEN [hdr[x] EXCEPT !.prev = cur] ELSE hdr[x]
      BY <2>2
    <3> QED
      BY <1>2, <3>1, <3>2 DEF Block
  <2> QED
    BY <2>2, <2>3, <2>4
<1> QED
  BY <1>1, <1>3 DEF b, c, D, Swallowed

\* Merging two free neighbours keeps the list in order.
LEMMA MergeInv ==
  ASSUME ListInv, coalesce_merge
  PROVE  ListInv'
<1> USE DEF ListInv
<1> DEFINE b == hdr[cur].next
           c == hdr[b].next
           D == DOMAIN hdr
<1>1. /\ cur \in D /\ b \in D /\ b # NULL
      /\ hdr[cur].is_free /\ hdr[b].is_free
      /\ cur # b
  BY MergeShape DEF Swallowed
<1>2. /\ cur \in Nat /\ hdr[cur].size \in Nat /\ 4 <= hdr[cur].size /\ Base <= cur
      /\ hdr[cur].prev \in Nat
      /\ cur + HDR + hdr[cur].size <= b
      /\ b \in Nat /\ hdr[b].size \in Nat /\ c \in Nat /\ c # cur
      /\ b + HDR + hdr[b].size <= heap_limit /\ heap_limit \in Nat
      /\ c # NULL => c \in D /\ b + HDR + hdr[b].size <= c
  BY <1>1, Walk DEF TypeOK, HDR, NULL
<1>3. /\ DOMAIN hdr' = D \ {b}
      /\ hdr' = [x \in DOMAIN hdr' |-> hdr'[x]]
      /\ \A x \in D \ {b, cur} : /\ hdr'[x] \in Block
                                 /\ hdr'[x].size = hdr[x].size
                                 /\ hdr'[x].next = hdr[x].next
                                 /\ hdr'[x].is_free = hdr[x].is_free
      /\ hdr'[cur] \in Block
      /\ hdr'[cur].size = hdr[cur].size + hdr[b].size + HDR
      /\ hdr'[cur].next = c /\ hdr'[cur].is_free
  BY MergeShape DEF Swallowed
<1> HIDE DEF b, c, D
<1>4. TypeOK'
  <2>1. Base \in D \ {b}
    BY <1>1, <1>2, BaseAssumption DEF TypeOK, D, HDR
  <2> QED
    BY <1>3, <2>1 DEF TypeOK, coalesce_merge, D
<1>5. BlocksInOrder'
  <2>1. heap_limit' = heap_limit
    BY DEF coalesce_merge
  <2>2. ASSUME NEW x \in D \ {b}, hdr[x].next = b
        PROVE  x = cur
    <3>1. ~(x < cur)
      BY <1>1, <1>2, <2>2, Walk DEF D, HDR
    <3>2. ~(cur < x)
      BY <1>1, <1>2, <2>2, Walk DEF D, HDR, b
    <3> QED
      BY <1>2, <3>1, <3>2, Walk DEF D
  <2>3. ASSUME NEW x \in DOMAIN hdr'
        PROVE  /\ Base <= x /\ 4 <= hdr'[x].size
               /\ x + HDR + hdr'[x].size <= heap_limit
               /\ hdr'[x].next # NULL =>
                    /\ hdr'[x].next \in DOMAIN hdr'
                    /\ x + HDR + hdr'[x].size <= hdr'[x].next
    <3>1. CASE x = cur
      <4>1. c # NULL => c # b
        BY <1>2 DEF HDR
      <4> QED
        BY <1>1, <1>2, <1>3, <3>1, <4>1 DEF HDR
    <3>2. CASE x # cur
      <4>1. x \in D \ {b, cur} /\ hdr[x].next # b
        BY <1>3, <2>2, <3>2
      <4> QED
        BY <1>3, <4>1, Walk DEF D
    <3> QED
      BY <3>1, <3>2
  <2>4. ASSUME NEW x \in DOMAIN hdr', NEW y \in DOMAIN hdr', x < y
        PROVE  hdr'[x].next # NULL /\ hdr'[x].next <= y
    <3>0. x \in D /\ y \in D /\ x # b /\ y # b
      BY <1>3
    <3>1. CASE x = cur
      <4>1. b <= y /\ b < y
        BY <1>1, <1>2, <2>4, <3>0, <3>1, Walk DEF D, b
      <4> QED
        BY <1>1, <1>3, <3>0, <3>1, <4>1, Walk DEF D, c
    <3>2. CASE x # cur
      BY <1>3, <2>4, <3>0, <3>2, Walk DEF D
    <3> QED
      BY <3>1, <3>2
  <2> QED
    BY <2>1, <2>3, <2>4 DEF BlocksInOrder
<1>6. LiveBlocks'
  <2>1. live' = live
    BY DEF coalesce_merge
  <2>2. ASSUME NEW p \in DOMAIN live
        PROVE  /\ HDR <= p /\ p - HDR \in DOMAIN hdr'
               /\ ~hdr'[p - HDR].is_free
               /\ 0 < live[p] /\ live[p] <= hdr'[p - HDR].size
    <3>1. p - HDR \in D \ {b, cur}
      BY <1>1 DEF LiveBlocks, D
    <3> QED
      BY <1>3, <3>1 DEF LiveBlocks
  <2>3. ASSUME NEW x \in DOMAIN hdr', ~hdr'[x].is_free
        PROVE  x + HDR \in DOMAIN live
    BY <1>3, <2>3 DEF LiveBlocks, D
  <2> QED
    BY <2>1, <2>2, <2>3 DEF LiveBlocks
<1>7. Cursor' /\ Budget'
  BY <1>1, <1>3 DEF Cursor, Budget, coalesce_merge, D
<1> QED
  BY <1>4, <1>5, <1>6, <1>7

\* Entering kmalloc puts both cursors on the first block.
LEMMA CallInv ==
  ASSUME ListInv, NEW n \in Requests, kmalloc(n)
  PROVE  ListInv'
<1> USE DEF ListInv
<1>1. CASE UNCHANGED vars
  BY <1>1 DEF TypeOK, BlocksInOrder, LiveBlocks, Cursor, Budget, vars
<1>2. CASE RoundUp4(n) # 0 /\ ~UNCHANGED vars
  <2>1. /\ pc' = "scan" /\ size' \in Granted /\ cur' = Base /\ last' = Base
        /\ UNCHANGED <<hdr, heap_limit, frames, others, live>>
    BY <1>2 DEF kmalloc, Granted
  <2>2. size' \in Nat
    BY <2>1, GrantedFacts
  <2>3. TypeOK'
    BY <2>1, <2>2, BaseAssumption DEF TypeOK
  <2> QED
    BY <2>1, <2>3, BaseAssumption
       DEF TypeOK, BlocksInOrder, LiveBlocks, Cursor, Budget, NULL
<1> QED
  BY <1>1, <1>2 DEF kmalloc

\* The steps of coalesce_free_blocks that merge nothing.
LEMMA WalkStepInv ==
  ASSUME ListInv, coalesce_advance \/ coalesce_done
  PROVE  ListInv'
<1> USE DEF ListInv
<1>1. BlocksInOrder' /\ LiveBlocks' /\ Budget'
  BY DEF BlocksInOrder, LiveBlocks, Budget, coalesce_advance, coalesce_done
<1>2. CASE coalesce_advance
  <2>1. cur \in DOMAIN hdr /\ hdr[cur].next # NULL
    BY <1>2 DEF Cursor, coalesce_advance
  <2>2. hdr[cur].next \in DOMAIN hdr /\ hdr[cur].next \in Nat
    BY <2>1, Walk
  <2> QED
    BY <1>1, <1>2, <2>2 DEF TypeOK, Cursor, coalesce_advance
<1>3. CASE coalesce_done
  BY <1>1, <1>3 DEF TypeOK, Cursor, coalesce_done, Return, NULL
<1> QED
  BY <1>2, <1>3

\* Users of the frame allocator move frames between frames and others and
\* leave the heap as it is.
LEMMA OtherInv ==
  ASSUME ListInv, OtherAlloc \/ OtherFree
  PROVE  ListInv'
<1> USE DEF ListInv
<1>1. /\ frames' \in Nat /\ others' \in Nat /\ frames' + others' = frames + others
      /\ UNCHANGED <<hdr, heap_limit, pc, size, cur, last, live>>
  BY DEF OtherAlloc, OtherFree, TypeOK
<1> QED
  BY <1>1 DEF TypeOK, BlocksInOrder, LiveBlocks, Cursor, Budget

\* What expand_heap writes: a block at the old heap_limit and, if the last
\* page leaves room, a free block at RestAt behind it (heap.cpp:81-100).
Room    == Pages(size + HDR) * PageSize
RestAt  == heap_limit + HDR + size
HasRest == Room - (size + HDR) > MinBlock

\* The bytes of the new pages are exactly the new block, its rest, and what
\* is too small for a block; the old tail is linked to them.
LEMMA ExpandShape ==
  ASSUME ListInv, expand_heap
  PROVE  /\ size \in Nat /\ 4 <= size
         /\ cur = NULL /\ last \in DOMAIN hdr /\ hdr[last].next = NULL
         /\ Pages(size + HDR) \in Nat /\ Room \in Nat /\ size + HDR <= Room
         /\ Pages(size + HDR) <= frames
         /\ heap_limit' = heap_limit + Room /\ heap_limit' \in Nat
         /\ frames' = frames - Pages(size + HDR) /\ frames' \in Nat
         /\ others' = others
         /\ heap_limit \in Nat /\ RestAt \in Nat
         /\ heap_limit < RestAt /\ RestAt <= heap_limit'
         /\ heap_limit + HDR + size = RestAt
         /\ RestAt + Room - (size + HDR) = heap_limit'
         /\ Base <= heap_limit /\ heap_limit # NULL /\ RestAt # NULL
         /\ \A a \in DOMAIN hdr :
              a \in Nat /\ a + HDR + hdr[a].size <= heap_limit /\ a < heap_limit
         /\ DOMAIN hdr' = IF HasRest THEN DOMAIN hdr \cup {heap_limit, RestAt}
                                     ELSE DOMAIN hdr \cup {heap_limit}
         /\ hdr' = [x \in DOMAIN hdr' |-> hdr'[x]]
         /\ \A x \in DOMAIN hdr \ {last} : hdr'[x] = hdr[x]
         /\ hdr'[heap_limit] \in Block /\ hdr'[heap_limit].size = size
         /\ ~hdr'[heap_limit].is_free
         /\ hdr'[heap_limit].next = IF HasRest THEN RestAt ELSE NULL
         /\ hdr'[last] \in Block /\ hdr'[last].size = hdr[last].size
         /\ hdr'[last].is_free = hdr[last].is_free /\ hdr'[last].next = heap_limit
         /\ HasRest => /\ hdr'[RestAt] \in Block
                       /\ hdr'[RestAt].size = Room - (size + HDR) - HDR
                       /\ hdr'[RestAt].is_free /\ hdr'[RestAt].next = NULL
<1> USE DEF ListInv
<1> DEFINE new  == heap_limit
           need == size + HDR
           room == Pages(need) * PageSize
           rest == new + HDR + size
           tail == room - need > MinBlock
           D    == DOMAIN hdr
<1>1. /\ size \in Nat /\ 4 <= size
      /\ Add(size, HDR) = need /\ need \in Nat /\ need + PageSize - 1 < WordSize
      /\ cur = NULL
      /\ last \in D /\ hdr[last].next = NULL
  BY GrantedFacts DEF Cursor, expand_heap, HDR
<1>2. /\ Pages(need) \in Nat /\ room \in Nat /\ need <= room
      /\ Pages(need) <= frames
  BY <1>1, PagesFacts DEF expand_heap
<1>3. /\ heap_limit' = heap_limit + room /\ heap_limit' \in Nat
      /\ frames' = frames - Pages(need) /\ frames' \in Nat /\ others' = others
      /\ hdr' = Append(new, size, room - need)
  BY <1>1, <1>2 DEF expand_heap, TypeOK
<1>4. /\ new \in Nat /\ rest \in Nat /\ new < rest /\ rest <= heap_limit'
      /\ new + HDR + size = rest
      /\ rest + room - need = heap_limit'
      /\ Base <= new /\ new # NULL /\ rest # NULL
      /\ \A a \in D : a \in Nat /\ a + HDR + hdr[a].size <= new /\ a < new
  BY <1>1, <1>2, <1>3, Walk, BaseAssumption DEF TypeOK, HDR, NULL
<1>5. /\ hdr' = [x \in DOMAIN hdr' |-> hdr'[x]]
      /\ DOMAIN hdr' = IF tail THEN D \cup {new, rest} ELSE D \cup {new}
      /\ hdr'[new] = Header(size, FALSE, IF tail THEN rest ELSE NULL, last)
      /\ hdr'[last] = [hdr[last] EXCEPT !.next = new]
      /\ tail => hdr'[rest] = Header(room - need - HDR, TRUE, NULL, new)
      /\ \A x \in D \ {last} : hdr'[x] = hdr[x]
  <2>1. new \notin D /\ rest \notin D /\ new # rest
    BY <1>4
  <2> DEFINE second == IF tail THEN rest ELSE NULL
  <2>2. hdr' = [x \in D \cup {new} \cup (IF tail THEN {rest} ELSE {}) |->
                  CASE x = new  -> Header(size, FALSE, second, last)
                    [] x = last -> [hdr[last] EXCEPT !.next = new]
                    [] x = rest -> Header(room - need - HDR, TRUE, NULL, new)
                    [] OTHER    -> hdr[x]]
    BY <1>3 DEF Append
  <2> HIDE DEF new, need, room, rest, D, tail, second
  <2>3. last \in D /\ last # new /\ last # rest
    BY <1>1, <2>1 DEF D
  <2>4. DOMAIN hdr' = D \cup {new} \cup (IF tail THEN {rest} ELSE {})
    BY <2>2
  <2>5. hdr'[new] = Header(size, FALSE, second, last)
    BY <2>1, <2>2, <2>3
  <2>8. hdr'[last] = [hdr[last] EXCEPT !.next = new]
    BY <2>1, <2>2, <2>3
  <2>6. tail => hdr'[rest] = Header(room - need - HDR, TRUE, NULL, new)
    BY <2>1, <2>2, <2>3
  <2>7. \A x \in D \ {last} : hdr'[x] = hdr[x]
    BY <2>1, <2>2, <2>3
  <2> QED
    BY <2>2, <2>4, <2>5, <2>6, <2>7, <2>8 DEF second
<1> HIDE DEF room
<1>6. /\ hdr'[new] \in Block /\ hdr'[new].size = size /\ ~hdr'[new].is_free
      /\ hdr'[new].next = IF tail THEN rest ELSE NULL
  BY <1>1, <1>4, <1>5 DEF Header, Block, NULL, TypeOK
<1>7. /\ hdr'[last] \in Block /\ hdr'[last].size = hdr[last].size
      /\ hdr'[last].is_free = hdr[last].is_free /\ hdr'[last].next = new
  BY <1>1, <1>4, <1>5 DEF Block, TypeOK
<1>8. tail => /\ hdr'[rest] \in Block /\ hdr'[rest].size = room - need - HDR
              /\ hdr'[rest].is_free /\ hdr'[rest].next = NULL
  <2> SUFFICES ASSUME tail
               PROVE  /\ hdr'[rest] \in Block /\ hdr'[rest].size = room - need - HDR
                      /\ hdr'[rest].is_free /\ hdr'[rest].next = NULL
    OBVIOUS
  <2>1. room - need - HDR \in Nat /\ new \in Nat
    BY <1>1, <1>2, <1>4 DEF MinBlock, HDR
  <2>2. hdr'[rest] = Header(room - need - HDR, TRUE, NULL, new)
    BY <1>5
  <2> HIDE DEF new, need, rest, tail
  <2> QED
    BY <2>1, <2>2 DEF Header, Block, NULL
<1>9. /\ DOMAIN hdr' = IF tail THEN D \cup {new, rest} ELSE D \cup {new}
      /\ hdr' = [x \in DOMAIN hdr' |-> hdr'[x]]
      /\ \A x \in D \ {last} : hdr'[x] = hdr[x]
  BY <1>5
<1> QED
  BY <1>1, <1>2, <1>3, <1>4, <1>6, <1>7, <1>8, <1>9 DEF Room, RestAt, HasRest, room

\* Growing the heap keeps the list in order.
LEMMA ExpandInv ==
  ASSUME ListInv, expand_heap
  PROVE  ListInv'
<1> USE DEF ListInv
<1> DEFINE new  == heap_limit
           need == size + HDR
           room == Room
           rest == RestAt
           tail == HasRest
           D    == DOMAIN hdr
<1>1. /\ size \in Nat /\ 4 <= size
      /\ need \in Nat
      /\ cur = NULL
      /\ last \in D /\ hdr[last].next = NULL
  BY ExpandShape DEF HDR
<1>2. /\ Pages(need) \in Nat /\ room \in Nat /\ need <= room
      /\ Pages(need) <= frames
  BY ExpandShape
<1>3. /\ heap_limit' = heap_limit + room /\ heap_limit' \in Nat
      /\ frames' = frames - Pages(need) /\ frames' \in Nat /\ others' = others
  BY ExpandShape
<1>4. /\ new \in Nat /\ rest \in Nat /\ new < rest /\ rest <= heap_limit'
      /\ new + HDR + size = rest
      /\ rest + room - need = heap_limit'
      /\ Base <= new /\ new # NULL /\ rest # NULL
      /\ \A a \in D : a \in Nat /\ a + HDR + hdr[a].size <= new /\ a < new
  BY ExpandShape
<1>6. /\ hdr'[new] \in Block /\ hdr'[new].size = size /\ ~hdr'[new].is_free
      /\ hdr'[new].next = IF tail THEN rest ELSE NULL
  BY ExpandShape
<1>7. /\ hdr'[last] \in Block /\ hdr'[last].size = hdr[last].size
      /\ hdr'[last].is_free = hdr[last].is_free /\ hdr'[last].next = new
  BY ExpandShape
<1>8. tail => /\ hdr'[rest] \in Block /\ hdr'[rest].size = room - need - HDR
              /\ hdr'[rest].is_free /\ hdr'[rest].next = NULL
  BY ExpandShape
<1>9. /\ DOMAIN hdr' = IF tail THEN D \cup {new, rest} ELSE D \cup {new}
      /\ hdr' = [x \in DOMAIN hdr' |-> hdr'[x]]
      /\ \A x \in D \ {last} : hdr'[x] = hdr[x]
  BY ExpandShape
<1> HIDE DEF room, rest, tail
<1>10. /\ DOMAIN live' = DOMAIN live \cup {new + HDR}
       /\ live'[new + HDR] = size
       /\ \A p \in DOMAIN live \ {new + HDR} : live'[p] = live[p]
       /\ live' = [p \in DOMAIN live' |-> live'[p]]
  BY DEF expand_heap, HandOut
<1>11. TypeOK'
  <2>1. hdr' \in [DOMAIN hdr' -> Block]
    BY <1>6, <1>7, <1>8, <1>9 DEF TypeOK
  <2>2. DOMAIN hdr' \subseteq Nat /\ Base \in DOMAIN hdr'
    BY <1>4, <1>9 DEF TypeOK
  <2>3. live' \in [DOMAIN live' -> Nat] /\ DOMAIN live' \subseteq Nat
    BY <1>1, <1>4, <1>10 DEF TypeOK, HDR
  <2> QED
    BY <1>3, <2>1, <2>2, <2>3 DEF TypeOK, expand_heap, Return, NULL
<1>12. BlocksInOrder'
  <2>1. ASSUME NEW a \in DOMAIN hdr'
        PROVE  /\ Base <= a /\ 4 <= hdr'[a].size
               /\ a + HDR + hdr'[a].size <= heap_limit'
               /\ hdr'[a].next # NULL =>
                    /\ hdr'[a].next \in DOMAIN hdr'
                    /\ a + HDR + hdr'[a].size <= hdr'[a].next
    <3>1. CASE a = new
      BY <1>1, <1>4, <1>6, <1>9, <3>1 DEF HDR
    <3>2. CASE tail /\ a = rest
      BY <1>1, <1>2, <1>3, <1>4, <1>8, <3>2, BaseAssumption
         DEF HDR, MinBlock, tail, HasRest, room, need
    <3>3. CASE a = last
      BY <1>1, <1>3, <1>4, <1>7, <1>9, <3>3, Walk DEF HDR
    <3>4. CASE a \in D \ {last}
      <4>1. a + HDR + hdr[a].size <= heap_limit'
        BY <1>2, <1>3, <1>4, <3>4, Walk DEF HDR
      <4> QED
        BY <1>9, <3>4, <4>1, Walk
    <3> QED
      BY <1>9, <3>1, <3>2, <3>3, <3>4
  <2>2. ASSUME NEW a \in DOMAIN hdr', NEW b \in DOMAIN hdr', a < b
        PROVE  hdr'[a].next # NULL /\ hdr'[a].next <= b
    <3>1. CASE a = new
      BY <1>4, <1>6, <1>9, <2>2, <3>1
    <3>2. CASE tail /\ a = rest
      BY <1>4, <1>9, <2>2, <3>2
    <3>3. CASE a = last
      <4>1. b \notin D
        BY <1>1, <2>2, <3>3, Walk
      <4> QED
        BY <1>4, <1>7, <1>9, <3>3, <4>1
    <3>4. CASE a \in D \ {last}
      <4>1. a < last
        BY <1>1, <1>4, <3>4, Walk
      <4>2. hdr[a].next # NULL /\ hdr[a].next \in D /\ hdr[a].next < new
        BY <1>1, <1>4, <3>4, <4>1, Walk
      <4> QED
        BY <1>4, <1>9, <2>2, <3>4, <4>2, Walk
    <3> QED
      BY <1>9, <3>1, <3>2, <3>3, <3>4
  <2> QED
    BY <2>1, <2>2 DEF BlocksInOrder
<1>13. LiveBlocks'
  <2>1. new + HDR \notin DOMAIN live
    BY <1>4 DEF LiveBlocks, TypeOK, HDR
  <2>2. ASSUME NEW p \in DOMAIN live'
        PROVE  /\ HDR <= p /\ p - HDR \in DOMAIN hdr'
               /\ ~hdr'[p - HDR].is_free
               /\ 0 < live'[p] /\ live'[p] <= hdr'[p - HDR].size
    <3>1. CASE p = new + HDR
      BY <1>1, <1>4, <1>6, <1>9, <1>10, <3>1 DEF HDR
    <3>2. CASE p \in DOMAIN live
      BY <1>7, <1>9, <1>10, <2>1, <3>2 DEF LiveBlocks
    <3> QED
      BY <1>10, <3>1, <3>2
  <2>3. ASSUME NEW a \in DOMAIN hdr', ~hdr'[a].is_free
        PROVE  a + HDR \in DOMAIN live'
    BY <1>7, <1>8, <1>9, <1>10, <2>3 DEF LiveBlocks
  <2> QED
    BY <2>2, <2>3 DEF LiveBlocks
<1>14. Cursor'
  BY DEF Cursor, expand_heap, Return
<1>15. Budget'
  <2>1. (frames + others) * PageSize
          = room + (frames - Pages(need) + others) * PageSize
    BY <1>2, PageAssumption DEF TypeOK, room, Room
  <2>2. /\ (frames + others) * PageSize \in Nat
        /\ (frames' + others') * PageSize \in Nat
    BY <1>3, PageAssumption DEF TypeOK
  <2> QED
    BY <1>2, <1>3, <2>1, <2>2, PageAssumption, BaseAssumption, FramesAssumption
       DEF Budget, TypeOK
<1> QED
  BY <1>11, <1>12, <1>13, <1>14, <1>15

\* ListInv is inductive: one case per action of Heap.
LEMMA StepInv == ListInv /\ [Next]_vars => ListInv'
<1> SUFFICES ASSUME ListInv, [Next]_vars PROVE ListInv'
  OBVIOUS
<1>1. CASE \E n \in Requests : kmalloc(n)
  BY <1>1, CallInv
<1>2. CASE \E p \in DOMAIN live : kfree(p)
  BY <1>2, FreeInv
<1>3. CASE scan_split
  BY <1>3, SplitInv
<1>4. CASE scan_take
  BY <1>4, TakeInv
<1>5. CASE scan_advance
  BY <1>5, AdvanceInv
<1>6. CASE expand_fails
  BY <1>6, ExpandFailsInv
<1>7. CASE expand_heap
  BY <1>7, ExpandInv
<1>8. CASE coalesce_merge
  BY <1>8, MergeInv
<1>9. CASE coalesce_advance \/ coalesce_done
  BY <1>9, WalkStepInv
<1>10. CASE OtherAlloc \/ OtherFree
  BY <1>10, OtherInv
<1>11. CASE UNCHANGED vars
  BY <1>11 DEF ListInv, TypeOK, BlocksInOrder, LiveBlocks, Cursor, Budget, vars
<1> QED
  BY <1>1, <1>2, <1>3, <1>4, <1>5, <1>6, <1>7, <1>8, <1>9, <1>10, <1>11
     DEF Next, Internal

\* ListInv holds in every state the heap can reach.
LEMMA ListInvariant == Spec => []ListInv
  BY InitInv, StepInv, PTL DEF Spec

\* Headers, cursors and counters have their types in every reachable state;
\* next of a header is an address and is_free a truth value.
THEOREM TypeCorrect == Spec => []TypeOK
<1>1. ListInv => TypeOK
  BY DEF ListInv
<1> QED
  BY <1>1, ListInvariant, PTL

\* However kmalloc and kfree are called, the list visits its blocks by rising
\* address and no block reaches into another (heap.cpp:24-117).
THEOREM ListStaysInOrder == Spec => []BlocksInOrder
<1>1. ListInv => BlocksInOrder
  BY DEF ListInv
<1> QED
  BY <1>1, ListInvariant, PTL

\* A pointer that was handed out and not freed always has a block marked in
\* use that is as long as was asked for.
THEOREM LiveBlocksMarked == Spec => []LiveBlocks
<1>1. ListInv => LiveBlocks
  BY DEF ListInv
<1> QED
  BY <1>1, ListInvariant, PTL

\* No header write of a split, a merge or a growth ever lands in bytes a
\* caller owns, and no two callers share a byte.
THEOREM PayloadsStayIntact == Spec => []PayloadsIntact
<1>1. ListInv => PayloadsIntact
  <2> SUFFICES ASSUME ListInv, NEW p \in DOMAIN live
               PROVE  /\ Base + HDR <= p /\ p + live[p] <= heap_limit
                      /\ \A a \in DOMAIN hdr : a + HDR <= p \/ p + live[p] <= a
                      /\ \A q \in DOMAIN live \ {p} :
                            q + live[q] <= p \/ p + live[p] <= q
    BY DEF PayloadsIntact
  <2> USE DEF ListInv
  <2> DEFINE b == p - HDR
  <2>1. /\ b \in DOMAIN hdr /\ p = b + HDR /\ b \in Nat
        /\ live[p] \in Nat /\ live[p] <= hdr[b].size
    BY DEF LiveBlocks, TypeOK, HDR
  <2> HIDE DEF b
  <2>2. /\ Base <= b /\ b + HDR + hdr[b].size <= heap_limit
        /\ hdr[b].size \in Nat /\ heap_limit \in Nat
    BY <2>1, Walk DEF TypeOK
  <2>3. ASSUME NEW a \in DOMAIN hdr
        PROVE  a + HDR <= p \/ p + live[p] <= a
    <3>1. a \in Nat /\ (a < b => a + HDR <= b)
      BY <2>1, Walk DEF HDR
    <3>2. b < a => b + HDR + hdr[b].size <= a
      BY <2>1, Walk
    <3> QED
      BY <2>1, <2>2, <3>1, <3>2 DEF HDR
  <2>4. ASSUME NEW q \in DOMAIN live \ {p}
        PROVE  q + live[q] <= p \/ p + live[p] <= q
    <3> DEFINE c == q - HDR
    <3>1. /\ c \in DOMAIN hdr /\ q = c + HDR /\ c \in Nat /\ c # b
          /\ live[q] \in Nat /\ live[q] <= hdr[c].size
      BY <2>1 DEF LiveBlocks, TypeOK, HDR
    <3> HIDE DEF c
    <3>2. hdr[c].size \in Nat /\ (c < b => c + HDR + hdr[c].size <= b)
      BY <2>1, <3>1, Walk
    <3>3. b < c => b + HDR + hdr[b].size <= c
      BY <2>1, <3>1, Walk
    <3> QED
      BY <2>1, <2>2, <3>1, <3>2, <3>3 DEF HDR
  <2> QED
    BY <2>1, <2>2, <2>3, <2>4, BaseAssumption DEF HDR
<1> QED
  BY <1>1, ListInvariant, PTL

\* No call moves, shrinks or forgets the block of a pointer that stays live
\* across the call.
THEOREM GoodBlocksStay == Spec => LiveBlocksStay
<1>1. ASSUME ListInv, [Next]_vars, NEW p \in DOMAIN live, p \in DOMAIN live'
      PROVE  /\ p - HDR \in DOMAIN hdr'
             /\ hdr'[p - HDR].size = hdr[p - HDR].size
  <2> USE <1>1 DEF ListInv
  <2> DEFINE b == p - HDR
  <2>1. b \in DOMAIN hdr /\ ~hdr[b].is_free
    BY DEF LiveBlocks
  <2> HIDE DEF b
  <2>2. CASE hdr' = hdr
    BY <2>1, <2>2 DEF b
  <2>3. CASE scan_split
    BY <2>1, <2>3, SplitShape DEF b
  <2>4. CASE scan_take
    BY <2>1, <2>4 DEF scan_take, Take, Fits, b
  <2>5. CASE expand_heap
    BY <2>1, <2>5, ExpandShape DEF b
  <2>6. CASE coalesce_merge
    BY <2>1, <2>6, MergeShape DEF b
  <2>7. CASE \E q \in DOMAIN live : kfree(q)
    BY <2>1, <2>7 DEF kfree, TypeOK, Block, b
  <2> QED
    BY <1>1, <2>2, <2>3, <2>4, <2>5, <2>6, <2>7
       DEF Next, Internal, vars, kmalloc, scan_advance, expand_fails,
           coalesce_advance, coalesce_done, OtherAlloc, OtherFree
<1>2. ListInv /\ [Next]_vars =>
        \A p \in DOMAIN live :
          (p \in DOMAIN live' /\ p - HDR \in DOMAIN hdr)
            => /\ p - HDR \in DOMAIN hdr'
               /\ hdr'[p - HDR].size = hdr[p - HDR].size
  BY <1>1
<1> QED
  BY <1>2, ListInvariant, PTL DEF Spec, LiveBlocksStay

\* The walk of coalesce_free_blocks leaves no free pair behind it, and
\* kmalloc never makes one: what it splits off or appends has a used block
\* before it, and the tail it appends to is followed by a used block.
LEMMA CoalescedStep ==
  ASSUME ListInv, Coalesced, [Next]_vars
  PROVE  Coalesced'
<1> USE DEF ListInv
<1> DEFINE Good == \A a \in DOMAIN hdr' :
                     hdr'[a].next # NULL /\ (pc' # "coalesce" \/ hdr'[a].next <= cur')
                       => ~(hdr'[a].is_free /\ hdr'[hdr'[a].next].is_free)
<1>0. Good => Coalesced'
  BY DEF Coalesced, BothFree
<1>1. ASSUME NEW a \in DOMAIN hdr, hdr[a].next # NULL
      PROVE  hdr[a].next \in DOMAIN hdr /\ a < hdr[a].next /\ a \in Nat
             /\ hdr[a].next \in Nat
  BY <1>1, Walk DEF HDR
<1>2. CASE \E n \in Requests : kmalloc(n)
  BY <1>2 DEF kmalloc, Coalesced, BothFree, vars
<1>3. CASE \E p \in DOMAIN live : kfree(p)
  <2>1. \A a \in DOMAIN hdr' : a \in DOMAIN hdr /\ hdr'[a].next = hdr[a].next
    BY <1>3 DEF kfree, TypeOK, Block
  <2>2. pc' = "coalesce" /\ cur' = Base
    BY <1>3 DEF kfree
  <2>3. \A a \in DOMAIN hdr' : hdr'[a].next # NULL => ~(hdr'[a].next <= cur')
    BY <1>1, <2>1, <2>2, Walk, BaseAssumption
  <2> QED
    BY <1>0, <2>2, <2>3
<1>4. CASE scan_split
  <2> SUFFICES ASSUME NEW a \in DOMAIN hdr', hdr'[a].next # NULL, hdr'[a].is_free
               PROVE  ~hdr'[hdr'[a].next].is_free
    BY <1>0
  <2>1. /\ cur \in DOMAIN hdr /\ hdr[cur].is_free /\ pc = "scan"
        /\ SplitAt \notin DOMAIN hdr /\ ~hdr'[cur].is_free
        /\ DOMAIN hdr' = DOMAIN hdr \cup {SplitAt}
        /\ \A x \in DOMAIN hdr \ {cur} : hdr'[x] = hdr[x]
        /\ hdr'[SplitAt].next = hdr[cur].next
    BY <1>4, SplitShape DEF scan_split
  <2>2. CASE a = SplitAt
    <3>1. hdr[cur].next \in DOMAIN hdr \ {cur} /\ hdr[cur].next # NULL
      BY <1>1, <2>1, <2>2
    <3> QED
      BY <2>1, <2>2, <3>1 DEF Coalesced, BothFree
  <2>3. CASE a \in DOMAIN hdr \ {cur}
    BY <1>1, <2>1, <2>3 DEF Coalesced, BothFree
  <2> QED
    BY <2>1, <2>2, <2>3
<1>5. CASE scan_take
  <2>1. /\ DOMAIN hdr' = DOMAIN hdr /\ pc = "scan"
        /\ \A x \in DOMAIN hdr : /\ hdr'[x].next = hdr[x].next
                                 /\ hdr'[x].is_free => hdr[x].is_free
    BY <1>5 DEF scan_take, Take, TypeOK, Block
  <2> QED
    BY <1>0, <1>1, <2>1 DEF Coalesced, BothFree
<1>6. CASE expand_heap
  <2> SUFFICES ASSUME NEW a \in DOMAIN hdr', hdr'[a].next # NULL, hdr'[a].is_free
               PROVE  ~hdr'[hdr'[a].next].is_free
    BY <1>0
  <2>1. CASE a \in DOMAIN hdr \ {last}
    <3>1. /\ hdr'[a] = hdr[a] /\ pc = "scan"
          /\ \A x \in DOMAIN hdr : hdr'[x].is_free = hdr[x].is_free
      BY <1>6, <2>1, ExpandShape DEF expand_heap
    <3> QED
      BY <1>1, <2>1, <3>1 DEF Coalesced, BothFree
  <2>2. CASE a \notin DOMAIN hdr \ {last}
    BY <1>6, <2>2, ExpandShape
  <2> QED
    BY <2>1, <2>2
<1>7. CASE coalesce_merge
  <2>1. pc = "coalesce" /\ pc' = pc /\ cur' = cur
    BY <1>7 DEF coalesce_merge
  <2> SUFFICES ASSUME NEW a \in DOMAIN hdr', hdr'[a].next # NULL, hdr'[a].next <= cur
               PROVE  ~(hdr'[a].is_free /\ hdr'[hdr'[a].next].is_free)
    BY <1>0, <2>1
  <2>2. cur \in DOMAIN hdr /\ Swallowed \in DOMAIN hdr /\ cur < Swallowed
        /\ cur \in Nat /\ Swallowed \in Nat
    BY <1>1, <1>7, MergeShape DEF Swallowed
  <2>3. a \in DOMAIN hdr /\ a # Swallowed /\ a # cur
    <3>1. a = cur => hdr[Swallowed].next <= cur /\ hdr[Swallowed].next # NULL
      BY <1>7, MergeShape
    <3>2. hdr[Swallowed].next # NULL => Swallowed < hdr[Swallowed].next
                                        /\ hdr[Swallowed].next \in Nat
      BY <1>1, <2>2
    <3> QED
      BY <1>7, <2>2, <3>1, <3>2, MergeShape
  <2>4. hdr'[a].next = hdr[a].next /\ hdr'[a].is_free = hdr[a].is_free
    BY <1>7, <2>3, MergeShape
  <2>5. hdr[a].next \in DOMAIN hdr /\ hdr[a].next # Swallowed
    BY <1>1, <2>2, <2>3, <2>4
  <2>6. hdr'[hdr[a].next].is_free => hdr[hdr[a].next].is_free
    BY <1>7, <2>5, MergeShape
  <2> QED
    BY <2>1, <2>3, <2>4, <2>6 DEF Coalesced, BothFree
<1>8. CASE coalesce_advance
  <2>1. cur \in DOMAIN hdr /\ hdr[cur].next # NULL /\ ~BothFree(cur) /\ cur \in Nat
        /\ hdr' = hdr /\ pc' = pc /\ cur' = hdr[cur].next /\ pc = "coalesce"
    BY <1>8 DEF coalesce_advance, Cursor, TypeOK
  <2> SUFFICES ASSUME NEW a \in DOMAIN hdr, hdr[a].next # NULL,
                      hdr[a].next <= hdr[cur].next
               PROVE  ~BothFree(a)
    BY <1>0, <2>1 DEF BothFree
  <2>2. a < cur => hdr[a].next <= cur
    BY <2>1, Walk
  <2>3. ~(cur < a)
    BY <1>1, <2>1, Walk
  <2>4. a = cur \/ a < cur
    BY <1>1, <2>1, <2>3
  <2> QED
    BY <2>1, <2>2, <2>4 DEF Coalesced
<1>9. CASE coalesce_done
  <2>1. cur \in DOMAIN hdr /\ hdr[cur].next = NULL /\ cur \in Nat
        /\ hdr' = hdr /\ pc = "coalesce"
    BY <1>9 DEF coalesce_done, Cursor, TypeOK
  <2> SUFFICES ASSUME NEW a \in DOMAIN hdr, hdr[a].next # NULL
               PROVE  ~BothFree(a)
    BY <1>0, <2>1 DEF BothFree
  <2>2. a < cur
    BY <1>1, <2>1, Walk
  <2>3. hdr[a].next <= cur
    BY <2>1, <2>2, Walk
  <2> QED
    BY <2>1, <2>3 DEF Coalesced
<1>10. CASE scan_advance \/ expand_fails \/ OtherAlloc \/ OtherFree
  BY <1>10 DEF scan_advance, expand_fails, OtherAlloc, OtherFree, Return,
               Coalesced, BothFree
<1>11. CASE UNCHANGED vars
  BY <1>11 DEF Coalesced, BothFree, vars
<1> HIDE DEF Good
<1> QED
  BY <1>2, <1>3, <1>4, <1>5, <1>6, <1>7, <1>8, <1>9, <1>10, <1>11 DEF Next, Internal

\* One pass of coalesce_free_blocks after each kfree is enough to keep the
\* list free of adjacent free blocks between calls (heap.cpp:103-117).
THEOREM OnePassCoalesces == Spec => []Coalesced
<1>1. Init => Coalesced
  BY DEF Init, init_heap, Header, Coalesced
<1> QED
  BY <1>1, CoalescedStep, ListInvariant, PTL DEF Spec

\* When every pointer has been freed the heap is a single free block,
\* whatever calls were made before: WholeAgain follows from LiveBlocks and
\* Coalesced.
THEOREM HeapBecomesWhole == Spec => []WholeAgain
<1>1. ListInv /\ Coalesced => WholeAgain
  <2> SUFFICES ASSUME ListInv, Coalesced, pc = "idle", DOMAIN live = {}
               PROVE  DOMAIN hdr = {Base} /\ hdr[Base].is_free
    BY DEF WholeAgain
  <2> USE DEF ListInv
  <2>1. \A a \in DOMAIN hdr : hdr[a].is_free
    BY DEF LiveBlocks
  <2>2. Base \in DOMAIN hdr
    BY DEF TypeOK
  <2>3. ASSUME NEW b \in DOMAIN hdr, b # Base
        PROVE  FALSE
    <3>1. Base < b
      BY <2>3, Walk, BaseAssumption
    <3>2. hdr[Base].next # NULL /\ hdr[Base].next \in DOMAIN hdr
      BY <2>2, <3>1, Walk
    <3> QED
      BY <2>1, <2>2, <3>2 DEF Coalesced, BothFree
  <2> QED
    BY <2>1, <2>2, <2>3
<1> QED
  BY <1>1, ListInvariant, OnePassCoalesces, PTL

\* Each block the scan passes is unfit, and the list does not change while
\* the scan runs.
LEMMA FirstFitStep ==
  ASSUME ListInv, FirstFit, [Next]_vars
  PROVE  FirstFit'
<1> USE DEF ListInv
<1>1. CASE \E n \in Requests : kmalloc(n)
  <2>1. CASE UNCHANGED vars
    BY <2>1 DEF FirstFit, Fits, vars
  <2>2. CASE cur' = Base /\ hdr' = hdr
    BY <2>2, Walk, BaseAssumption DEF FirstFit, NULL
  <2> QED
    BY <1>1, <2>1, <2>2 DEF kmalloc
<1>2. CASE scan_advance
  <2>1. /\ cur \in DOMAIN hdr /\ cur \in Nat /\ ~Fits(cur, size) /\ pc = "scan"
        /\ cur # NULL /\ cur' = hdr[cur].next /\ UNCHANGED <<hdr, size, pc>>
    BY <1>2 DEF scan_advance, Cursor, TypeOK
  <2> SUFFICES ASSUME NEW a \in DOMAIN hdr, hdr[a].is_free, hdr[a].size >= size
               PROVE  hdr[cur].next # NULL /\ hdr[cur].next <= a
    BY <2>1 DEF FirstFit
  <2>2. cur <= a /\ cur # a /\ a \in Nat
    BY <2>1, Walk DEF FirstFit, Fits
  <2> QED
    BY <2>1, <2>2, Walk
<1>3. CASE pc' # "scan"
  BY <1>3 DEF FirstFit
<1>4. CASE UNCHANGED <<hdr, pc, size, cur>>
  BY <1>4 DEF FirstFit, Fits
<1> QED
  BY <1>1, <1>2, <1>3, <1>4
     DEF Next, Internal, vars, kfree, scan_split, scan_take, expand_fails,
         expand_heap, coalesce_merge, coalesce_advance, coalesce_done, Return,
         OtherAlloc, OtherFree

\* kmalloc hands out the first block of the list that is large enough and
\* grows the heap only when there is none (heap.cpp:31-57).
THEOREM FirstFitAlways == Spec => []FirstFit
<1>1. Init => FirstFit
  BY DEF Init, FirstFit
<1> QED
  BY <1>1, FirstFitStep, ListInvariant, PTL DEF Spec

\* kmalloc answers NULL only when no free block fits and every frame is used
\* up, and a refused call leaves all headers unchanged.
THEOREM RefusalIsHonest == Spec => RefusedOnlyWhenFull
<1>1. ASSUME ListInv, FirstFit, [Next]_vars,
             pc = "scan", pc' = "idle", DOMAIN live' = DOMAIN live
      PROVE  /\ \A a \in DOMAIN hdr : ~(hdr[a].is_free /\ hdr[a].size >= size)
             /\ frames' = 0 /\ hdr' = hdr
  <2> USE <1>1 DEF ListInv
  <2>1. CASE scan_split \/ scan_take
    <3>1. /\ cur \in DOMAIN hdr /\ hdr[cur].is_free /\ cur \in Nat
          /\ cur + HDR \in DOMAIN live'
      BY <2>1 DEF scan_split, scan_take, HandOut, Fits, Cursor, TypeOK
    <3> QED
      BY <3>1 DEF LiveBlocks, HDR
  <2>2. CASE expand_heap
    <3>1. heap_limit + HDR \in DOMAIN live'
      BY <2>2 DEF expand_heap, HandOut
    <3>2. heap_limit \notin DOMAIN hdr /\ heap_limit \in Nat
      BY <2>2, ExpandShape
    <3> QED
      BY <3>1, <3>2 DEF LiveBlocks, HDR
  <2>3. CASE expand_fails
    BY <2>3 DEF expand_fails, FirstFit
  <2> QED
    BY <2>1, <2>2, <2>3
       DEF Next, Internal, vars, kmalloc, kfree, scan_advance, coalesce_merge,
           coalesce_advance, coalesce_done, OtherAlloc, OtherFree
<1>2. ListInv /\ FirstFit /\ [Next]_vars =>
        (pc = "scan" /\ pc' = "idle" /\ DOMAIN live' = DOMAIN live
           => /\ \A a \in DOMAIN hdr : ~(hdr[a].is_free /\ hdr[a].size >= size)
              /\ frames' = 0 /\ hdr' = hdr)
  BY <1>1
<1> QED
  BY <1>2, ListInvariant, FirstFitAlways, PTL DEF Spec, RefusedOnlyWhenFull

\* The return step of kmalloc is a step of the abstract allocator.
LEMMA HandOutAllocates ==
  ASSUME ListInv, size \in Granted, NEW a \in Nat, HandOut(a),
         Base <= a, a + HDR + size <= Base + PageSize + Frames * PageSize,
         \A b \in DOMAIN hdr : ~hdr[b].is_free =>
            b + HDR + hdr[b].size <= a \/ a + HDR + size <= b
  PROVE  A!Next
<1> USE DEF ListInv
<1> DEFINE p == a + HDR
           hi == Base + PageSize + Frames * PageSize
<1>1. size \in Nat /\ 4 <= size /\ p \in Nat
  BY GrantedFacts DEF HDR
<1>2. hi \in Nat
  BY BaseAssumption, PageAssumption, FramesAssumption
<1>3. p \in Base .. hi
  BY <1>1, <1>2, BaseAssumption DEF HDR
<1>4. A!Fits(p, size)
  BY <1>1, BaseAssumption DEF A!Fits, HDR
<1>5. ASSUME NEW q \in DOMAIN live
      PROVE  A!Apart(p, size, q, live[q])
  <2> DEFINE b == q - HDR
  <2>1. /\ b \in DOMAIN hdr /\ ~hdr[b].is_free /\ q = b + HDR /\ b \in Nat
        /\ live[q] <= hdr[b].size /\ live[q] \in Nat
    BY DEF LiveBlocks, TypeOK, HDR
  <2> HIDE DEF b
  <2>2. hdr[b].size \in Nat
    BY <2>1, Walk
  <2>3. b + HDR + hdr[b].size <= a \/ a + HDR + size <= b
    BY <2>1
  <2> QED
    BY <1>1, <2>1, <2>2, <2>3 DEF A!Apart, HDR
<1>6. live' = [q \in DOMAIN live \cup {p} |-> IF q = p THEN size ELSE live[q]]
  BY DEF HandOut
<1> HIDE DEF p, hi
<1>7. A!Allocate(p, size)
  BY <1>4, <1>5, <1>6 DEF A!Allocate
<1> QED
  BY <1>3, <1>7 DEF A!Next, hi

\* The heap refines its specification Allocator: kmalloc hands out extents
\* apart from all live ones, with room for a header in front of each, and
\* everything else the code does is invisible to callers.
THEOREM HeapImplementsAllocator == Spec => AllocatorSpec
<1>1. Init => A!Init
  BY DEF Init, A!Init
<1>2. ASSUME ListInv, [Next]_vars
      PROVE  [A!Next]_live
  <2> USE <1>2 DEF ListInv
  <2> DEFINE hi == Base + PageSize + Frames * PageSize
  <2>1. hi \in Nat /\ heap_limit <= hi /\ heap_limit \in Nat
    <3>1. (frames + others) * PageSize \in Nat
      BY PageAssumption DEF TypeOK
    <3> QED
      BY <3>1, BaseAssumption, PageAssumption, FramesAssumption DEF Budget, TypeOK
  <2> HIDE DEF hi
  <2>2. CASE scan_split \/ scan_take
    <3>1. /\ cur \in DOMAIN hdr /\ hdr[cur].is_free /\ size \in Granted
          /\ size <= hdr[cur].size /\ HandOut(cur) /\ size \in Nat
      BY <2>2, GrantedFacts DEF scan_split, scan_take, Fits, Cursor
    <3>2. /\ cur \in Nat /\ Base <= cur /\ hdr[cur].size \in Nat
          /\ cur + HDR + hdr[cur].size <= heap_limit
      BY <3>1, Walk
    <3>3. ASSUME NEW b \in DOMAIN hdr, ~hdr[b].is_free
          PROVE  b + HDR + hdr[b].size <= cur \/ cur + HDR + size <= b
      <4>1. b \in Nat /\ b # cur /\ (b < cur => b + HDR + hdr[b].size <= cur)
        BY <3>1, <3>3, Walk
      <4>2. cur < b => cur + HDR + hdr[cur].size <= b
        BY <3>1, Walk
      <4> QED
        BY <3>1, <3>2, <4>1, <4>2 DEF HDR
    <3>4. cur + HDR + size <= hi
      BY <2>1, <3>1, <3>2 DEF HDR
    <3> QED
      BY <3>1, <3>2, <3>3, <3>4, HandOutAllocates DEF hi
  <2>3. CASE expand_heap
    <3>1. size \in Granted /\ HandOut(heap_limit)
      BY <2>3 DEF expand_heap, Cursor
    <3>2. /\ Base <= heap_limit /\ heap_limit \in Nat
          /\ \A b \in DOMAIN hdr : b + HDR + hdr[b].size <= heap_limit
          /\ heap_limit + HDR + size <= heap_limit' /\ heap_limit' \in Nat
          /\ size \in Nat /\ frames' \in Nat /\ others' \in Nat
      BY <2>3, ExpandShape DEF TypeOK
    <3>3. heap_limit' <= hi
      <4>1. Budget'
        BY <2>3, ExpandInv
      <4>2. (frames' + others') * PageSize \in Nat
        BY <3>2, PageAssumption, SumTimes
      <4> QED
        BY <3>2, <4>1, <4>2, <2>1 DEF Budget, hi
    <3>4. heap_limit + HDR + size <= hi
      BY <2>1, <3>2, <3>3 DEF HDR
    <3> QED
      BY <3>1, <3>2, <3>4, HandOutAllocates DEF hi
  <2>4. CASE \E p \in DOMAIN live : kfree(p)
    BY <2>4 DEF kfree, A!Next, A!Release
  <2> QED
    BY <2>2, <2>3, <2>4
       DEF Next, Internal, vars, kmalloc, scan_advance, expand_fails,
           coalesce_merge, coalesce_advance, coalesce_done, OtherAlloc, OtherFree
<1>3. ListInv /\ [Next]_vars => [A!Next]_live
  BY <1>2
<1> QED
  BY <1>1, <1>3, ListInvariant, PTL DEF Spec, AllocatorSpec, A!Spec

\* A number of whole pages is a multiple of 4.
LEMMA PagesAligned ==
  ASSUME NEW k \in Nat, NEW d \in Nat, d % 4 = 0
  PROVE  (k * d) % 4 = 0
<1> DEFINE e == d \div 4
<1>1. e \in Nat /\ d = 4 * e
  OBVIOUS
<1>2. k * d = 4 * (k * e) /\ k * e \in Nat
  BY <1>1
<1>3. PICK m \in Nat : k * d = 4 * m
  BY <1>2
<1> QED
  BY <1>3

\* Rounding, splitting, growing and merging keep addresses and sizes
\* multiples of 4.
LEMMA AlignedStep ==
  ASSUME ListInv, Aligned, [Next]_vars
  PROVE  Aligned'
<1> USE DEF ListInv
<1>0. \A a \in DOMAIN hdr : a \in Nat /\ hdr[a].size \in Nat
  BY Walk
<1>1. CASE UNCHANGED hdr /\ UNCHANGED <<heap_limit, size>>
  BY <1>1 DEF Aligned
<1>2. CASE \E n \in Requests : kmalloc(n)
  <2>1. UNCHANGED <<hdr, heap_limit>> /\ (size' = size \/ size' \in Granted)
    BY <1>2 DEF kmalloc, vars, Granted
  <2> QED
    BY <2>1, GrantedFacts DEF Aligned
<1>3. CASE \E p \in DOMAIN live : kfree(p)
  BY <1>3 DEF kfree, Aligned, TypeOK, Block
<1>4. CASE scan_split
  <2>1. /\ size % 4 = 0 /\ cur % 4 = 0 /\ hdr[cur].size % 4 = 0
        /\ cur \in Nat /\ hdr[cur].size \in Nat /\ size \in Nat
        /\ hdr[cur].size - size >= MinBlock
    BY <1>0, <1>4, SplitShape DEF Aligned
  <2>2. SplitAt % 4 = 0 /\ (hdr[cur].size - size - HDR) % 4 = 0
    BY <2>1 DEF SplitAt, HDR, MinBlock
  <2>3. size' = 0 /\ heap_limit' = heap_limit
    BY <1>4 DEF scan_split, Return
  <2> QED
    BY <1>4, <2>1, <2>2, <2>3, SplitShape DEF Aligned
<1>5. CASE scan_take
  BY <1>5 DEF scan_take, Take, Return, Aligned, TypeOK, Block
<1>6. CASE expand_fails
  <2>1. (frames * PageSize) % 4 = 0 /\ frames * PageSize \in Nat
    BY PageAssumption, PagesAligned DEF TypeOK
  <2>2. heap_limit' % 4 = 0
    BY <1>6, <2>1 DEF Aligned, expand_fails, TypeOK
  <2> QED
    BY <1>6, <2>2 DEF Aligned, expand_fails, Return
<1>7. CASE expand_heap
  <2>1. Room % 4 = 0
    BY <1>7, PageAssumption, PagesAligned, ExpandShape DEF Room
  <2>2. /\ Room \in Nat /\ heap_limit \in Nat /\ size \in Nat
        /\ size % 4 = 0 /\ heap_limit % 4 = 0
    BY <1>7, ExpandShape DEF Aligned
  <2>3. /\ RestAt % 4 = 0
        /\ heap_limit' % 4 = 0
        /\ HasRest => (Room - (size + HDR) - HDR) % 4 = 0
    BY <1>7, <2>1, <2>2, ExpandShape DEF RestAt, HDR
  <2>4. size' = 0
    BY <1>7 DEF expand_heap, Return
  <2> QED
    BY <1>7, <2>2, <2>3, <2>4, ExpandShape DEF Aligned
<1>8. CASE coalesce_merge
  <2>1. (hdr[cur].size + hdr[Swallowed].size + HDR) % 4 = 0
    BY <1>0, <1>8, MergeShape DEF Aligned, HDR
  <2>2. UNCHANGED <<size, heap_limit>>
    BY <1>8 DEF coalesce_merge
  <2> QED
    BY <1>8, <2>1, <2>2, MergeShape DEF Aligned
<1>9. CASE coalesce_done
  BY <1>9 DEF coalesce_done, Return, Aligned
<1> QED
  BY <1>1, <1>2, <1>3, <1>4, <1>5, <1>6, <1>7, <1>8, <1>9
     DEF Next, Internal, vars, scan_advance, coalesce_advance, OtherAlloc, OtherFree

\* Every block address and size is a multiple of 4 for good, so the pointers
\* kmalloc returns suit any 32-bit object (heap.cpp:27).
THEOREM PointersAligned == Spec => []Aligned
<1>1. Init => Aligned
  BY BaseAssumption, PageAssumption DEF Init, init_heap, Header, Aligned, HDR
<1> QED
  BY <1>1, AlignedStep, ListInvariant, PTL DEF Spec

\* What the loop that runs has before it, in bytes: from current_block, and
\* from the end of its block, to heap_limit.  A walk shortens both, a merge
\* the second.
Left ==
    IF cur = NULL THEN 0
    ELSE 1 + (heap_limit - cur) + (heap_limit - (cur + HDR + hdr[cur].size))

\* Every turn of a loop that goes on leaves less before it than there was.
LoopsAdvance == [][pc # "idle" /\ pc' # "idle" => Left' < Left]_vars

\* What is left is never negative.
LEMMA LeftFacts ==
  ASSUME ListInv, pc # "idle"
  PROVE  /\ Left \in Nat
         /\ cur # NULL => Left = 1 + 2 * heap_limit - 2 * cur - HDR - hdr[cur].size
<1> USE DEF ListInv
<1>1. heap_limit \in Nat /\ cur \in Nat BY DEF TypeOK
<1>2. CASE cur = NULL BY <1>2 DEF Left
<1>3. CASE cur # NULL
  <2>1. cur \in DOMAIN hdr BY <1>3 DEF Cursor, TypeOK
  <2>2. hdr[cur].size \in Nat /\ cur + HDR + hdr[cur].size <= heap_limit BY <2>1, Walk
  <2> QED BY <1>1, <1>3, <2>2 DEF Left, HDR
<1> QED BY <1>2, <1>3

\* The step to the next block, in kmalloc's scan or in coalesce_free_blocks
\* (heap.cpp:52, 113).
LEMMA StepLeft ==
  ASSUME ListInv, cur # NULL, pc \in {"scan", "coalesce"},
         UNCHANGED <<hdr, heap_limit>>, cur' = hdr[cur].next
  PROVE  Left' < Left
<1> USE DEF ListInv
<1>1. cur \in DOMAIN hdr BY DEF Cursor
<1>2. /\ heap_limit \in Nat /\ cur \in Nat /\ hdr[cur].size \in Nat
      /\ cur + HDR + hdr[cur].size <= heap_limit
  BY <1>1, Walk DEF TypeOK
<1>3. Left = 1 + 2 * heap_limit - 2 * cur - HDR - hdr[cur].size BY LeftFacts
<1>4. CASE hdr[cur].next = NULL
  <2>1. Left' = 0 BY <1>4 DEF Left
  <2> QED BY <1>2, <1>3, <2>1 DEF HDR
<1>5. CASE hdr[cur].next # NULL
  <2> DEFINE b == hdr[cur].next
  <2>1. b \in DOMAIN hdr /\ cur + HDR + hdr[cur].size <= b BY <1>1, <1>5, Walk
  <2>2. b \in Nat /\ hdr[b].size \in Nat BY <2>1, Walk
  <2>3. Left' = 1 + (heap_limit - b) + (heap_limit - (b + HDR + hdr[b].size))
    BY <1>5 DEF Left
  <2> HIDE DEF b
  <2> QED BY <1>2, <1>3, <2>1, <2>2, <2>3 DEF HDR
<1> QED BY <1>4, <1>5

\* A merge keeps current_block and takes the block behind it away from what is
\* left (heap.cpp:105-111).
LEMMA MergeLeft ==
  ASSUME ListInv, coalesce_merge
  PROVE  Left' < Left
<1> USE DEF ListInv
<1>1. cur \in DOMAIN hdr /\ Swallowed \in DOMAIN hdr BY MergeShape
<1>2. /\ heap_limit \in Nat /\ cur \in Nat /\ cur # NULL
      /\ hdr[cur].size \in Nat /\ hdr[Swallowed].size \in Nat
  BY <1>1, Walk DEF TypeOK
<1>3. hdr'[cur].size = hdr[cur].size + hdr[Swallowed].size + HDR BY MergeShape
<1>4. cur' = cur /\ heap_limit' = heap_limit BY DEF coalesce_merge
<1>5. /\ Left  = 1 + (heap_limit - cur) + (heap_limit - (cur + HDR + hdr[cur].size))
      /\ Left' = 1 + (heap_limit - cur) + (heap_limit - (cur + HDR + hdr'[cur].size))
  BY <1>2, <1>4 DEF Left
<1> QED BY <1>2, <1>3, <1>5 DEF HDR

\* No call of kmalloc or kfree goes round for ever: what its loop has left is a
\* natural number and gets smaller each turn, so a call makes fewer turns than
\* twice the bytes of the heap.  In particular current_block may stay where it
\* is after a merge (heap.cpp:105-113).
THEOREM LoopsEnd == Spec => [](pc # "idle" => Left \in Nat) /\ LoopsAdvance
<1>1. ListInv => (pc # "idle" => Left \in Nat) BY LeftFacts
<1>2. ListInv /\ [Next]_vars => [pc # "idle" /\ pc' # "idle" => Left' < Left]_vars
  <2> SUFFICES ASSUME ListInv, Next, pc # "idle", pc' # "idle" PROVE Left' < Left
    BY DEF ListInv
  <2>1. CASE scan_advance BY <2>1, StepLeft DEF scan_advance
  <2>2. CASE coalesce_advance
    <3>1. cur # NULL
      BY <2>2, Walk DEF ListInv, Cursor, coalesce_advance
    <3> QED BY <2>2, <3>1, StepLeft DEF coalesce_advance
  <2>3. CASE coalesce_merge BY <2>3, MergeLeft
  <2>4. CASE \E n \in Requests : kmalloc(n) BY <2>4 DEF kmalloc
  <2> QED
    BY <2>1, <2>2, <2>3, <2>4
       DEF Next, Internal, kfree, OtherAlloc, OtherFree, scan_split, scan_take,
           expand_fails, expand_heap, coalesce_done, Return
<1> QED BY <1>1, <1>2, ListInvariant, PTL DEF Spec, LoopsAdvance
=============================================================================
