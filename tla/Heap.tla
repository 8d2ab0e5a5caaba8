-------------------------------- MODULE Heap --------------------------------
(***************************************************************************)
(* The kernel heap, kernel/mem/heap.cpp: a singly walked list of blocks,   *)
(* each a 16-byte header followed by its payload, in one growing range of  *)
(* virtual addresses.  kmalloc takes the first free block that is large    *)
(* enough, splits it when the rest can hold a block of its own, and asks   *)
(* the frame allocator for pages when nothing fits; kfree marks a block    *)
(* free and walks the list once, merging neighbours.                       *)
(*                                                                         *)
(* An address is a number.  The headers in memory are the function hdr on  *)
(* the addresses of the blocks of the list; a header swallowed by a merge  *)
(* leaves its domain.  The two loops of the code are one action per        *)
(* iteration (pc says which loop runs); everything else a call does is in  *)
(* one action, since no interrupt handler calls the heap.                  *)
(***************************************************************************)
EXTENDS Integers

CONSTANTS PageSize,   \* 4096
          WordSize,   \* 2^32: addresses and sizes wrap modulo WordSize
          Base,       \* PA_VA of the frame init_heap took: the first block
          Frames,     \* frames left in the frame allocator after init_heap
          Requests    \* the sizes callers ask for

HDR  == 16            \* sizeof(heap_block_t)
NULL == 0

\* One more page-rounding step must not wrap for a size that is asked for;
\* the very largest sizes are harmless too, since they are rounded to 0.
Sane(n) == n <= WordSize - PageSize - HDR - 4 \/ n > WordSize - 4

ASSUME PageAssumption ==
    PageSize \in Nat /\ PageSize % 4 = 0 /\ PageSize > 2 * HDR + 4
ASSUME WordAssumption == WordSize \in Nat /\ WordSize % 4 = 0
ASSUME BaseAssumption == Base \in Nat \ {0} /\ Base % 4 = 0
ASSUME FramesAssumption ==
    Frames \in Nat /\ Base + PageSize + Frames * PageSize < WordSize
ASSUME RequestsAssumption ==
    Requests \subseteq 0 .. WordSize - 1 /\ \A n \in Requests : Sane(n)

VARIABLES hdr,         \* address of a block -> its header
          heap_limit,  \* first address behind the pages mapped for the heap
          frames,      \* frames pmm_alloc_page can still return
          others,      \* frames held by users of the allocator but the heap
          pc,          \* the loop that runs: "idle", "scan" or "coalesce"
          size,        \* kmalloc's rounded size
          cur,         \* current_block of the loop that runs
          last,        \* last_block of kmalloc's scan
          live         \* pointers returned and not freed -> size asked for

vars == <<hdr, heap_limit, frames, others, pc, size, cur, last, live>>

Block == [size : Nat, is_free : BOOLEAN, next : Nat, prev : Nat]
Header(s, f, n, p) == [size |-> s, is_free |-> f, next |-> n, prev |-> p]

\* Unsigned 32-bit addition of two words.
Add(a, b) == IF a + b < WordSize THEN a + b ELSE a + b - WordSize

\* (size + 3) & ~3
RoundUp4(n) == Add(n, 3) - (Add(n, 3) % 4)

Granted == {RoundUp4(n) : n \in Requests} \ {0}

\* (needed_size + 4095) / 4096
Pages(n) == Add(n, PageSize - 1) \div PageSize

\* Variant: > for >=.
Fits_strict(a, n) == hdr[a].is_free /\ hdr[a].size > n

Fits(a, n) == hdr[a].is_free /\ hdr[a].size >= n

\* Variant: the header of the second block is forgotten.
MinBlock_bare == 4

MinBlock == HDR + 4   \* the least a block takes, its header included
-----------------------------------------------------------------------------
init_heap ==
    /\ hdr = [a \in {Base} |-> Header(PageSize - HDR, TRUE, NULL, NULL)]
    /\ heap_limit = Base + PageSize

Init ==
    /\ init_heap
    /\ frames = Frames
    /\ others = 0
    /\ pc = "idle" /\ size = 0 /\ cur = NULL /\ last = NULL
    /\ live = [p \in {} |-> 0]

\* kmalloc up to its loop; a size that rounds to 0 is refused at once.
kmalloc(n) ==
    /\ pc = "idle"
    /\ \/ /\ RoundUp4(n) = 0
          /\ UNCHANGED vars
       \/ /\ RoundUp4(n) # 0
          /\ pc' = "scan"
          /\ size' = RoundUp4(n)
          /\ cur' = Base /\ last' = Base
          /\ UNCHANGED <<hdr, heap_limit, frames, others, live>>

\* The locals of a call disappear when it returns.
Return == pc' = "idle" /\ size' = 0 /\ cur' = NULL /\ last' = NULL

HandOut(a) ==
    live' = [p \in DOMAIN live \cup {a + HDR} |->
                IF p = a + HDR THEN size ELSE live[p]]

\* Variant: the new header is written sizeof(heap_block_t) too low.
Split_low(a, n) ==
    LET new == a + n IN
    [x \in DOMAIN hdr \cup {new} |->
        IF x = new THEN Header(hdr[a].size - n - HDR, TRUE, hdr[a].next, a)
        ELSE IF x = a THEN Header(n, FALSE, new, hdr[a].prev) ELSE hdr[x]]

\* The block fits and the rest of it can hold a header and a payload.
Split(a, n) ==
    LET new == a + HDR + n IN
    [x \in DOMAIN hdr \cup {new} |->
        CASE x = a   -> Header(n, FALSE, new, hdr[a].prev)
          [] x = new -> Header(hdr[a].size - n - HDR, TRUE, hdr[a].next, a)
          [] OTHER   -> hdr[x]]

Take(a) ==
    [x \in DOMAIN hdr |-> IF x = a THEN [hdr[a] EXCEPT !.is_free = FALSE] ELSE hdr[x]]

scan_split ==
    /\ pc = "scan" /\ cur # NULL
    /\ Fits(cur, size)
    /\ hdr[cur].size - size >= MinBlock
    /\ hdr' = Split(cur, size)
    /\ HandOut(cur)
    /\ Return
    /\ UNCHANGED <<heap_limit, frames, others>>

scan_take ==
    /\ pc = "scan" /\ cur # NULL
    /\ Fits(cur, size)
    /\ hdr[cur].size - size < MinBlock
    /\ hdr' = Take(cur)
    /\ HandOut(cur)
    /\ Return
    /\ UNCHANGED <<heap_limit, frames, others>>

scan_advance ==
    /\ pc = "scan" /\ cur # NULL
    /\ ~Fits(cur, size)
    /\ last' = cur
    /\ cur' = hdr[cur].next
    /\ UNCHANGED <<hdr, heap_limit, frames, others, pc, size, live>>

\* Variant: the new block is linked before its pages are there.
expand_fails_linked ==
    /\ pc = "scan" /\ cur = NULL
    /\ frames < Pages(Add(size, HDR))
    /\ heap_limit' = heap_limit + frames * PageSize
    /\ frames' = 0
    /\ hdr' = [hdr EXCEPT ![last].next = heap_limit]
    /\ Return
    /\ UNCHANGED <<others, live>>

\* expand_heap: the page loop runs out of frames after got pages.  The pages
\* it mapped stay behind heap_limit and belong to no block.
expand_fails ==
    /\ pc = "scan" /\ cur = NULL
    /\ frames < Pages(Add(size, HDR))
    /\ heap_limit' = heap_limit + frames * PageSize
    /\ frames' = 0
    /\ Return
    /\ UNCHANGED <<hdr, others, live>>

\* expand_heap: the block goes at the old heap_limit, the rest of its last
\* page becomes a free block of its own when it is larger than MinBlock.
Append(new, n, remaining) ==
    LET rest == new + HDR + n
        tail == remaining > MinBlock
    IN  [x \in DOMAIN hdr \cup {new} \cup (IF tail THEN {rest} ELSE {}) |->
            CASE x = new  -> Header(n, FALSE, IF tail THEN rest ELSE NULL, last)
              [] x = last -> [hdr[last] EXCEPT !.next = new]
              [] x = rest -> Header(remaining - HDR, TRUE, NULL, new)
              [] OTHER    -> hdr[x]]

expand_heap ==
    LET needed_size  == Add(size, HDR)
        needed_pages == Pages(needed_size)
    IN  /\ pc = "scan" /\ cur = NULL
        /\ needed_pages <= frames
        /\ heap_limit' = heap_limit + needed_pages * PageSize
        /\ frames' = frames - needed_pages
        /\ hdr' = Append(heap_limit, size, needed_pages * PageSize - needed_size)
        /\ HandOut(heap_limit)
        /\ Return
        /\ UNCHANGED others

\* kfree up to the loop of coalesce_free_blocks, for a pointer kmalloc gave.
kfree(p) ==
    /\ pc = "idle"
    /\ hdr' = [hdr EXCEPT ![p - HDR].is_free = TRUE]
    /\ live' = [q \in DOMAIN live \ {p} |-> live[q]]
    /\ pc' = "coalesce"
    /\ cur' = Base
    /\ UNCHANGED <<heap_limit, frames, others, size, last>>

BothFree(a) == hdr[a].is_free /\ hdr[hdr[a].next].is_free

\* Variant: the header is counted twice.
Merge_long(a, b) ==
    [x \in DOMAIN hdr \ {b} |->
        IF x = a THEN Header(hdr[a].size + hdr[b].size + 2 * HDR, TRUE,
                             hdr[b].next, hdr[a].prev)
        ELSE hdr[x]]

\* Block a swallows block b, its successor.
Merge(a, b) ==
    [x \in DOMAIN hdr \ {b} |->
        CASE x = a -> Header(hdr[a].size + hdr[b].size + HDR, TRUE,
                             hdr[b].next, hdr[a].prev)
          [] x # a /\ x = hdr[b].next -> [hdr[x] EXCEPT !.prev = a]
          [] OTHER -> hdr[x]]

\* Variant: the walk moves on after each merge.
coalesce_merge_once ==
    LET b == hdr[cur].next IN
    /\ pc = "coalesce"
    /\ b # NULL
    /\ BothFree(cur)
    /\ hdr' = Merge(cur, b)
    /\ cur' = IF hdr[b].next = NULL THEN cur ELSE hdr[b].next
    /\ UNCHANGED <<heap_limit, frames, others, pc, size, last, live>>

coalesce_merge ==
    /\ pc = "coalesce"
    /\ hdr[cur].next # NULL
    /\ BothFree(cur)
    /\ hdr' = Merge(cur, hdr[cur].next)
    /\ UNCHANGED <<heap_limit, frames, others, pc, size, cur, last, live>>

\* Variant: current_block is not advanced.
coalesce_advance_stuck ==
    /\ pc = "coalesce"
    /\ hdr[cur].next # NULL
    /\ ~BothFree(cur)
    /\ UNCHANGED vars

coalesce_advance ==
    /\ pc = "coalesce"
    /\ hdr[cur].next # NULL
    /\ ~BothFree(cur)
    /\ cur' = hdr[cur].next
    /\ UNCHANGED <<hdr, heap_limit, frames, others, pc, size, last, live>>

coalesce_done ==
    /\ pc = "coalesce"
    /\ hdr[cur].next = NULL
    /\ Return
    /\ UNCHANGED <<hdr, heap_limit, frames, others, live>>

\* pmm_alloc_page and pmm_free_page called by the rest of the kernel
\* (test_memory takes and returns frames between two calls of the heap).
OtherAlloc ==
    /\ pc = "idle" /\ frames > 0
    /\ frames' = frames - 1 /\ others' = others + 1
    /\ UNCHANGED <<hdr, heap_limit, pc, size, cur, last, live>>

OtherFree ==
    /\ pc = "idle" /\ others > 0
    /\ frames' = frames + 1 /\ others' = others - 1
    /\ UNCHANGED <<hdr, heap_limit, pc, size, cur, last, live>>

Internal ==
    \/ scan_split \/ scan_take \/ scan_advance \/ expand_fails \/ expand_heap
    \/ coalesce_merge \/ coalesce_advance \/ coalesce_done

Next ==
    \/ \E n \in Requests : kmalloc(n)
    \/ \E p \in DOMAIN live : kfree(p)
    \/ Internal
    \/ OtherAlloc
    \/ OtherFree

Spec == Init /\ [][Next]_vars

\* A call that has begun keeps running: there is one thread, and interrupt
\* handlers return to it.
FairSpec == Spec /\ WF_vars(Internal)
-----------------------------------------------------------------------------
(* Properties *)

\* Types, and where the locals of a running call may point: kmalloc's
\* last_block is a block of the list, the tail once current_block is NULL.
TypeOK ==
    /\ hdr \in [DOMAIN hdr -> Block]
    /\ DOMAIN hdr \subseteq Nat /\ Base \in DOMAIN hdr
    /\ heap_limit \in Nat /\ frames \in Nat /\ others \in Nat
    /\ pc \in {"idle", "scan", "coalesce"}
    /\ size \in Nat /\ cur \in Nat /\ last \in Nat
    /\ live \in [DOMAIN live -> Nat] /\ DOMAIN live \subseteq Nat

\* The list visits the blocks by rising address, misses none of them, and no
\* block reaches past its successor or past heap_limit: splits, merges and
\* growth (heap.cpp:37-42, 107-111, 81-100) cut the heap without overlap.
BlocksInOrder ==
    /\ \A a \in DOMAIN hdr :
         /\ Base <= a /\ 4 <= hdr[a].size
         /\ a + HDR + hdr[a].size <= heap_limit
         /\ hdr[a].next # NULL =>
              /\ hdr[a].next \in DOMAIN hdr
              /\ a + HDR + hdr[a].size <= hdr[a].next
    /\ \A a, b \in DOMAIN hdr :
         a < b => hdr[a].next # NULL /\ hdr[a].next <= b

\* A pointer is live exactly while its block is marked in use, and the block
\* is as long as the caller asked for.
LiveBlocks ==
    /\ \A p \in DOMAIN live :
         /\ HDR <= p /\ p - HDR \in DOMAIN hdr
         /\ ~hdr[p - HDR].is_free
         /\ 0 < live[p] /\ live[p] <= hdr[p - HDR].size
    /\ \A a \in DOMAIN hdr : ~hdr[a].is_free => a + HDR \in DOMAIN live

\* The bytes a caller owns belong to it alone: they lie in mapped heap pages,
\* no block header and no other live payload is among them.
PayloadsIntact ==
    \A p \in DOMAIN live :
      /\ Base + HDR <= p /\ p + live[p] <= heap_limit
      /\ \A a \in DOMAIN hdr : a + HDR <= p \/ p + live[p] <= a
      /\ \A q \in DOMAIN live \ {p} : q + live[q] <= p \/ p + live[p] <= q

\* Pointers are good for any 32-bit object: every block and every size stays a
\* multiple of 4 through rounding, splitting, growing and merging.
Aligned ==
    /\ heap_limit % 4 = 0 /\ size % 4 = 0
    /\ \A a \in DOMAIN hdr : a % 4 = 0 /\ hdr[a].size % 4 = 0

\* One pass of coalesce_free_blocks is enough: between calls no two
\* successive blocks are both free, and during the pass none behind it are.
Coalesced ==
    \A a \in DOMAIN hdr :
      /\ hdr[a].next # NULL
      /\ pc # "coalesce" \/ hdr[a].next <= cur
      => ~BothFree(a)

\* Every block the scan has passed is unfit, so kmalloc hands out the lowest
\* block that fits and grows the heap only when none does.
FirstFit ==
    pc = "scan" =>
      \A a \in DOMAIN hdr :
        hdr[a].is_free /\ hdr[a].size >= size => cur # NULL /\ cur <= a

\* Once everything is returned the heap is one free block again: no sequence of
\* calls leaves it in pieces.
WholeAgain ==
    pc = "idle" /\ DOMAIN live = {} => DOMAIN hdr = {Base} /\ hdr[Base].is_free

\* kmalloc answers NULL only when no free block fits and the frames
\* are used up, and the failing call leaves every block as it was, though
\* expand_heap had already moved heap_limit (heap.cpp:73-80).
RefusedOnlyWhenFull ==
    [][ pc = "scan" /\ pc' = "idle" /\ DOMAIN live' = DOMAIN live
          => /\ \A a \in DOMAIN hdr : ~(hdr[a].is_free /\ hdr[a].size >= size)
             /\ frames' = 0 /\ hdr' = hdr ]_vars

\* A live block is neither moved, shrunk nor forgotten by any call
\* but the kfree of its own pointer.
LiveBlocksStay ==
    [][ \A p \in DOMAIN live :
          (p \in DOMAIN live' /\ p - HDR \in DOMAIN hdr)
            => /\ p - HDR \in DOMAIN hdr'
               /\ hdr'[p - HDR].size = hdr[p - HDR].size ]_vars

\* Both loops end: a call of kmalloc or kfree always returns.
CallsReturn == pc # "idle" ~> pc = "idle"

\* The heap implements the allocator its callers rely on.
A == INSTANCE Allocator
       WITH Lo <- Base, Hi <- Base + PageSize + Frames * PageSize,
            Sizes <- Granted, Overhead <- HDR
AllocatorSpec == A!Spec
=============================================================================
