---------------------------- MODULE MemoryProofs ----------------------------
(***************************************************************************)
(* The memory of the kernel for every machine.                             *)
(*                                                                         *)
(* First the frame allocator by itself: the bitmap and the owners of the   *)
(* frames always agree.  Then allocator, paging and heap pages together.   *)
(* The heart of that part are two observations.  A call of map_region that *)
(* maps a page the wrong way is followed by one that maps it right (Kept), *)
(* which is why the order of init_vmm's calls makes good that its regions  *)
(* overlap.  And frames are handed out in ascending order, so the heap,    *)
(* which grows by a page for each frame above its first, stays in the      *)
(* window in which boot has mapped all RAM (Window): the tables it needs   *)
(* are there.                                                              *)
(*                                                                         *)
(* Two results join the parts.  The kernel implements the frame allocator: *)
(* each of its steps is one of Pmm's or leaves the allocator alone.  And   *)
(* the tables boot makes are counted against the frames below 4 MB         *)
(* (Counted, LowFrameFree), which gives the conditions of HeapAlwaysBacked *)
(* and NeverAstrayInLowMemory on every machine with enough of them.        *)
(***************************************************************************)
EXTENDS KernelMemory, FiniteSetTheorems, SequenceTheorems, TLAPS

\* Division with remainder.
LEMMA DivBounds ==
  ASSUME NEW n \in Nat, NEW d \in Nat \ {0}
  PROVE  /\ n \div d \in Nat
         /\ (n \div d) * d <= n
         /\ n < (n \div d) * d + d
  OBVIOUS

\* A non-empty set of frames has a least one, which is what a scan from word
\* 0 and bit 0 upwards finds.
LEMMA LeastFrame ==
  ASSUME NEW S \in SUBSET Nat, S # {}
  PROVE  \E f \in S : \A g \in S : f <= g
<1> DEFINE less == {ss \in Nat \X Nat : ss[1] < ss[2]}
<1>1. less = OpToRel(<, Nat)
  BY DEF OpToRel
<1>2. IsWellFoundedOn(less, Nat)
  BY <1>1, NatLessThanWellFounded
<1> HIDE DEF less
<1>3. PICK f \in S : \A g \in S : <<g, f>> \notin less
  BY <1>2, WFMin
<1>4. \A g \in Nat : g < f => <<g, f>> \in less
  BY DEF less
<1>5. S \subseteq Nat
  OBVIOUS
<1>6. \A g \in S : ~(g < f)
  BY <1>3, <1>4, <1>5
<1>7. \A g \in S : g \in Nat /\ f \in Nat
  BY <1>3, <1>5
<1> QED
  BY <1>6, <1>7

\* The frames the scan can reach have bits, and are below the last frame.
LEMMA ScannedFrames ==
  ASSUME NEW m \in Machines
  PROVE  /\ Scanned(m) \subseteq Bits(m)
         /\ \A f \in Scanned(m) : f \in Nat /\ f < max_frames(m)
         /\ max_frames(m) \in Nat
         /\ Bits(m) \subseteq Nat
<1> DEFINE total == m.upper + m.lower
           M == total \div PAGE_SIZE
           down == (M \div WordBits) * WordBits
           up == ((M + WordBits - 1) \div WordBits) * WordBits
<1>1. total \in Nat /\ PAGE_SIZE \in Nat \ {0} /\ WordBits \in Nat \ {0}
  BY PmmAssumption, MachineAssumption
<1>2. M \in Nat
  BY <1>1, DivBounds
<1>3. Scanned(m) = 0 .. down - 1 /\ Bits(m) = 0 .. up - 1 /\ max_frames(m) = M
  BY DEF Scanned, Bits, bitmap_words, max_frames, multiboot_get_total_memory
<1> HIDE DEF M
<1>4. down \in Nat /\ down <= M
  BY <1>1, <1>2, DivBounds
<1>5. M <= up /\ up \in Nat
  <2> DEFINE n == M + WordBits - 1
  <2>1. n \in Nat /\ M = n - WordBits + 1
    BY <1>1, <1>2
  <2> HIDE DEF n
  <2>2. n \div WordBits \in Nat /\ n < (n \div WordBits) * WordBits + WordBits
        /\ (n \div WordBits) * WordBits \in Nat
    BY <1>1, <2>1, DivBounds
  <2> QED
    BY <1>1, <1>2, <2>1, <2>2 DEF n
<1> HIDE DEF down, up
<1> QED
  BY <1>2, <1>3, <1>4, <1>5

\* A byte range lies in the frames of its Span.
LEMMA SpanCovers ==
  ASSUME NEW addr \in Nat, NEW size \in Nat, NEW f \in Nat, f \notin Span(addr, size)
  PROVE  Outside(f, addr, size)
<1> DEFINE n == addr + size + PAGE_SIZE - 1
           lo == addr \div PAGE_SIZE
           hi == n \div PAGE_SIZE
<1>1. PAGE_SIZE \in Nat \ {0} /\ n \in Nat
  BY PmmAssumption
<1>2. /\ lo \in Nat /\ lo * PAGE_SIZE <= addr
      /\ hi \in Nat /\ n < hi * PAGE_SIZE + PAGE_SIZE /\ hi * PAGE_SIZE \in Nat
      /\ lo * PAGE_SIZE \in Nat
  BY <1>1, DivBounds
<1>3. f < lo \/ hi <= f
  BY <1>2 DEF Span
<1> HIDE DEF lo, hi
<1>4. CASE f < lo
  <2>1. f + 1 <= lo
    BY <1>2, <1>4
  <2>2. (f + 1) * PAGE_SIZE <= lo * PAGE_SIZE /\ (f + 1) * PAGE_SIZE \in Nat
    BY <1>1, <1>2, <2>1
  <2> QED
    BY <1>2, <2>2 DEF Outside
<1>5. CASE hi <= f
  <2>1. hi * PAGE_SIZE <= f * PAGE_SIZE /\ f * PAGE_SIZE \in Nat
    BY <1>1, <1>2, <1>5
  <2> QED
    BY <1>1, <1>2, <2>1 DEF Outside
<1> QED
  BY <1>3, <1>4, <1>5

\* Frame 0 is reserved at boot, so 0 can stand for failure in pmm_alloc_page
\* and be ignored by pmm_free_page.
LEMMA ZeroIsTaken ==
  ASSUME NEW m \in Machines, 0 \in Bits(m)
  PROVE  0 \in Boot(m)
<1>1. 0 \in Span(0, PAGE_SIZE * LowFrames)
  <2> DEFINE n == PAGE_SIZE * LowFrames + PAGE_SIZE - 1
  <2>1. n \in Nat /\ n >= PAGE_SIZE /\ PAGE_SIZE \in Nat \ {0}
    <3>1. PAGE_SIZE * LowFrames >= 1 /\ PAGE_SIZE * LowFrames \in Nat
      BY PmmAssumption
    <3> QED
      BY <3>1, PmmAssumption
  <2>2. Span(0, PAGE_SIZE * LowFrames) = 0 .. n \div PAGE_SIZE - 1
    <3>1. 0 \div PAGE_SIZE = 0 /\ 0 + PAGE_SIZE * LowFrames = PAGE_SIZE * LowFrames
      BY PmmAssumption
    <3> QED
      BY <3>1 DEF Span
  <2> HIDE DEF n
  <2>3. n \div PAGE_SIZE \in Nat /\ n < (n \div PAGE_SIZE) * PAGE_SIZE + PAGE_SIZE
    BY <2>1, DivBounds
  <2>4. n \div PAGE_SIZE # 0
    BY <2>1, <2>3
  <2> QED
    BY <2>2, <2>3, <2>4
<1> QED
  BY <1>1 DEF Boot, Reserved

\* pmm_alloc_page answers 0 or a frame whose bit was 0.
LEMMA FirstClearFacts ==
  ASSUME machine \in Machines, NEW u
  PROVE  /\ FirstClear(u) = 0 \/ FirstClear(u) \in Scanned(machine) \ u
         /\ Scanned(machine) \ u # {} => FirstClear(u) \in Scanned(machine) \ u
         /\ \A f \in Scanned(machine) \ u : FirstClear(u) <= f
<1> DEFINE clear == Scanned(machine) \ u
<1>1. clear \in SUBSET Nat
  BY ScannedFrames
<1>2. CASE clear = {}
  BY <1>2 DEF FirstClear
<1>3. CASE clear # {}
  <2>1. \E f \in clear : \A g \in clear : f <= g
    BY <1>1, <1>3, LeastFrame
  <2>2. FirstClear(u) = CHOOSE f \in clear : \A g \in clear : f <= g
    BY <1>3 DEF FirstClear
  <2> HIDE DEF clear
  <2>3. FirstClear(u) \in clear /\ \A g \in clear : FirstClear(u) <= g
    BY <2>1, <2>2
  <2> QED
    BY <2>3 DEF clear
<1> QED
  BY <1>2, <1>3

\* The inductive invariant. The type of held (only frames the scan reaches)
\* is what makes pmm_free_page's bound check never refuse an owned frame.
PmmInv == PmmTypeOK /\ BitmapExact /\ TestPasses

\* Marking a frame that FirstClear returned keeps bitmap and owners in step.
LEMMA MarkKeeps ==
  ASSUME machine \in Machines,
         NEW u, NEW h,
         u = Boot(machine) \cup h, h \cap Boot(machine) = {},
         h \subseteq Scanned(machine), u \subseteq Bits(machine)
  PROVE  /\ Mark(u, FirstClear(u)) = Boot(machine) \cup Mark(h, FirstClear(u))
         /\ Mark(h, FirstClear(u)) \cap Boot(machine) = {}
         /\ Mark(h, FirstClear(u)) \subseteq Scanned(machine)
         /\ Mark(u, FirstClear(u)) \subseteq Bits(machine)
<1> DEFINE f == FirstClear(u)
<1>1. f = 0 \/ f \in Scanned(machine) \ u
  BY FirstClearFacts
<1>2. CASE f = 0
  BY <1>2 DEF Mark
<1>3. CASE f # 0
  <2>1. f \in Scanned(machine) \ u /\ f \in Bits(machine)
    BY <1>1, <1>3, ScannedFrames
  <2> QED
    BY <1>3, <2>1 DEF Mark
<1> QED
  BY <1>2, <1>3

\* test_memory gets its first frame back.
LEMMA SameFrameAgain ==
  ASSUME machine \in Machines,
         NEW u, Boot(machine) \subseteq u,
         NEW p1, p1 = FirstClear(u),
         NEW u2, u \cup Mark({}, p1) \subseteq u2
  PROVE  \/ p1 # 0 /\ FirstClear(Unmark(u2, p1)) = p1
         \/ p1 = 0 /\ Scanned(machine) \subseteq u
<1>1. 0 \notin Scanned(machine) \ u
  BY ZeroIsTaken, ScannedFrames
<1>2. CASE p1 = 0
  BY <1>1, <1>2, FirstClearFacts
<1>3. CASE p1 # 0
  <2>1. p1 \in Scanned(machine) \ u /\ p1 \in Nat /\ p1 < max_frames(machine)
        /\ max_frames(machine) \in Nat
    BY <1>3, FirstClearFacts, ScannedFrames
  <2> DEFINE u3 == Unmark(u2, p1)
             p3 == FirstClear(u3)
  <2>2. u3 = u2 \ {p1}
    BY <1>3, <2>1 DEF Unmark
  <2>3. p1 \in Scanned(machine) \ u3 /\ Scanned(machine) \ u3 \subseteq Scanned(machine) \ u
    BY <2>1, <2>2
  <2> HIDE DEF u3
  <2>4. p3 \in Scanned(machine) \ u3 /\ p3 <= p1 /\ p3 \in Nat
    BY <2>3, FirstClearFacts, ScannedFrames
  <2> HIDE DEF p3
  <2>5. p1 <= p3
    BY <2>3, <2>4, FirstClearFacts
  <2>6. p3 = p1
    BY <2>1, <2>4, <2>5
  <2> QED
    BY <1>3, <2>6 DEF p3, u3
<1> QED
  BY <1>2, <1>3

\* A run of test_memory keeps bitmap and owners in step and prints OK.
LEMMA TestStep ==
  ASSUME PmmInv, test_memory
  PROVE  PmmInv'
<1> USE DEF PmmInv
<1> DEFINE page1 == FirstClear(used)
           u1 == Mark(used, page1)
           page2 == FirstClear(u1)
           u2 == Mark(u1, page2)
           u3 == Unmark(u2, page1)
           page3 == FirstClear(u3)
           h1 == Mark(held, page1)
           h2 == Mark(h1, page2)
           h3 == Mark(held, page2)
<1>1. /\ used' = Mark(u3, page3)
      /\ held' = Mark(h3, page3)
      /\ verdict' = IF page1 = page3 THEN "OK" ELSE "FAIL"
      /\ machine' = machine
  BY DEF test_memory
<1>2. machine \in Machines /\ used = Boot(machine) \cup held
      /\ held \cap Boot(machine) = {} /\ held \subseteq Scanned(machine)
      /\ used \subseteq Bits(machine)
  BY DEF PmmTypeOK, BitmapExact
<1>3. /\ u1 = Boot(machine) \cup h1 /\ h1 \cap Boot(machine) = {}
      /\ h1 \subseteq Scanned(machine) /\ u1 \subseteq Bits(machine)
  <2> HIDE DEF page1
  <2> QED
    BY <1>2, MarkKeeps DEF page1
<1> HIDE DEF u1, h1
<1>4. /\ u2 = Boot(machine) \cup h2 /\ h2 \cap Boot(machine) = {}
      /\ h2 \subseteq Scanned(machine) /\ u2 \subseteq Bits(machine)
  BY <1>2, <1>3, MarkKeeps
<1>5. used \cup Mark({}, page1) \subseteq u2
  BY DEF Mark, u1
<1>6. CASE page1 = 0
  <2>1. u1 = used /\ Scanned(machine) \subseteq used
    BY <1>2, <1>5, <1>6, SameFrameAgain DEF Mark, u1
  <2>2. \A w : Scanned(machine) \subseteq w => FirstClear(w) = 0
    BY DEF FirstClear
  <2>3. page2 = 0
    BY <2>1, <2>2
  <2>4. u2 = used
    BY <2>1, <2>3 DEF Mark
  <2>5. u3 = used
    BY <1>6, <2>4 DEF Unmark
  <2>6. page3 = 0
    BY <2>1, <2>2, <2>5
  <2> HIDE DEF page1, page2, page3, u2, u3
  <2>7. used' = used /\ held' = held /\ verdict' = "OK"
    BY <1>1, <1>6, <2>3, <2>5, <2>6 DEF Mark, h3
  <2> QED
    BY <1>1, <2>7 DEF PmmTypeOK, BitmapExact, TestPasses
<1>7. CASE page1 # 0
  <2>1. page3 = page1
    BY <1>2, <1>5, <1>7, SameFrameAgain
  <2>2. page1 \in Scanned(machine) \ used /\ page1 < max_frames(machine)
        /\ page1 \in Nat /\ max_frames(machine) \in Nat
    BY <1>2, <1>7, FirstClearFacts, ScannedFrames
  <2>3. u3 = u2 \ {page1}
    BY <1>7, <2>2 DEF Unmark
  <2>4. h1 = held \cup {page1}
    BY <1>7 DEF Mark, h1
  <2>5. page1 \in u2
    BY <1>4, <2>4 DEF Mark
  <2>6. used' = u2
    BY <1>1, <1>7, <2>1, <2>3, <2>5 DEF Mark
  <2>7. held' = h2
    BY <1>1, <1>7, <2>1, <2>4 DEF Mark
  <2> QED
    BY <1>1, <1>2, <1>4, <2>1, <2>6, <2>7 DEF PmmTypeOK, BitmapExact, TestPasses
<1> QED
  BY <1>6, <1>7

\* PmmInv is inductive: allocation, release and the test keep it.
LEMMA PmmInductive == PmmInv /\ [PmmNext]_pmm_vars => PmmInv'
<1> SUFFICES ASSUME PmmInv, [PmmNext]_pmm_vars PROVE PmmInv'
  OBVIOUS
<1> USE DEF PmmInv
<1>1. CASE \E f \in Scanned(machine) : pmm_alloc_page(f)
  <2>1. PICK f \in Scanned(machine) : pmm_alloc_page(f)
    BY <1>1
  <2>2. f = FirstClear(used) /\ used' = Mark(used, f) /\ held' = Mark(held, f)
        /\ machine' = machine /\ verdict' = verdict
    BY <2>1 DEF pmm_alloc_page
  <2> QED
    BY <2>2, MarkKeeps DEF PmmTypeOK, BitmapExact, TestPasses
<1>2. CASE \E f \in held \cup {0} : pmm_free_page(f)
  <2>1. PICK f \in held \cup {0} : pmm_free_page(f)
    BY <1>2
  <2>2. used' = Unmark(used, f) /\ held' = held \ {f}
        /\ machine' = machine /\ verdict' = verdict
    BY <2>1 DEF pmm_free_page
  <2>3. 0 \notin held
    <3>1. 0 \in held => 0 \in Boot(machine)
      BY ScannedFrames, ZeroIsTaken DEF PmmTypeOK
    <3> QED
      BY <3>1 DEF BitmapExact
  <2>4. f # 0 => f \in Scanned(machine) /\ f \in Nat /\ f < max_frames(machine)
                 /\ max_frames(machine) \in Nat
    BY <2>1, ScannedFrames DEF PmmTypeOK
  <2>5. used' = IF f = 0 THEN used ELSE used \ {f}
    BY <2>2, <2>4 DEF Unmark
  <2> QED
    BY <2>1, <2>2, <2>3, <2>5 DEF PmmTypeOK, BitmapExact, TestPasses
<1>3. CASE test_memory
  BY <1>3, TestStep
<1>4. CASE UNCHANGED pmm_vars
  BY <1>4 DEF PmmTypeOK, BitmapExact, TestPasses, pmm_vars
<1> QED
  BY <1>1, <1>2, <1>3, <1>4 DEF PmmNext

\* PmmInv holds from the end of init_pmm on.
LEMMA PmmInvariant == PmmSpec => []PmmInv
<1>1. init_pmm => PmmInv
  BY DEF init_pmm, PmmInv, PmmTypeOK, BitmapExact, TestPasses, Boot
<1> QED
  BY <1>1, PmmInductive, PTL DEF PmmSpec

\* Only frames of the scanned words are ever handed out, and all bits set
\* belong to the bitmap.
THEOREM PmmTypeCorrect == PmmSpec => []PmmTypeOK
<1>1. PmmInv => PmmTypeOK
  BY DEF PmmInv
<1> QED
  BY <1>1, PmmInvariant, PTL

\* For every memory map: a bit is 1 exactly for the frames taken at boot and
\* those handed out since (pmm.cpp:48-69).
THEOREM BitmapAlwaysExact == PmmSpec => []BitmapExact
<1>1. PmmInv => BitmapExact
  BY DEF PmmInv
<1> QED
  BY <1>1, PmmInvariant, PTL

\* test_memory never prints FAIL, however many frames are left
\* (tests/libc_test.cpp:33-44).
THEOREM TestAlwaysPasses == PmmSpec => []TestPasses
<1>1. PmmInv => TestPasses
  BY DEF PmmInv
<1> QED
  BY <1>1, PmmInvariant, PTL

\* For every memory map: no frame handed out contains a byte of the first MB,
\* the kernel, the memory map or the bitmap (pmm.cpp:42-45).
THEOREM HeldFramesAreFree == PmmSpec => []HeldIsFree
<1>1. PmmInv => HeldIsFree
  <2> SUFFICES ASSUME PmmInv, NEW f \in held
               PROVE  /\ Outside(f, 0, PAGE_SIZE * LowFrames)
                      /\ Outside(f, machine.kernel_start,
                                 machine.kernel_end - machine.kernel_start)
                      /\ Outside(f, machine.mmap_addr, machine.mmap_length)
                      /\ Outside(f, bitmap(machine), bitmap_size(machine))
    BY DEF HeldIsFree
  <2>1. machine \in Machines /\ f \in Scanned(machine) /\ f \notin Boot(machine)
    BY DEF PmmInv, PmmTypeOK, BitmapExact
  <2>2. f \in Nat /\ f \in Bits(machine)
    BY <2>1, ScannedFrames
  <2>3. f \notin Reserved(machine)
    BY <2>1, <2>2 DEF Boot
  <2>4. /\ PAGE_SIZE * LowFrames \in Nat
        /\ machine.kernel_start \in Nat
        /\ machine.kernel_end - machine.kernel_start \in Nat
        /\ machine.mmap_addr \in Nat /\ machine.mmap_length \in Nat
    <3>1. PAGE_SIZE * LowFrames \in Nat /\ LowFrames * PAGE_SIZE \in Nat
      BY PmmAssumption
    <3> QED
      BY <2>1, <3>1, MachineAssumption
  <2>5. bitmap(machine) \in Nat /\ bitmap_size(machine) \in Nat
    <3>1. machine.kernel_end + PAGE_SIZE - 1 \in Nat /\ PAGE_SIZE \in Nat \ {0}
      BY <2>1, MachineAssumption, PmmAssumption
    <3>2. bitmap(machine) \in Nat
      <4>1. (machine.kernel_end + PAGE_SIZE - 1) \div PAGE_SIZE \in Nat
        BY <3>1, DivBounds
      <4> QED
        BY <3>1, <4>1 DEF bitmap
    <3>3. bitmap_words(machine) \in Nat /\ WordBytes \in Nat
      <4>1. max_frames(machine) + WordBits - 1 \in Nat /\ WordBits \in Nat \ {0}
        BY <2>1, ScannedFrames, PmmAssumption
      <4> QED
        BY <4>1, DivBounds DEF bitmap_words, WordBytes
    <3> QED
      BY <3>2, <3>3 DEF bitmap_size
  <2> QED
    BY <2>2, <2>3, <2>4, <2>5, SpanCovers DEF Reserved
<1> QED
  BY <1>1, PmmInvariant, PTL

\* The frames above the first MB that the scan reaches are upper memory.
LEMMA ScannedIsUpper ==
  ASSUME NEW m \in Machines, NEW f \in Scanned(m), LowFrames * PAGE_SIZE <= f * PAGE_SIZE
  PROVE  \E i \in Usable(m) :
           /\ m.mmap[i].addr <= f * PAGE_SIZE
           /\ (f + 1) * PAGE_SIZE <= m.mmap[i].addr + m.mmap[i].len
<1>1. PICK i \in DOMAIN m.mmap : /\ m.mmap[i].type = 1
                                 /\ m.mmap[i].addr = LowFrames * PAGE_SIZE
                                 /\ m.mmap[i].len >= m.upper
  BY UpperMemoryAssumption
<1>2. PICK total \in Nat : total = m.upper + m.lower
  BY MachineAssumption
<1>3. /\ PAGE_SIZE \in Nat \ {0} /\ LowFrames * PAGE_SIZE \in Nat
      /\ m.lower \in Nat /\ m.upper \in Nat /\ m.lower <= LowFrames * PAGE_SIZE
  BY PmmAssumption, MachineAssumption, UpperMemoryAssumption
<1>4. f \in Nat /\ f < max_frames(m) /\ max_frames(m) \in Nat
  BY ScannedFrames
<1>5. max_frames(m) * PAGE_SIZE <= total /\ max_frames(m) * PAGE_SIZE \in Nat
  BY <1>2, <1>3, <1>4, DivBounds DEF max_frames, multiboot_get_total_memory
<1>6. (f + 1) * PAGE_SIZE <= max_frames(m) * PAGE_SIZE /\ (f + 1) * PAGE_SIZE \in Nat
  BY <1>3, <1>4
<1>7. m.mmap[i].len \in Nat
  <2>1. m.mmap \in Seq(Entry)
    BY MachineAssumption
  <2>2. m.mmap[i] \in Entry
    BY <1>1, <2>1
  <2> QED BY <2>2 DEF Entry
<1>8. (f + 1) * PAGE_SIZE <= m.mmap[i].addr + m.mmap[i].len
  BY <1>1, <1>2, <1>3, <1>5, <1>6, <1>7
<1> QED BY <1>1, <1>8 DEF Usable

\* For every memory map whose upper memory is what multiboot says it is: a frame
\* handed out is RAM to its last byte, although free_region clears the bits of
\* frames that a region covers in part (pmm.cpp:71-77).
THEOREM HeldFramesAreRam == PmmSpec => []HeldIsRam
<1>1. PmmInv => HeldIsRam
  <2> SUFFICES ASSUME PmmInv, NEW f \in held
               PROVE  \E i \in Usable(machine) :
                        /\ machine.mmap[i].addr <= f * PAGE_SIZE
                        /\ (f + 1) * PAGE_SIZE <= machine.mmap[i].addr + machine.mmap[i].len
    BY DEF HeldIsRam
  <2>1. machine \in Machines /\ f \in Scanned(machine) /\ f \notin Boot(machine)
    BY DEF PmmInv, PmmTypeOK, BitmapExact
  <2>2. f \in Nat /\ f \in Bits(machine)
    BY <2>1, ScannedFrames
  <2>3. f \notin Span(0, PAGE_SIZE * LowFrames)
    BY <2>1, <2>2 DEF Boot, Reserved
  <2>4. PICK size \in Nat : size = PAGE_SIZE * LowFrames
    BY PmmAssumption
  <2>5. Outside(f, 0, size)
    BY <2>2, <2>3, <2>4, SpanCovers
  <2>6. /\ (f + 1) * PAGE_SIZE > 0 /\ f * PAGE_SIZE \in Nat
        /\ LowFrames * PAGE_SIZE = size
    BY <2>2, <2>4, PmmAssumption
  <2>7. LowFrames * PAGE_SIZE <= f * PAGE_SIZE
    <3>1. (f + 1) * PAGE_SIZE <= 0 \/ 0 + size <= f * PAGE_SIZE
      BY <2>5 DEF Outside
    <3>2. (f + 1) * PAGE_SIZE \in Nat
      BY <2>2, PmmAssumption
    <3> QED BY <2>4, <2>6, <3>1, <3>2
  <2> QED BY <2>1, <2>7, ScannedIsUpper
<1> QED
  BY <1>1, PmmInvariant, PTL
-----------------------------------------------------------------------------
(* The address space *)

Slots == 0 .. Entries - 1
Space == 0 .. Entries * Entries - 1

\* Each page of the address space has one place in one table.
LEMMA PageSlots ==
  ASSUME NEW v \in Space
  PROVE  /\ v \in Nat /\ v \div Entries \in Slots /\ v % Entries \in Slots
         /\ v = Entries * (v \div Entries) + (v % Entries)
<1>1. Entries \in Nat \ {0} /\ v \in Nat /\ v < Entries * Entries
  BY VmmAssumption DEF Space
<1>2. /\ v \div Entries \in Nat /\ v % Entries \in Slots
      /\ v = Entries * (v \div Entries) + (v % Entries)
  BY <1>1 DEF Slots
<1>3. ~(v \div Entries >= Entries)
  <2> DEFINE q == v \div Entries
  <2>1. q \in Nat /\ q * Entries <= v BY <1>1, DivBounds
  <2> HIDE DEF q
  <2>2. q >= Entries => q * Entries >= Entries * Entries BY <1>1, <2>1
  <2>3. q * Entries \in Nat /\ Entries * Entries \in Nat BY <1>1, <2>1
  <2> QED BY <1>1, <2>1, <2>2, <2>3 DEF q
<1> QED BY <1>1, <1>2, <1>3 DEF Slots

LEMMA SlotsApart ==
  ASSUME NEW v \in Space, NEW w \in Space, v # w, v \div Entries = w \div Entries
  PROVE  v % Entries # w % Entries
BY PageSlots

\* What lies below VIDEO is in the address space.
LEMMA Below ==
  /\ HIGH \in Nat /\ VIDEO \in Nat /\ HIGH < VIDEO /\ IdentityPages \in Nat
  /\ IdentityPages <= HIGH
  /\ \A v \in Nat : v < VIDEO => v \in Space
BY VmmAssumption DEF Space

\* Rounding a size up to pages.
LEMMA PagesBounds ==
  ASSUME NEW n \in Nat
  PROVE  /\ Pages(n) \in Nat /\ n <= Pages(n) * PAGE_SIZE /\ Pages(n) * PAGE_SIZE \in Nat
         /\ Pages(n) * PAGE_SIZE < n + PAGE_SIZE
<1> DEFINE m == n + PAGE_SIZE - 1
<1>1. PAGE_SIZE \in Nat \ {0} /\ m \in Nat BY PmmAssumption
<1>2. m \div PAGE_SIZE \in Nat /\ (m \div PAGE_SIZE) * PAGE_SIZE <= m
      /\ m < (m \div PAGE_SIZE) * PAGE_SIZE + PAGE_SIZE
  BY <1>1, DivBounds
<1>3. (m \div PAGE_SIZE) * PAGE_SIZE \in Nat BY <1>1, <1>2
<1> QED BY <1>1, <1>2, <1>3 DEF Pages

\* Whole pages are not rounded.
LEMMA WholePages ==
  ASSUME NEW n \in Nat
  PROVE  Pages(n * PAGE_SIZE) = n /\ (n * PAGE_SIZE) \div PAGE_SIZE = n
<1>1. PAGE_SIZE \in Nat \ {0} BY PmmAssumption
<1>2. n * PAGE_SIZE \in Nat BY <1>1
<1>3. PICK p \in Nat : p = Pages(n * PAGE_SIZE) BY <1>2, PagesBounds
<1>4. n * PAGE_SIZE <= p * PAGE_SIZE /\ p * PAGE_SIZE < n * PAGE_SIZE + PAGE_SIZE
  BY <1>2, <1>3, PagesBounds
<1>5. n * PAGE_SIZE + PAGE_SIZE = (n + 1) * PAGE_SIZE BY <1>1
<1>6. p = n
  <2>1. ~(p < n)
    <3>1. p < n => p * PAGE_SIZE + PAGE_SIZE <= n * PAGE_SIZE
      <4>1. p < n => (p + 1) * PAGE_SIZE <= n * PAGE_SIZE BY <1>1
      <4> QED BY <1>1, <4>1
    <3>2. p * PAGE_SIZE \in Nat BY <1>1
    <3> QED BY <1>1, <1>2, <1>4, <3>1, <3>2
  <2>2. ~(p > n)
    <3>1. p > n => (n + 1) * PAGE_SIZE <= p * PAGE_SIZE BY <1>1
    <3>2. p * PAGE_SIZE \in Nat BY <1>1
    <3> QED BY <1>1, <1>2, <1>4, <1>5, <3>1, <3>2
  <2> QED BY <2>1, <2>2
<1>7. PICK q \in Nat : q = (n * PAGE_SIZE) \div PAGE_SIZE BY <1>1, <1>2, DivBounds
<1>8. q * PAGE_SIZE <= n * PAGE_SIZE /\ n * PAGE_SIZE < q * PAGE_SIZE + PAGE_SIZE
  BY <1>1, <1>2, <1>7, DivBounds
<1>9. q = n
  <2>1. ~(q > n)
    <3>1. q > n => (n + 1) * PAGE_SIZE <= q * PAGE_SIZE BY <1>1
    <3>2. q * PAGE_SIZE \in Nat BY <1>1
    <3> QED BY <1>1, <1>2, <1>5, <1>8, <3>1, <3>2
  <2>2. ~(q < n)
    <3>1. q < n => (q + 1) * PAGE_SIZE <= n * PAGE_SIZE BY <1>1
    <3>2. (q + 1) * PAGE_SIZE = q * PAGE_SIZE + PAGE_SIZE /\ q * PAGE_SIZE \in Nat BY <1>1
    <3> QED BY <1>1, <1>2, <1>8, <3>1, <3>2
  <2> QED BY <2>1, <2>2
<1> QED BY <1>3, <1>6, <1>7, <1>9

\* The frames of a region that begins at a page: those map_region walks.
LEMMA AlignedSpan ==
  ASSUME NEW addr \in Nat, NEW size \in Nat, addr % PAGE_SIZE = 0
  PROVE  /\ addr \div PAGE_SIZE \in Nat
         /\ Span(addr, size) = addr \div PAGE_SIZE .. addr \div PAGE_SIZE + Pages(size) - 1
         /\ Pages(addr + size) = addr \div PAGE_SIZE + Pages(size)
<1>1. PAGE_SIZE \in Nat \ {0} BY PmmAssumption
<1>2. PICK q \in Nat : q = addr \div PAGE_SIZE BY <1>1, DivBounds
<1>3. addr = q * PAGE_SIZE BY <1>1, <1>2
<1>4. addr + size \in Nat BY DEF Pages
<1>5. PICK a \in Nat : a = Pages(size) BY PagesBounds
<1>6. PICK b \in Nat : b = Pages(addr + size) BY <1>4, PagesBounds
<1>7. size <= a * PAGE_SIZE /\ a * PAGE_SIZE < size + PAGE_SIZE /\ a * PAGE_SIZE \in Nat
  BY <1>5, PagesBounds
<1>8. /\ addr + size <= b * PAGE_SIZE /\ b * PAGE_SIZE < addr + size + PAGE_SIZE
      /\ b * PAGE_SIZE \in Nat
  BY <1>4, <1>6, PagesBounds
<1>9. b = q + a
  <2>1. (q + a) * PAGE_SIZE = q * PAGE_SIZE + a * PAGE_SIZE /\ q * PAGE_SIZE \in Nat
    BY <1>1
  <2>2. ~(b > q + a)
    <3>1. b > q + a => (q + a + 1) * PAGE_SIZE <= b * PAGE_SIZE BY <1>1
    <3>2. (q + a + 1) * PAGE_SIZE = (q + a) * PAGE_SIZE + PAGE_SIZE BY <1>1
    <3> QED BY <1>1, <1>3, <1>7, <1>8, <2>1, <3>1, <3>2
  <2>3. ~(b < q + a)
    <3>1. b < q + a => (b + 1) * PAGE_SIZE <= (q + a) * PAGE_SIZE BY <1>1
    <3>2. (b + 1) * PAGE_SIZE = b * PAGE_SIZE + PAGE_SIZE BY <1>1
    <3> QED BY <1>1, <1>3, <1>7, <1>8, <2>1, <3>1, <3>2
  <2> QED BY <2>2, <2>3
<1>10. Span(addr, size) = q .. Pages(addr + size) - 1
  BY <1>2 DEF Span, Pages
<1> QED BY <1>2, <1>5, <1>6, <1>9, <1>10
-----------------------------------------------------------------------------
(* What map_region is still to do *)

Regions == [virt : Nat, phys : Nat, left : Nat]

\* Will a call map page v, and to which frame?
Covers(r, v) == r.virt <= v /\ v < r.virt + r.left
Gives(r, v)  == r.phys + (v - r.virt)

\* Once the calls are made page v leads to frame p: a call that maps it elsewhere is
\* followed by one that maps it right, and if none is to come it is mapped right.
Kept(v, p) ==
    /\ \A k \in 1 .. Len(calls) :
         (Covers(calls[k], v) /\ Gives(calls[k], v) # p) =>
           \E j \in 1 .. Len(calls) :
             j > k /\ Covers(calls[j], v) /\ Gives(calls[j], v) = p
    /\ Translate(v) = p \/ \E k \in 1 .. Len(calls) : Covers(calls[k], v)

\* The calls that init_vmm makes, one by one.
LEMMA CallsListed ==
  ASSUME NEW m \in Machines
  PROVE  LET n == Len(m.mmap)
             c == init_vmm_calls(m) IN
         /\ n \in Nat /\ Len(c) = n + 3 /\ DOMAIN c = 1 .. n + 3 /\ c = [k \in 1 .. n + 3 |-> c[k]]
         /\ c[1] = Region(0, 0, IdentityPages * PAGE_SIZE)
         /\ c[2] = Region(HIGH, m.kernel_start, m.kernel_end - m.kernel_start)
         /\ \A i \in 1 .. n :
              c[i + 2] = Region(HIGH + m.mmap[i].addr \div PAGE_SIZE, m.mmap[i].addr,
                                IF i \in Usable(m) THEN m.mmap[i].len ELSE 0)
         /\ c[n + 3] = Region(VGA, VGA * PAGE_SIZE, PAGE_SIZE)
<1> DEFINE n == Len(m.mmap)
           A == Region(0, 0, IdentityPages * PAGE_SIZE)
           B == Region(HIGH, m.kernel_start, m.kernel_end - m.kernel_start)
           M == [i \in 1 .. n |->
                  Region(HIGH + m.mmap[i].addr \div PAGE_SIZE, m.mmap[i].addr,
                         IF i \in Usable(m) THEN m.mmap[i].len ELSE 0)]
           C == Region(VGA, VGA * PAGE_SIZE, PAGE_SIZE)
<1>1. n \in Nat BY MachineAssumption
<1>2. init_vmm_calls(m) = <<A, B>> \o M \o <<C>> BY DEF init_vmm_calls
<1> HIDE DEF A, B, C
<1>3. \A i \in 1 .. n : M[i] = Region(HIGH + m.mmap[i].addr \div PAGE_SIZE, m.mmap[i].addr,
                         IF i \in Usable(m) THEN m.mmap[i].len ELSE 0)
  OBVIOUS
<1>4. M = [i \in 1 .. n |-> M[i]] OBVIOUS
<1> HIDE DEF M
<1>5. PICK S : S = {A, B, C} \cup {M[i] : i \in 1 .. n} OBVIOUS
<1>6. M \in Seq(S) /\ Len(M) = n BY <1>1, <1>4, <1>5
<1>7. <<A, B>> \in Seq(S) /\ Len(<<A, B>>) = 2 BY <1>5
<1>8. <<C>> \in Seq(S) /\ Len(<<C>>) = 1 BY <1>5
<1> DEFINE X == <<A, B>> \o M
<1>9. /\ X \in Seq(S) /\ Len(X) = n + 2 /\ X[1] = A /\ X[2] = B
      /\ \A i \in 1 .. n : X[i + 2] = M[i]
  BY <1>1, <1>6, <1>7
<1> HIDE DEF X
<1> DEFINE Y == X \o <<C>>
<1>10. /\ Y \in Seq(S) /\ Len(Y) = n + 3 /\ Y[n + 3] = C
       /\ \A i \in 1 .. n + 2 : Y[i] = X[i]
  BY <1>1, <1>8, <1>9
<1>11. init_vmm_calls(m) = Y BY <1>2 DEF X
<1> HIDE DEF Y
<1>12. Y[1] = A /\ Y[2] = B /\ \A i \in 1 .. n : Y[i + 2] = M[i]
  <2>1. 1 \in 1 .. n + 2 /\ 2 \in 1 .. n + 2 /\ \A i \in 1 .. n : i + 2 \in 1 .. n + 2
    BY <1>1
  <2> QED BY <1>9, <1>10, <2>1
<1> QED BY <1>1, <1>3, <1>10, <1>11, <1>12 DEF A, B, C

\* The machine's numbers.
LEMMA Numbers ==
  ASSUME NEW m \in Machines
  PROVE  /\ \A i \in 1 .. Len(m.mmap) : m.mmap[i].addr \in Nat /\ m.mmap[i].len \in Nat
         /\ m.kernel_start \in Nat /\ m.kernel_end - m.kernel_start \in Nat
         /\ m.kernel_start \div PAGE_SIZE \in Nat
         /\ \A i \in Usable(m) : /\ i \in 1 .. Len(m.mmap)
                                 /\ m.mmap[i].addr % PAGE_SIZE = 0
                                 /\ HIGH + Pages(m.mmap[i].addr + m.mmap[i].len) <= VIDEO
         /\ VGA \in Nat /\ VGA < IdentityPages
         /\ PAGE_SIZE \in Nat \ {0}
<1>1. m.mmap \in Seq(Entry) BY MachineAssumption
<1>2. \A i \in 1 .. Len(m.mmap) : m.mmap[i] \in Entry BY <1>1
<1>3. \A i \in 1 .. Len(m.mmap) : m.mmap[i].addr \in Nat /\ m.mmap[i].len \in Nat
  BY <1>2 DEF Entry
<1>4. \A i \in Usable(m) : i \in 1 .. Len(m.mmap) BY <1>1 DEF Usable
<1>5. PAGE_SIZE \in Nat \ {0} BY PmmAssumption
<1>6. m.kernel_start \in Nat /\ m.kernel_end - m.kernel_start \in Nat
  BY PmmAssumption, MachineAssumption
<1>7. m.kernel_start \div PAGE_SIZE \in Nat BY <1>5, <1>6, DivBounds
<1>8. VGA \in Nat /\ VGA < IdentityPages
  BY PmmAssumption, WindowAssumption, VmmAssumption DEF VGA
<1> QED BY <1>3, <1>4, <1>5, <1>6, <1>7, <1>8, WindowAssumption

\* Each call of init_vmm keeps within the address space, and what it maps from HIGH
\* on, but for the kernel's own region, it maps to the frame of that number.
LEMMA BootCalls ==
  ASSUME NEW m \in Machines
  PROVE  LET c == init_vmm_calls(m) IN
         /\ c \in Seq(Regions)
         /\ \A k \in 1 .. Len(c) : c[k].left = 0 \/ c[k].virt + c[k].left <= VIDEO
         /\ Len(c) >= 3
         /\ \A v \in 0 .. IdentityPages - 1 :
              /\ Covers(c[1], v)
              /\ \A k \in 1 .. Len(c) : Covers(c[k], v) => Gives(c[k], v) = v
         /\ \A i \in Usable(m) : \A f \in Span(m.mmap[i].addr, m.mmap[i].len) :
              /\ i + 2 \in 1 .. Len(c) /\ i + 2 > 2
              /\ Covers(c[i + 2], HIGH + f)
              /\ \A k \in 1 .. Len(c) :
                   (Covers(c[k], HIGH + f) /\ k # 2) => Gives(c[k], HIGH + f) = f
<1> DEFINE n == Len(m.mmap)
           c == init_vmm_calls(m)
<1>1. /\ n \in Nat /\ Len(c) = n + 3 /\ c = [k \in 1 .. n + 3 |-> c[k]]
      /\ c[1] = Region(0, 0, IdentityPages * PAGE_SIZE)
      /\ c[2] = Region(HIGH, m.kernel_start, m.kernel_end - m.kernel_start)
      /\ \A i \in 1 .. n :
              c[i + 2] = Region(HIGH + m.mmap[i].addr \div PAGE_SIZE, m.mmap[i].addr,
                                IF i \in Usable(m) THEN m.mmap[i].len ELSE 0)
      /\ c[n + 3] = Region(VGA, VGA * PAGE_SIZE, PAGE_SIZE)
  BY CallsListed
<1> HIDE DEF c
<1>2. /\ HIGH \in Nat /\ VIDEO \in Nat /\ HIGH < VIDEO /\ IdentityPages \in Nat
      /\ IdentityPages <= HIGH /\ VGA \in Nat /\ VGA < IdentityPages
  BY Below, Numbers
<1>3. c[1] = [virt |-> 0, phys |-> 0, left |-> IdentityPages]
  <2>1. 0 * PAGE_SIZE = 0 /\ 0 \in Nat BY Numbers
  <2>2. 0 \div PAGE_SIZE = 0 BY <2>1, WholePages
  <2>3. Pages(IdentityPages * PAGE_SIZE) = IdentityPages BY <1>2, WholePages
  <2> QED BY <1>1, <2>2, <2>3 DEF Region
<1>4. /\ c[2].virt = HIGH /\ c[2].left \in Nat /\ HIGH + c[2].left <= VIDEO
      /\ c[2] \in Regions
  <2>1. PICK s \in Nat : s = m.kernel_end - m.kernel_start BY Numbers
  <2>2. Pages(s) \in Nat /\ HIGH + Pages(s) <= VIDEO BY <2>1, PagesBounds, WindowAssumption
  <2>3. PICK q \in Nat : q = m.kernel_start \div PAGE_SIZE BY Numbers
  <2>4. c[2] = [virt |-> HIGH, phys |-> q, left |-> Pages(s)] BY <1>1, <2>1, <2>3 DEF Region
  <2> QED BY <1>2, <2>2, <2>4 DEF Regions
<1>5. c[n + 3] = [virt |-> VGA, phys |-> VGA, left |-> 1]
  <2>1. PAGE_SIZE = 1 * PAGE_SIZE /\ 1 \in Nat BY PmmAssumption
  <2>2. Pages(PAGE_SIZE) = 1 BY <2>1, WholePages
  <2> QED BY <1>1, <1>2, <2>2, WholePages DEF Region
<1>6. ASSUME NEW i \in 1 .. n
      PROVE  /\ c[i + 2] \in Regions
             /\ c[i + 2].virt = HIGH + c[i + 2].phys
             /\ i \notin Usable(m) => c[i + 2].left = 0
  <2>1. m.mmap[i].addr \in Nat /\ m.mmap[i].len \in Nat /\ PAGE_SIZE \in Nat \ {0}
    BY Numbers
  <2>2. m.mmap[i].addr \div PAGE_SIZE \in Nat BY <2>1, DivBounds
  <2>3. Pages(m.mmap[i].len) \in Nat BY <2>1, PagesBounds
  <2>4. Pages(0) = 0
    <3>1. 0 \in Nat /\ 0 * PAGE_SIZE = 0 BY <2>1
    <3> QED BY <3>1, WholePages
  <2>5. PICK q \in Nat : q = m.mmap[i].addr \div PAGE_SIZE BY <2>2
  <2>6. PICK a \in Nat : a = Pages(IF i \in Usable(m) THEN m.mmap[i].len ELSE 0)
    BY <2>3, <2>4
  <2>7. c[i + 2] = [virt |-> HIGH + q, phys |-> q, left |-> a]
    BY <1>1, <2>5, <2>6 DEF Region
  <2> QED BY <1>2, <2>4, <2>6, <2>7 DEF Regions
<1>7. ASSUME NEW i \in Usable(m)
      PROVE  /\ i \in 1 .. n
             /\ c[i + 2].virt + c[i + 2].left <= VIDEO
             /\ \A f \in Span(m.mmap[i].addr, m.mmap[i].len) : f \in Nat /\ Covers(c[i + 2], HIGH + f)
  <2>1. i \in 1 .. n /\ m.mmap[i].addr \in Nat /\ m.mmap[i].len \in Nat
        /\ m.mmap[i].addr % PAGE_SIZE = 0
        /\ HIGH + Pages(m.mmap[i].addr + m.mmap[i].len) <= VIDEO
    BY Numbers
  <2>2. PICK q : q = m.mmap[i].addr \div PAGE_SIZE OBVIOUS
  <2>3. PICK a : a = Pages(m.mmap[i].len) OBVIOUS
  <2>4. /\ q \in Nat /\ a \in Nat
        /\ Span(m.mmap[i].addr, m.mmap[i].len) = q .. q + a - 1
        /\ Pages(m.mmap[i].addr + m.mmap[i].len) = q + a
    BY <2>1, <2>2, <2>3, AlignedSpan, PagesBounds
  <2>5. c[i + 2] = [virt |-> HIGH + q, phys |-> q, left |-> a]
    BY <1>1, <2>1, <2>2, <2>3 DEF Region
  <2> QED BY <1>2, <2>1, <2>4, <2>5 DEF Covers
<1>8. \A k \in 1 .. n + 3 : k = 1 \/ k = 2 \/ k = n + 3 \/ \E i \in 1 .. n : k = i + 2
  <2> SUFFICES ASSUME NEW k \in 1 .. n + 3, k # 1, k # 2, k # n + 3
               PROVE  \E i \in 1 .. n : k = i + 2
    OBVIOUS
  <2>1. k - 2 \in 1 .. n /\ k = (k - 2) + 2 BY <1>1
  <2> QED BY <2>1
<1>9. \A k \in 1 .. n + 3 : c[k] \in Regions
  BY <1>2, <1>3, <1>4, <1>5, <1>6, <1>8 DEF Regions
<1>10. c \in Seq(Regions) BY <1>1, <1>9
<1>11. \A k \in 1 .. n + 3 : c[k].virt + c[k].left <= VIDEO \/ c[k].left = 0
  BY <1>2, <1>3, <1>4, <1>5, <1>6, <1>7, <1>8
<1>12. ASSUME NEW v \in 0 .. IdentityPages - 1
       PROVE  /\ Covers(c[1], v)
              /\ \A k \in 1 .. n + 3 : Covers(c[k], v) => Gives(c[k], v) = v
  <2>1. Covers(c[1], v) /\ Gives(c[1], v) = v BY <1>2, <1>3 DEF Covers, Gives
  <2>2. ~Covers(c[2], v) BY <1>2, <1>4 DEF Covers
  <2>3. Covers(c[n + 3], v) => Gives(c[n + 3], v) = v BY <1>2, <1>5 DEF Covers, Gives
  <2>4. \A i \in 1 .. n : ~Covers(c[i + 2], v) BY <1>2, <1>6 DEF Covers, Regions
  <2> QED BY <1>8, <2>1, <2>2, <2>3, <2>4
<1>13. ASSUME NEW f \in Nat
       PROVE  \A k \in 1 .. n + 3 :
                (Covers(c[k], HIGH + f) /\ k # 2) => Gives(c[k], HIGH + f) = f
  <2>1. ~Covers(c[1], HIGH + f) BY <1>2, <1>3 DEF Covers
  <2>2. ~Covers(c[n + 3], HIGH + f) BY <1>2, <1>5 DEF Covers
  <2>3. \A i \in 1 .. n : Gives(c[i + 2], HIGH + f) = f BY <1>2, <1>6 DEF Gives, Regions
  <2> QED BY <1>8, <2>1, <2>2, <2>3
<1>14. ASSUME NEW i \in Usable(m), NEW f \in Span(m.mmap[i].addr, m.mmap[i].len)
       PROVE  /\ i + 2 \in 1 .. n + 3 /\ i + 2 > 2
              /\ Covers(c[i + 2], HIGH + f)
              /\ \A k \in 1 .. n + 3 :
                   (Covers(c[k], HIGH + f) /\ k # 2) => Gives(c[k], HIGH + f) = f
  <2>1. i \in 1 .. n /\ f \in Nat /\ Covers(c[i + 2], HIGH + f) BY <1>7
  <2>2. i + 2 \in 1 .. n + 3 /\ i + 2 > 2 BY <1>1, <2>1
  <2>3. \A k \in 1 .. n + 3 :
          (Covers(c[k], HIGH + f) /\ k # 2) => Gives(c[k], HIGH + f) = f
    BY <2>1, <1>13
  <2> QED BY <2>1, <2>2, <2>3
<1>15. Len(c) = n + 3 /\ Len(c) >= 3 BY <1>1
<1> HIDE DEF n
<1> QED BY <1>10, <1>11, <1>12, <1>14, <1>15 DEF c
-----------------------------------------------------------------------------
(* The invariant *)

\* The directory leads to each table from one entry; tables are frames in hand, and
\* none is a page of the heap.
Directory ==
    /\ page_directory \in [Slots -> held \cup {NoFrame}]
    /\ \A t \in DOMAIN tables :
         /\ tables[t] \in [Slots -> Int]
         /\ t \in held /\ t \notin heap_frames
         /\ \E d \in Slots : page_directory[d] = t
    /\ \A d \in Slots : page_directory[d] # NoFrame => page_directory[d] \in DOMAIN tables
    /\ \A c, d \in Slots :
         page_directory[c] = page_directory[d] /\ c # d => page_directory[c] = NoFrame

\* Calls keep within the address space, the last of boot behind VIDEO.
CallsFit ==
    /\ calls \in Seq(Regions)
    /\ \A k \in 1 .. Len(calls) :
         calls[k].left = 0 \/ calls[k].virt + calls[k].left <= Entries * Entries
    /\ pc = "vbe_init" => \A k \in 1 .. Len(calls) : calls[k].virt >= VIDEO
    /\ pc \notin {"init_vmm", "vbe_init"} => calls = <<>>

HeapTypes ==
    /\ heap_start \in Nat /\ heap_limit \in Nat /\ want \in Nat /\ new_page \in Nat
    /\ pc \in {"init_vmm", "init_heap", "vbe_init", "run", "expand_heap", "expand_map"}
    /\ status \in {"ok", "panic", "astray"}
    /\ paging = (pc # "init_vmm")
    /\ \A f \in heap_frames : f = 0 \/ f \in held
    /\ pc \in {"init_vmm", "init_heap"} =>
         heap_start = 0 /\ heap_limit = 0 /\ heap_frames = {}
    /\ pc = "expand_map" => want > 0

\* Frames are taken in ascending order, so the heap never gets past the page of its
\* last frame in the window in which all RAM is mapped.
Window ==
    pc \notin {"init_vmm", "init_heap"} =>
      /\ HIGH <= heap_start /\ heap_start < heap_limit /\ heap_limit <= VIDEO
      /\ heap_start = HIGH => Scanned(machine) \subseteq used /\ pc # "expand_map"
      /\ heap_start # HIGH => heap_start >= HIGH + LowFrames
      /\ 0 \notin heap_frames => heap_start # HIGH
      /\ \A f \in Scanned(machine) \ used : heap_limit <= HIGH + f
      /\ pc = "expand_map" =>
           /\ new_page \in heap_frames /\ new_page # 0 /\ heap_limit <= HIGH + new_page
           /\ \A f \in Scanned(machine) \ used : new_page < f

\* The heap's pages and the frame in hand, if there was one for the first page.
Backed ==
    0 \notin heap_frames =>
      /\ \A v \in HeapPages : Translate(v) \in heap_frames
      /\ \A v, w \in HeapPages : Translate(v) = Translate(w) => v = w
      /\ pc = "expand_map" => \A v \in HeapPages : Translate(v) # new_page

\* What the calls still to come will have left of the mappings that are needed.
Building ==
    (pc = "init_vmm" /\ status # "panic") =>
      /\ \A v \in 0 .. IdentityPages - 1 : Kept(v, v)
      /\ \A i \in Usable(machine) :
           \A f \in Span(machine.mmap[i].addr, machine.mmap[i].len) : Kept(HIGH + f, f)

Drawing ==
    (pc = "vbe_init" /\ status # "panic") =>
      \A k \in 0 .. (machine.framebuffer_size - 1) \div PAGE_SIZE :
        Kept(VIDEO + k, machine.framebuffer_addr \div PAGE_SIZE + k)

Inv == /\ PmmInv /\ Directory /\ CallsFit /\ HeapTypes /\ Window
       /\ Backed /\ Building /\ Drawing /\ MappingsKept
-----------------------------------------------------------------------------
(* map_page *)

\* An entry of a table that is there.
LEMMA MapPresent ==
  ASSUME Directory, NEW v \in Space, NEW p \in Int, map_present(v, p),
         heap_frames' = heap_frames
  PROVE  /\ Directory' /\ DOMAIN tables' = DOMAIN tables /\ status' \in {"ok", "astray"}
         /\ \A w \in Space : Translate(w)' = IF w = v THEN p ELSE Translate(w)
<1> DEFINE t == page_directory[v \div Entries]
<1>1. /\ t # NoFrame /\ tables' = [tables EXCEPT ![t][v % Entries] = p]
      /\ page_directory' = page_directory /\ held' = held /\ status' \in {"ok", "astray"}
  BY DEF map_present
<1>2. v \div Entries \in Slots /\ v % Entries \in Slots BY PageSlots
<1>3. t \in DOMAIN tables BY <1>1, <1>2 DEF Directory
<1>4. /\ DOMAIN tables' = DOMAIN tables
      /\ \A f \in DOMAIN tables : f # t => tables'[f] = tables[f]
      /\ tables'[t] = [tables[t] EXCEPT ![v % Entries] = p]
  BY <1>1, <1>3
<1>5. tables[t] \in [Slots -> Int] BY <1>3 DEF Directory
<1>6. tables'[t] \in [Slots -> Int] BY <1>2, <1>4, <1>5
<1>7. Directory'
  <2>1. \A f \in DOMAIN tables' : tables'[f] \in [Slots -> Int]
    BY <1>4, <1>6 DEF Directory
  <2> QED BY <1>1, <1>4, <2>1 DEF Directory
<1>8. ASSUME NEW w \in Space
      PROVE  Translate(w)' = IF w = v THEN p ELSE Translate(w)
  <2>1. w \div Entries \in Slots /\ w % Entries \in Slots BY PageSlots
  <2>2. CASE w = v
    BY <1>1, <1>2, <1>4, <1>5, <2>2 DEF Translate
  <2>3. CASE w # v /\ w \div Entries = v \div Entries
    <3>1. w % Entries # v % Entries BY <2>3, SlotsApart
    <3>2. tables'[t][w % Entries] = tables[t][w % Entries] BY <1>4, <1>5, <2>1, <3>1
    <3> QED BY <1>1, <2>3, <3>2 DEF Translate
  <2>4. CASE w \div Entries # v \div Entries
    <3> DEFINE u == page_directory[w \div Entries]
    <3>1. u # NoFrame => u # t /\ u \in DOMAIN tables
      BY <1>2, <2>1, <2>4 DEF Directory
    <3> QED BY <1>1, <1>4, <2>4, <3>1 DEF Translate
  <2> QED BY <2>2, <2>3, <2>4
<1> QED BY <1>1, <1>4, <1>7, <1>8

\* A table that has to be made.
LEMMA MapAbsent ==
  ASSUME PmmInv, Directory, \A f \in heap_frames : f = 0 \/ f \in held,
         NEW v \in Space, NEW p \in Int, map_absent(v, p),
         UNCHANGED <<machine, verdict, heap_frames>>
  PROVE  /\ PmmInv' /\ Directory' /\ held \subseteq held' /\ used \subseteq used'
         /\ status' \in {"ok", "astray"}
         /\ \A w \in Space : Translate(w)' = IF w = v THEN p ELSE Translate(w)
<1> DEFINE t == FirstClear(used)
           d == v \div Entries
<1>1. /\ page_directory[d] = NoFrame /\ t # 0
      /\ used' = Mark(used, t) /\ held' = Mark(held, t)
      /\ page_directory' = [page_directory EXCEPT ![d] = t]
      /\ tables' = [f \in DOMAIN tables \cup {t} |->
                     IF f = t THEN [Zeroed EXCEPT ![v % Entries] = p] ELSE tables[f]]
      /\ status' \in {"ok", "astray"}
  BY DEF map_absent
<1>2. d \in Slots /\ v % Entries \in Slots BY PageSlots
<1>3. /\ machine \in Machines /\ used = Boot(machine) \cup held
      /\ held \cap Boot(machine) = {} /\ held \subseteq Scanned(machine)
      /\ used \subseteq Bits(machine)
  BY DEF PmmInv, PmmTypeOK, BitmapExact
<1>4. PmmInv'
  <2>1. /\ Mark(used, t) = Boot(machine) \cup Mark(held, t)
        /\ Mark(held, t) \cap Boot(machine) = {}
        /\ Mark(held, t) \subseteq Scanned(machine)
        /\ Mark(used, t) \subseteq Bits(machine)
    BY <1>3, MarkKeeps
  <2> QED BY <1>1, <2>1 DEF PmmInv, PmmTypeOK, BitmapExact, TestPasses
<1>5. t \in Scanned(machine) /\ t \notin used /\ t \in Nat
  BY <1>1, <1>3, FirstClearFacts, ScannedFrames
<1>6. t \notin held /\ t \notin heap_frames /\ t # NoFrame /\ t \notin DOMAIN tables
  <2> HIDE DEF t
  <2>1. t \notin held BY <1>3, <1>5
  <2>2. t \notin heap_frames BY <1>1, <2>1
  <2>3. t # NoFrame BY <1>5 DEF NoFrame
  <2>4. t \notin DOMAIN tables BY <2>1 DEF Directory
  <2> QED BY <2>1, <2>2, <2>3, <2>4
<1>7. held' = held \cup {t} /\ used' = used \cup {t} BY <1>1 DEF Mark
<1> HIDE DEF t
<1>8. [Zeroed EXCEPT ![v % Entries] = p] \in [Slots -> Int] BY <1>2 DEF Zeroed, Slots, NoFrame
<1>9. /\ DOMAIN tables' = DOMAIN tables \cup {t}
      /\ \A f \in DOMAIN tables : tables'[f] = tables[f]
      /\ tables'[t] = [Zeroed EXCEPT ![v % Entries] = p]
  BY <1>1, <1>6
<1>10. /\ page_directory'[d] = t /\ \A c \in Slots : c # d => page_directory'[c] = page_directory[c]
       /\ page_directory' \in [Slots -> held' \cup {NoFrame}]
       /\ \A c \in Slots : page_directory[c] \in held \cup {NoFrame}
  BY <1>1, <1>2, <1>7 DEF Directory
<1>11. Directory'
  <2>1. ASSUME NEW f \in DOMAIN tables'
        PROVE  /\ tables'[f] \in [Slots -> Int] /\ f \in held' /\ f \notin heap_frames
               /\ \E c \in Slots : page_directory'[c] = f
    <3>1. CASE f = t BY <1>2, <1>6, <1>7, <1>8, <1>9, <1>10, <3>1
    <3>2. CASE f # t
      <4>1. f \in DOMAIN tables BY <1>9, <3>2
      <4>2. PICK c \in Slots : page_directory[c] = f BY <4>1 DEF Directory
      <4>3. f # NoFrame BY <1>3, <4>1, ScannedFrames DEF Directory, NoFrame
      <4>4. c # d BY <1>1, <4>2, <4>3
      <4>5. page_directory'[c] = f BY <1>10, <4>2, <4>4
      <4> QED BY <1>7, <1>9, <4>1, <4>5 DEF Directory
    <3> QED BY <3>1, <3>2
  <2>2. \A c \in Slots : page_directory'[c] # NoFrame => page_directory'[c] \in DOMAIN tables'
    BY <1>9, <1>10 DEF Directory
  <2>3. ASSUME NEW c \in Slots, NEW e \in Slots,
               page_directory'[c] = page_directory'[e], c # e
        PROVE  page_directory'[c] = NoFrame
    <3>1. c # d /\ e # d BY <1>6, <1>10, <2>3
    <3> QED BY <1>10, <2>3, <3>1 DEF Directory
  <2> QED BY <1>10, <2>1, <2>2, <2>3 DEF Directory
<1>12. ASSUME NEW w \in Space
       PROVE  Translate(w)' = IF w = v THEN p ELSE Translate(w)
  <2>1. w \div Entries \in Slots /\ w % Entries \in Slots BY PageSlots
  <2>2. CASE w = v
    BY <1>2, <1>6, <1>9, <1>10, <2>2 DEF Translate, Zeroed, Slots
  <2>3. CASE w # v /\ w \div Entries = d
    <3>1. w % Entries # v % Entries BY <2>3, SlotsApart
    <3>2. tables'[t][w % Entries] = NoFrame BY <1>9, <2>1, <3>1 DEF Zeroed, Slots
    <3>3. Translate(w) = NoFrame BY <1>1, <2>3 DEF Translate
    <3>4. Translate(w)' = NoFrame BY <1>6, <1>10, <2>3, <3>2 DEF Translate
    <3> QED BY <2>3, <3>3, <3>4
  <2>4. CASE w \div Entries # d
    <3> DEFINE u == page_directory[w \div Entries]
    <3>1. u # NoFrame => u \in DOMAIN tables BY <2>1 DEF Directory
    <3>2. page_directory'[w \div Entries] = u BY <1>10, <2>1, <2>4
    <3>3. w # v BY <2>4
    <3> QED BY <1>9, <3>1, <3>2, <3>3 DEF Translate
  <2> QED BY <2>2, <2>3, <2>4
<1> QED BY <1>1, <1>4, <1>7, <1>11, <1>12

\* Both, and the panic: what a call of map_page does.
LEMMA MapPage ==
  ASSUME PmmInv, Directory, \A f \in heap_frames : f = 0 \/ f \in held,
         NEW v \in Space, NEW p \in Int, map_page(v, p),
         UNCHANGED <<machine, verdict, heap_frames>>
  PROVE  /\ PmmInv' /\ Directory' /\ held \subseteq held' /\ used \subseteq used'
         /\ paging' = paging
         /\ \/ status' = "panic" /\ page_directory[v \div Entries] = NoFrame
               /\ \A w \in Space : Translate(w)' = Translate(w)
            \/ status' \in {"ok", "astray"}
               /\ \A w \in Space : Translate(w)' = IF w = v THEN p ELSE Translate(w)
         /\ page_directory[v \div Entries] # NoFrame => DOMAIN tables' = DOMAIN tables
<1>1. CASE map_present(v, p)
  <2>1. PmmInv'
    BY <1>1 DEF map_present, PmmInv, PmmTypeOK, BitmapExact, TestPasses
  <2>2. paging' = paging /\ held' = held /\ used' = used BY <1>1 DEF map_present
  <2> QED BY <1>1, <2>1, <2>2, MapPresent
<1>2. CASE map_absent(v, p)
  BY <1>2, MapAbsent DEF map_absent
<1>3. CASE map_panic(v)
  <2>1. /\ page_directory[v \div Entries] = NoFrame /\ status' = "panic"
        /\ UNCHANGED <<page_directory, tables, paging, used, held>>
    BY <1>3 DEF map_panic
  <2>2. PmmInv' BY <2>1 DEF PmmInv, PmmTypeOK, BitmapExact, TestPasses
  <2>3. Directory' BY <2>1 DEF Directory
  <2> QED BY <2>1, <2>2, <2>3 DEF Translate
<1> QED BY <1>1, <1>2, <1>3 DEF map_page
-----------------------------------------------------------------------------
(* Frames and calls *)

\* Frames that are handed out are above the first MB.
LEMMA AboveLow ==
  ASSUME NEW m \in Machines, NEW f \in Scanned(m), f \notin Boot(m)
  PROVE  f \in Nat /\ LowFrames <= f
<1>1. f \in Nat /\ f \in Bits(m) BY ScannedFrames
<1>2. f \notin Span(0, PAGE_SIZE * LowFrames) BY <1>1 DEF Boot, Reserved
<1>3. LowFrames \in Nat /\ PAGE_SIZE \in Nat \ {0} BY PmmAssumption
<1>4. PICK n \in Nat : n = LowFrames * PAGE_SIZE BY <1>3
<1>5. PAGE_SIZE * LowFrames = n BY <1>3, <1>4
<1>6. 0 % PAGE_SIZE = 0 /\ 0 \div PAGE_SIZE = 0 BY <1>3
<1>7. Span(0, n) = 0 .. 0 + Pages(n) - 1 BY <1>6, AlignedSpan
<1>8. Pages(n) = LowFrames BY <1>3, <1>4, WholePages
<1> QED BY <1>1, <1>2, <1>3, <1>5, <1>7, <1>8

\* Up to a frame that is handed out all memory above the first MB is RAM, and in
\* the window of addresses below VIDEO.
LEMMA AllRam ==
  ASSUME NEW m \in Machines, NEW g \in Scanned(m), NEW f \in Nat, LowFrames <= f, f <= g
  PROVE  /\ \E i \in Usable(m) : f \in Span(m.mmap[i].addr, m.mmap[i].len)
         /\ HIGH + f < VIDEO
<1>1. f \in Scanned(m)
  <2>1. g \in Nat /\ Scanned(m) = 0 .. (max_frames(m) \div WordBits) * WordBits - 1
    BY ScannedFrames DEF Scanned
  <2>2. (max_frames(m) \div WordBits) * WordBits \in Nat
    <3>1. max_frames(m) \in Nat /\ WordBits \in Nat \ {0} BY ScannedFrames, PmmAssumption
    <3>2. max_frames(m) \div WordBits \in Nat BY <3>1, DivBounds
    <3> QED BY <3>1, <3>2
  <2> QED BY <2>1, <2>2
<1>2. PAGE_SIZE \in Nat \ {0} /\ LowFrames \in Nat BY PmmAssumption
<1>3. LowFrames * PAGE_SIZE <= f * PAGE_SIZE BY <1>2
<1>4. PICK i \in Usable(m) : /\ m.mmap[i].addr <= f * PAGE_SIZE
                             /\ (f + 1) * PAGE_SIZE <= m.mmap[i].addr + m.mmap[i].len
  BY <1>1, <1>3, ScannedIsUpper
<1>5. /\ i \in 1 .. Len(m.mmap) /\ m.mmap[i].addr % PAGE_SIZE = 0
      /\ HIGH + Pages(m.mmap[i].addr + m.mmap[i].len) <= VIDEO
  BY Numbers
<1>6. PICK a \in Nat, l \in Nat : a = m.mmap[i].addr /\ l = m.mmap[i].len
  BY <1>5, Numbers
<1>7. PICK q : q = a \div PAGE_SIZE OBVIOUS
<1>8. PICK n : n = Pages(l) OBVIOUS
<1>9. /\ q \in Nat /\ n \in Nat /\ Span(a, l) = q .. q + n - 1 /\ Pages(a + l) = q + n
      /\ a = q * PAGE_SIZE
  <2>1. a % PAGE_SIZE = 0 BY <1>5, <1>6
  <2>2. /\ a \div PAGE_SIZE \in Nat
        /\ Span(a, l) = a \div PAGE_SIZE .. a \div PAGE_SIZE + Pages(l) - 1
        /\ Pages(a + l) = a \div PAGE_SIZE + Pages(l)
    BY <1>6, <2>1, AlignedSpan
  <2>3. Pages(l) \in Nat BY <1>6, PagesBounds
  <2>4. a = (a \div PAGE_SIZE) * PAGE_SIZE BY <1>2, <1>6, <2>1
  <2> QED BY <1>7, <1>8, <2>2, <2>3, <2>4
<1>10. a + l \in Nat /\ a + l <= (q + n) * PAGE_SIZE /\ (q + n) * PAGE_SIZE \in Nat
  <2>1. PICK s \in Nat : s = a + l BY <1>6
  <2>2. s <= Pages(s) * PAGE_SIZE /\ Pages(s) * PAGE_SIZE \in Nat BY PagesBounds
  <2>3. Pages(s) = q + n BY <1>9, <2>1
  <2> QED BY <2>1, <2>2, <2>3
<1>11. q <= f
  <2>1. f < q => (f + 1) * PAGE_SIZE <= q * PAGE_SIZE BY <1>2, <1>9
  <2>2. (f + 1) * PAGE_SIZE = f * PAGE_SIZE + PAGE_SIZE /\ f * PAGE_SIZE \in Nat
        /\ q * PAGE_SIZE \in Nat
    BY <1>2, <1>9
  <2> QED BY <1>2, <1>4, <1>6, <1>9, <2>1, <2>2
<1>12. f + 1 <= q + n
  <2>1. q + n < f + 1 => (q + n + 1) * PAGE_SIZE <= (f + 1) * PAGE_SIZE BY <1>2, <1>9
  <2>2. (q + n + 1) * PAGE_SIZE = (q + n) * PAGE_SIZE + PAGE_SIZE
        /\ (f + 1) * PAGE_SIZE \in Nat
    BY <1>2, <1>9
  <2> QED BY <1>2, <1>4, <1>6, <1>9, <1>10, <2>1, <2>2
<1>13. f \in Span(a, l) BY <1>9, <1>11, <1>12
<1>14. HIGH \in Nat /\ VIDEO \in Nat BY Below
<1>15. f \in Span(m.mmap[i].addr, m.mmap[i].len) BY <1>6, <1>13
<1>16. HIGH + (q + n) <= VIDEO BY <1>5, <1>6, <1>9
<1> QED BY <1>9, <1>12, <1>14, <1>15, <1>16

\* What pmm_alloc_page does for vmm and heap.
LEMMA TakeFrame ==
  ASSUME PmmInv, NEW f, pmm_alloc_page(f)
  PROVE  /\ PmmInv' /\ held \subseteq held' /\ used \subseteq used' /\ machine' = machine
         /\ \/ /\ f = 0 /\ Scanned(machine) \subseteq used /\ UNCHANGED <<used, held>>
            \/ /\ f # 0 /\ f \in Nat /\ f \in Scanned(machine) \ used /\ f \notin held
               /\ LowFrames <= f /\ f \in held'
               /\ \A g \in Scanned(machine) \ used' : f < g
<1>1. f = FirstClear(used) /\ used' = Mark(used, f) /\ held' = Mark(held, f)
      /\ machine' = machine /\ verdict' = verdict
  BY DEF pmm_alloc_page
<1>2. /\ machine \in Machines /\ used = Boot(machine) \cup held
      /\ held \cap Boot(machine) = {} /\ held \subseteq Scanned(machine)
      /\ used \subseteq Bits(machine)
  BY DEF PmmInv, PmmTypeOK, BitmapExact
<1>3. PmmInv'
  <2>1. /\ Mark(used, FirstClear(used)) = Boot(machine) \cup Mark(held, FirstClear(used))
        /\ Mark(held, FirstClear(used)) \cap Boot(machine) = {}
        /\ Mark(held, FirstClear(used)) \subseteq Scanned(machine)
        /\ Mark(used, FirstClear(used)) \subseteq Bits(machine)
    BY <1>2, MarkKeeps
  <2> QED BY <1>1, <2>1 DEF PmmInv, PmmTypeOK, BitmapExact, TestPasses
<1>4. CASE f = 0
  <2>1. 0 \notin Scanned(machine) \ used BY <1>2, ZeroIsTaken, ScannedFrames
  <2>2. Scanned(machine) \ used # {} => FirstClear(used) \in Scanned(machine) \ used
    BY <1>2, FirstClearFacts
  <2>3. Scanned(machine) \subseteq used BY <1>1, <1>4, <2>1, <2>2
  <2> QED BY <1>1, <1>3, <1>4, <2>3 DEF Mark
<1>5. CASE f # 0
  <2>1. f \in Scanned(machine) \ used /\ \A g \in Scanned(machine) \ used : f <= g
    BY <1>1, <1>2, <1>5, FirstClearFacts
  <2>2. f \in Nat /\ LowFrames <= f BY <1>2, <2>1, AboveLow
  <2>3. used' = used \cup {f} /\ held' = held \cup {f} BY <1>1, <1>5 DEF Mark
  <2>4. \A g \in Scanned(machine) \ used' : f < g
    BY <1>2, <2>1, <2>2, <2>3, ScannedFrames
  <2> QED BY <1>1, <1>2, <1>3, <1>5, <2>1, <2>2, <2>3, <2>4
<1> QED BY <1>4, <1>5

\* Steps that leave the tables alone.
LEMMA DirectoryKept ==
  ASSUME Directory, UNCHANGED <<page_directory, tables>>, held \subseteq held',
         \A f \in heap_frames' : f \in heap_frames \/ f \notin held
  PROVE  Directory'
BY DEF Directory

\* One turn of map_region's loop, seen from any page.
LEMMA KeptTurn ==
  ASSUME calls \in Seq(Regions), calls # <<>>, Head(calls).left > 0,
         calls' = [calls EXCEPT ![1] = RegionRest(Head(calls))],
         NEW v \in Int, NEW p \in Int, Kept(v, p),
         Translate(v)' = IF v = Head(calls).virt THEN Head(calls).phys ELSE Translate(v)
  PROVE  Kept(v, p)'
<1> DEFINE r == calls[1]
<1>1. r \in Regions /\ Head(calls) = r /\ Len(calls) \in Nat /\ 1 \in 1 .. Len(calls)
  OBVIOUS
<1>2. /\ Len(calls') = Len(calls) /\ calls'[1] = RegionRest(r)
      /\ \A k \in 1 .. Len(calls) : k # 1 => calls'[k] = calls[k]
  BY <1>1
<1>3. /\ Covers(calls'[1], v) <=> Covers(r, v) /\ v # r.virt
      /\ Gives(calls'[1], v) = Gives(r, v)
  BY <1>1, <1>2 DEF RegionRest, Covers, Gives, Regions
<1>4. CASE v = r.virt
  <2>1. ~Covers(calls'[1], v) BY <1>3, <1>4
  <2>2. Covers(r, v) /\ Gives(r, v) = r.phys BY <1>1, <1>4 DEF Covers, Gives, Regions
  <2>3. \A k \in 1 .. Len(calls) :
          (Covers(calls[k], v) /\ Gives(calls[k], v) # p) =>
            \E j \in 1 .. Len(calls) : j > k /\ Covers(calls[j], v) /\ Gives(calls[j], v) = p
    BY DEF Kept
  <2>4. \A k \in 1 .. Len(calls) :
          (Covers(calls'[k], v) /\ Gives(calls'[k], v) # p) =>
            \E j \in 1 .. Len(calls) : j > k /\ Covers(calls'[j], v) /\ Gives(calls'[j], v) = p
    BY <1>1, <1>2, <2>1, <2>3
  <2>5. Translate(v)' = p \/ \E j \in 1 .. Len(calls) : Covers(calls'[j], v)
    <3>1. CASE r.phys = p BY <1>1, <1>4, <3>1
    <3>2. CASE r.phys # p
      <4>1. PICK j \in 1 .. Len(calls) : j > 1 /\ Covers(calls[j], v)
        BY <1>1, <2>2, <2>3, <3>2
      <4> QED BY <1>2, <4>1
    <3> QED BY <3>1, <3>2
  <2> QED BY <1>2, <2>4, <2>5 DEF Kept, Covers, Gives
<1>5. CASE v # r.virt
  <2>1. \A k \in 1 .. Len(calls) : /\ Covers(calls'[k], v) <=> Covers(calls[k], v)
                                   /\ Gives(calls'[k], v) = Gives(calls[k], v)
    BY <1>1, <1>2, <1>3, <1>5
  <2>2. Translate(v)' = Translate(v) BY <1>1, <1>5
  <2> QED BY <1>2, <2>1, <2>2 DEF Kept, Covers, Gives
<1> QED BY <1>4, <1>5

\* The end of one call.
LEMMA KeptEnd ==
  ASSUME calls \in Seq(Regions), calls # <<>>, Head(calls).left = 0, calls' = Tail(calls),
         NEW v \in Int, NEW p \in Int, Kept(v, p), Translate(v)' = Translate(v)
  PROVE  Kept(v, p)'
<1>1. calls[1] \in Regions /\ Head(calls) = calls[1] /\ Len(calls) \in Nat /\ Len(calls) > 0
  OBVIOUS
<1>2. /\ Len(calls') = Len(calls) - 1
      /\ \A k \in 1 .. Len(calls) - 1 : calls'[k] = calls[k + 1]
  BY <1>1
<1>3. ~Covers(calls[1], v) BY <1>1 DEF Covers, Regions
<1>4. \A k \in 1 .. Len(calls) : k = 1 \/ (k - 1 \in 1 .. Len(calls) - 1 /\ k = (k - 1) + 1)
  BY <1>1
<1>5. ASSUME NEW k \in 1 .. Len(calls) - 1, Covers(calls'[k], v), Gives(calls'[k], v) # p
      PROVE  \E j \in 1 .. Len(calls) - 1 :
               j > k /\ Covers(calls'[j], v) /\ Gives(calls'[j], v) = p
  <2>1. k + 1 \in 1 .. Len(calls) /\ calls'[k] = calls[k + 1] BY <1>1, <1>2
  <2>2. PICK j \in 1 .. Len(calls) : j > k + 1 /\ Covers(calls[j], v) /\ Gives(calls[j], v) = p
    BY <1>5, <2>1 DEF Kept
  <2>3. j - 1 \in 1 .. Len(calls) - 1 /\ j - 1 > k /\ calls'[j - 1] = calls[j]
    BY <1>1, <1>2, <2>2
  <2> QED BY <2>2, <2>3
<1>6. (\E k \in 1 .. Len(calls) : Covers(calls[k], v)) =>
        \E k \in 1 .. Len(calls) - 1 : Covers(calls'[k], v)
  <2> SUFFICES ASSUME NEW k \in 1 .. Len(calls), Covers(calls[k], v)
               PROVE  \E j \in 1 .. Len(calls) - 1 : Covers(calls'[j], v)
    OBVIOUS
  <2>1. k - 1 \in 1 .. Len(calls) - 1 /\ calls'[k - 1] = calls[k] BY <1>2, <1>3, <1>4
  <2> QED BY <2>1
<1> QED BY <1>2, <1>5, <1>6 DEF Kept, Covers, Gives
-----------------------------------------------------------------------------
(* The steps *)

\* With no call to come a page is mapped as it is to be.
LEMMA NoCalls ==
  ASSUME calls = <<>>, NEW v, NEW p, Kept(v, p)
  PROVE  Translate(v) = p
<1>1. Len(calls) = 0 BY EmptySeq
<1>2. \A k \in 1 .. Len(calls) : FALSE BY <1>1
<1> QED BY <1>2 DEF Kept

\* The pages that are needed are pages of the address space.
LEMMA Needed ==
  ASSUME machine \in Machines
  PROVE  /\ \A v \in 0 .. IdentityPages - 1 : v \in Space /\ v \in Int /\ v < HIGH
         /\ \A i \in Usable(machine) :
              \A f \in Span(machine.mmap[i].addr, machine.mmap[i].len) :
                f \in Nat /\ HIGH + f \in Space /\ HIGH + f \in Int /\ HIGH + f < VIDEO
         /\ \A k \in 0 .. (machine.framebuffer_size - 1) \div PAGE_SIZE :
              /\ VIDEO + k \in Space /\ VIDEO + k \in Int
              /\ k \in Nat /\ k < Pages(machine.framebuffer_size)
              /\ machine.framebuffer_addr \div PAGE_SIZE + k \in Int
         /\ machine.framebuffer_addr \div PAGE_SIZE \in Nat
         /\ Pages(machine.framebuffer_size) \in Nat
<1>1. \A v \in 0 .. IdentityPages - 1 : v \in Space /\ v \in Int /\ v < HIGH
  BY Below
<1>2. ASSUME NEW i \in Usable(machine),
             NEW f \in Span(machine.mmap[i].addr, machine.mmap[i].len)
      PROVE  f \in Nat /\ HIGH + f \in Space /\ HIGH + f \in Int /\ HIGH + f < VIDEO
  <2>1. PICK a \in Nat, l \in Nat : a = machine.mmap[i].addr /\ l = machine.mmap[i].len
    BY Numbers
  <2>2. a % PAGE_SIZE = 0 /\ HIGH + Pages(a + l) <= VIDEO BY <2>1, Numbers
  <2>3. /\ a \div PAGE_SIZE \in Nat
        /\ Span(a, l) = a \div PAGE_SIZE .. a \div PAGE_SIZE + Pages(l) - 1
        /\ Pages(a + l) = a \div PAGE_SIZE + Pages(l)
    BY <2>1, <2>2, AlignedSpan
  <2>4. Pages(l) \in Nat BY <2>1, PagesBounds
  <2>5. f \in Nat /\ HIGH + f < VIDEO BY <2>1, <2>2, <2>3, <2>4, Below
  <2> QED BY <2>5, Below
<1>3. /\ PAGE_SIZE \in Nat \ {0} /\ machine.framebuffer_addr \in Nat
      /\ machine.framebuffer_size \in Nat \ {0}
      /\ VIDEO + Pages(machine.framebuffer_size) <= Entries * Entries
  BY PmmAssumption, WindowAssumption
<1>4. machine.framebuffer_addr \div PAGE_SIZE \in Nat BY <1>3, DivBounds
<1>5. Pages(machine.framebuffer_size) \in Nat BY <1>3, PagesBounds
<1>6. ASSUME NEW k \in 0 .. (machine.framebuffer_size - 1) \div PAGE_SIZE
      PROVE  k \in Nat /\ k < Pages(machine.framebuffer_size)
  <2>1. PICK s \in Nat : s = machine.framebuffer_size - 1 BY <1>3
  <2>2. PICK q \in Nat : q = s \div PAGE_SIZE BY <1>3, <2>1, DivBounds
  <2>3. q * PAGE_SIZE <= s /\ q * PAGE_SIZE \in Nat BY <1>3, <2>2, DivBounds
  <2>4. PICK n \in Nat : n = Pages(s + 1) BY <2>1, PagesBounds
  <2>5. s + 1 <= n * PAGE_SIZE /\ n * PAGE_SIZE \in Nat BY <2>1, <2>4, PagesBounds
  <2>6. n <= q => n * PAGE_SIZE <= q * PAGE_SIZE BY <1>3
  <2>7. q < n BY <2>3, <2>5, <2>6
  <2>8. s + 1 = machine.framebuffer_size BY <1>3, <2>1
  <2> QED BY <2>1, <2>2, <2>4, <2>7, <2>8
<1>7. ASSUME NEW k \in 0 .. (machine.framebuffer_size - 1) \div PAGE_SIZE
      PROVE  /\ VIDEO + k \in Space /\ VIDEO + k \in Int
             /\ machine.framebuffer_addr \div PAGE_SIZE + k \in Int
  <2>1. k \in Nat /\ k < Pages(machine.framebuffer_size) BY <1>6
  <2>2. Entries * Entries \in Nat BY VmmAssumption
  <2> QED BY <1>3, <1>4, <1>5, <2>1, <2>2, Below DEF Space
<1> QED BY <1>1, <1>2, <1>4, <1>5, <1>6, <1>7

\* The mappings that are needed, where every page of them but the heap's leads where
\* it did.
LEMMA StillMapped ==
  ASSUME machine \in Machines, machine' = machine, MappingsKept,
         paging, pc # "init_vmm",
         heap_start' = heap_start, heap_limit \in Int, heap_start \in Int,
         heap_limit' \in Int, heap_limit' >= heap_limit,
         \A w \in Space : Translate(w)' = Translate(w) \/ w \in HeapPages'
                          \/ (w >= VIDEO /\ pc' = "vbe_init"),
         heap_start >= HIGH \/ heap_limit' <= heap_start, heap_limit' <= VIDEO,
         pc' \in {"run", "expand_heap", "expand_map"} => ScreenMapped'
  PROVE  MappingsKept'
<1>1. \A v \in 0 .. IdentityPages - 1 : v \in Space /\ v \in Int /\ v < HIGH BY Needed
<1>0. HIGH \in Int /\ VIDEO \in Int BY Below
<1>10. PICK a \in Int, b \in Int, c \in Int : a = heap_start /\ b = heap_limit /\ c = heap_limit'
  OBVIOUS
<1>11. HeapPages = a .. b - 1 /\ HeapPages' = a .. c - 1 BY <1>10 DEF HeapPages
<1>12. b <= c /\ c <= VIDEO /\ (a >= HIGH \/ c <= a) BY <1>0, <1>10
<1>2. HeapPages \subseteq HeapPages' BY <1>11, <1>12
<1>3. \A w \in HeapPages' : w >= HIGH /\ w < VIDEO BY <1>0, <1>11, <1>12
<1>4. IdentityKept'
  <2> SUFFICES ASSUME NEW v \in 0 .. IdentityPages - 1 PROVE Translate(v)' = v
    BY DEF IdentityKept
  <2>1. v \in Space /\ v \in Int /\ v < HIGH BY <1>1
  <2>2. v < VIDEO /\ v \notin HeapPages' BY <1>3, <2>1, Below
  <2>3. Translate(v)' = Translate(v) BY <2>1, <2>2, Below
  <2>4. Translate(v) = v BY DEF MappingsKept, IdentityKept
  <2> QED BY <2>3, <2>4
<1>5. DirectMapped'
  <2> SUFFICES ASSUME NEW i \in Usable(machine),
                      NEW f \in Span(machine.mmap[i].addr, machine.mmap[i].len),
                      HIGH + f \notin HeapPages'
               PROVE  Translate(HIGH + f)' = f
    BY DEF DirectMapped, HeapPages
  <2>1. HIGH + f \in Space /\ HIGH + f \in Int /\ HIGH + f < VIDEO BY Needed
  <2>2. Translate(HIGH + f)' = Translate(HIGH + f) BY <2>1, Below
  <2>3. Translate(HIGH + f) = f BY <1>2 DEF MappingsKept, DirectMapped
  <2> QED BY <2>2, <2>3
<1>6. ScreenMapped'
  <2>1. CASE pc' \in {"run", "expand_heap", "expand_map"} BY <2>1
  <2>2. CASE pc' \notin {"run", "expand_heap", "expand_map"} BY <2>2 DEF ScreenMapped
  <2> QED BY <2>1, <2>2
<1> QED BY <1>4, <1>5, <1>6 DEF MappingsKept

\* A turn of map_region's loop.
LEMMA MapRegionKeeps == ASSUME Inv, map_region PROVE Inv'
<1> USE DEF Inv
<1> DEFINE r == Head(calls)
<1>1. /\ status = "ok" /\ pc \in {"init_vmm", "vbe_init"} /\ calls # <<>>
      /\ r.left > 0 /\ map_page(r.virt, r.phys)
      /\ calls' = [calls EXCEPT ![1] = RegionRest(r)]
      /\ UNCHANGED <<machine, verdict, pc, heap_vars>>
  BY DEF map_region
<1>2. UNCHANGED <<heap_start, heap_limit, want, new_page, heap_frames>> BY <1>1 DEF heap_vars
<1>3. calls \in Seq(Regions) /\ r = calls[1] /\ r \in Regions /\ 1 \in 1 .. Len(calls)
  BY <1>1 DEF CallsFit
<1>4. machine \in Machines BY DEF PmmInv, PmmTypeOK
<1>5. r.virt \in Space /\ r.phys \in Int /\ r.virt \in Nat /\ r.phys \in Nat /\ r.left \in Nat
  <2>1. Entries * Entries \in Nat BY VmmAssumption
  <2>2. r.left = 0 \/ r.virt + r.left <= Entries * Entries BY <1>3 DEF CallsFit
  <2> QED BY <1>1, <1>3, <2>1, <2>2 DEF Regions, Space
<1>6. /\ PmmInv' /\ Directory' /\ held \subseteq held' /\ used \subseteq used'
      /\ paging' = paging
      /\ \/ status' = "panic" /\ \A w \in Space : Translate(w)' = Translate(w)
         \/ /\ status' \in {"ok", "astray"}
            /\ \A w \in Space : Translate(w)' = IF w = r.virt THEN r.phys ELSE Translate(w)
  BY <1>1, <1>2, <1>5, MapPage DEF HeapTypes
<1>7. /\ Len(calls') = Len(calls) /\ calls'[1] = RegionRest(r)
      /\ \A k \in 1 .. Len(calls) : k # 1 => calls'[k] = calls[k]
  BY <1>1, <1>3
<1>8. RegionRest(r) = [virt |-> r.virt + 1, phys |-> r.phys + 1, left |-> r.left - 1]
      /\ RegionRest(r) \in Regions
  BY <1>1, <1>5 DEF RegionRest, Regions
<1>9. CallsFit'
  <2>1. calls' \in Seq(Regions) BY <1>1, <1>3, <1>8
  <2>2. \A k \in 1 .. Len(calls') :
          calls'[k].left = 0 \/ calls'[k].virt + calls'[k].left <= Entries * Entries
    BY <1>1, <1>3, <1>5, <1>7, <1>8 DEF CallsFit
  <2>3. pc' = "vbe_init" => \A k \in 1 .. Len(calls') : calls'[k].virt >= VIDEO
    <3>1. VIDEO \in Int BY Below
    <3> QED BY <1>1, <1>3, <1>5, <1>7, <1>8, <3>1 DEF CallsFit
  <2> QED BY <1>1, <2>1, <2>2, <2>3 DEF CallsFit
<1>10. HeapTypes' BY <1>1, <1>2, <1>6 DEF HeapTypes
<1>11. Window' BY <1>1, <1>2, <1>6 DEF Window
<1>12. pc = "vbe_init" => r.virt >= VIDEO BY <1>3 DEF CallsFit
<1>13. Backed'
  <2>1. CASE pc = "init_vmm"
    <3>1. heap_start' = 0 /\ heap_limit' = 0 BY <1>2, <2>1 DEF HeapTypes
    <3>2. HeapPages' = {} BY <3>1 DEF HeapPages
    <3> QED BY <3>2 DEF Backed
  <2>2. CASE pc = "vbe_init"
    <3>1. \A v \in HeapPages : v \in Space /\ v < VIDEO
      BY <2>2, Below DEF HeapPages, HeapTypes, Window
    <3>2. \A v \in HeapPages : Translate(v)' = Translate(v)
      BY <1>5, <1>6, <1>12, <2>2, <3>1, Below
    <3>3. HeapPages' = HeapPages BY <1>2 DEF HeapPages
    <3> QED BY <1>1, <1>2, <2>2, <3>2, <3>3 DEF Backed
  <2> QED BY <1>1, <2>1, <2>2
<1>14. ASSUME status' # "panic", NEW v \in Space, NEW p \in Int, Kept(v, p)
       PROVE  Kept(v, p)'
  <2>1. Translate(v)' = IF v = r.virt THEN r.phys ELSE Translate(v) BY <1>6, <1>14
  <2>2. v \in Int BY DEF Space
  <2> QED BY <1>1, <1>3, <1>14, <2>1, <2>2, KeptTurn
<1>15. Building'
  <2> SUFFICES ASSUME pc = "init_vmm", status' # "panic"
               PROVE  /\ \A v \in 0 .. IdentityPages - 1 : Kept(v, v)'
                      /\ \A i \in Usable(machine) :
                           \A f \in Span(machine.mmap[i].addr, machine.mmap[i].len) :
                             Kept(HIGH + f, f)'
    BY <1>1 DEF Building
  <2>1. /\ \A v \in 0 .. IdentityPages - 1 : Kept(v, v)
        /\ \A i \in Usable(machine) :
             \A f \in Span(machine.mmap[i].addr, machine.mmap[i].len) : Kept(HIGH + f, f)
    BY <1>1 DEF Building
  <2> QED BY <1>4, <1>14, <2>1, Needed
<1>16. Drawing'
  <2> SUFFICES ASSUME pc = "vbe_init", status' # "panic",
                      NEW k \in 0 .. (machine.framebuffer_size - 1) \div PAGE_SIZE
               PROVE  Kept(VIDEO + k, machine.framebuffer_addr \div PAGE_SIZE + k)'
    BY <1>1 DEF Drawing
  <2>1. VIDEO + k \in Space /\ machine.framebuffer_addr \div PAGE_SIZE + k \in Int
    BY <1>4, Needed
  <2>2. PICK v \in Space, p \in Int :
          v = VIDEO + k /\ p = machine.framebuffer_addr \div PAGE_SIZE + k
    BY <2>1
  <2>3. Kept(v, p) BY <1>1, <2>2 DEF Drawing
  <2>4. Kept(v, p)' BY <1>14, <2>3
  <2>5. p = (machine.framebuffer_addr \div PAGE_SIZE + k)' BY <1>1, <2>2
  <2> QED BY <2>2, <2>4, <2>5 DEF Kept
<1>17. MappingsKept'
  <2>1. CASE pc = "init_vmm"
    BY <1>1, <1>6, <2>1 DEF HeapTypes, MappingsKept, IdentityKept, DirectMapped, ScreenMapped
  <2>2. CASE pc = "vbe_init"
    <3>1. \A w \in Space : Translate(w)' = Translate(w) \/ w >= VIDEO
      BY <1>6, <1>12, <2>2
    <3>2. /\ paging /\ pc' = "vbe_init" /\ heap_start \in Int /\ heap_limit \in Int
          /\ heap_start >= HIGH /\ heap_limit <= VIDEO /\ heap_limit' >= heap_limit
      <4>1. HIGH \in Int BY Below
      <4>2. paging BY <2>2 DEF HeapTypes
      <4>3. heap_start \in Int /\ heap_limit \in Int BY DEF HeapTypes
      <4>4. HIGH <= heap_start /\ heap_limit <= VIDEO BY <2>2 DEF Window
      <4>5. heap_start >= HIGH /\ heap_limit' >= heap_limit BY <1>2, <4>1, <4>3, <4>4
      <4> QED BY <1>1, <2>2, <4>2, <4>3, <4>4, <4>5
    <3> QED BY <1>1, <1>2, <1>4, <3>1, <3>2, StillMapped
  <2> QED BY <1>1, <2>1, <2>2
<1> QED BY <1>6, <1>9, <1>10, <1>11, <1>13, <1>15, <1>16, <1>17
\* Steps that leave the tables alone leave every page where it is.
LEMMA SameTables ==
  ASSUME UNCHANGED <<page_directory, tables>>
  PROVE  \A w : Translate(w)' = Translate(w)
BY DEF Translate

\* Bitmap and owners agree, so frame 0 is no one's and bits only follow owners.
LEMMA OwnersAndBits ==
  ASSUME PmmInv
  PROVE  /\ machine \in Machines /\ 0 \notin held /\ held \subseteq Scanned(machine)
         /\ (PmmInv' /\ machine' = machine /\ held \subseteq held') => used \subseteq used'
<1>1. /\ machine \in Machines /\ used = Boot(machine) \cup held
      /\ held \cap Boot(machine) = {} /\ held \subseteq Scanned(machine)
  BY DEF PmmInv, PmmTypeOK, BitmapExact
<1>2. 0 \in held => 0 \in Boot(machine) BY <1>1, ScannedFrames, ZeroIsTaken
<1>3. PmmInv' => used' = Boot(machine)' \cup held' BY DEF PmmInv, BitmapExact
<1>4. machine' = machine => Boot(machine)' = Boot(machine)
  BY DEF Boot, Bits, FreedAtBoot, Reserved, bitmap, bitmap_size, bitmap_words, max_frames,
         multiboot_get_total_memory, Usable, Span
<1> QED BY <1>1, <1>2, <1>3, <1>4

\* The end of a call of map_region.
LEMMA MapRegionEndKeeps == ASSUME Inv, map_region_end PROVE Inv'
<1> USE DEF Inv
<1>1. /\ status = "ok" /\ pc \in {"init_vmm", "vbe_init"} /\ calls # <<>>
      /\ Head(calls).left = 0 /\ calls' = Tail(calls)
      /\ UNCHANGED <<machine, used, held, verdict>>
      /\ UNCHANGED <<page_directory, tables, paging, status, pc>>
      /\ UNCHANGED <<heap_start, heap_limit, want, new_page, heap_frames>>
  BY DEF map_region_end, pmm_vars, vmm_vars, heap_vars
<1>2. machine \in Machines /\ calls \in Seq(Regions)
  BY DEF PmmInv, PmmTypeOK, CallsFit
<1>3. \A w : Translate(w)' = Translate(w) BY <1>1, SameTables
<1>4. PmmInv' BY <1>1 DEF PmmInv, PmmTypeOK, BitmapExact, TestPasses
<1>5. Directory' BY <1>1, DirectoryKept
<1>6. CallsFit'
  <2>1. Len(calls) \in Nat /\ Len(calls') = Len(calls) - 1 /\ calls' \in Seq(Regions)
        /\ \A k \in 1 .. Len(calls') : calls'[k] = calls[k + 1] /\ k + 1 \in 1 .. Len(calls)
    BY <1>1, <1>2
  <2> QED BY <1>1, <2>1 DEF CallsFit
<1>7. HeapTypes' BY <1>1 DEF HeapTypes
<1>8. Window' BY <1>1 DEF Window
<1>9. HeapPages' = HeapPages BY <1>1 DEF HeapPages
<1>10. Backed' BY <1>1, <1>3, <1>9 DEF Backed
<1>11. ASSUME NEW v \in Int, NEW p \in Int, Kept(v, p) PROVE Kept(v, p)'
  BY <1>1, <1>2, <1>3, <1>11, KeptEnd
<1>12. Building' BY <1>1, <1>2, <1>11, Needed DEF Building
<1>13. Drawing'
  <2> SUFFICES ASSUME pc = "vbe_init",
                      NEW k \in 0 .. (machine.framebuffer_size - 1) \div PAGE_SIZE
               PROVE  Kept(VIDEO + k, machine.framebuffer_addr \div PAGE_SIZE + k)'
    BY <1>1 DEF Drawing
  <2>1. VIDEO + k \in Int /\ machine.framebuffer_addr \div PAGE_SIZE + k \in Int
    BY <1>2, Needed
  <2>2. PICK v \in Int, p \in Int :
          v = VIDEO + k /\ p = machine.framebuffer_addr \div PAGE_SIZE + k
    BY <2>1
  <2>3. Kept(v, p) BY <1>1, <2>2 DEF Drawing
  <2>4. Kept(v, p)' BY <1>11, <2>3
  <2>5. p = (machine.framebuffer_addr \div PAGE_SIZE + k)' BY <1>1, <2>2
  <2> QED BY <2>2, <2>4, <2>5 DEF Kept
<1>14. MappingsKept'
  BY <1>1, <1>3, <1>9 DEF MappingsKept, IdentityKept, DirectMapped, ScreenMapped
<1> QED BY <1>4, <1>5, <1>6, <1>7, <1>8, <1>10, <1>12, <1>13, <1>14

\* Paging goes on when all calls are made.
LEMMA EnablePagingKeeps == ASSUME Inv, enable_paging PROVE Inv'
<1> USE DEF Inv
<1>1. /\ status = "ok" /\ pc = "init_vmm" /\ calls = <<>> /\ paging' = TRUE
      /\ pc' = "init_heap"
      /\ UNCHANGED <<machine, used, held, verdict>>
      /\ UNCHANGED <<page_directory, tables, status, calls>>
      /\ UNCHANGED <<heap_start, heap_limit, want, new_page, heap_frames>>
  BY DEF enable_paging, pmm_vars, heap_vars
<1>2. machine \in Machines BY DEF PmmInv, PmmTypeOK
<1>3. \A w : Translate(w)' = Translate(w) BY <1>1, SameTables
<1>4. PmmInv' BY <1>1 DEF PmmInv, PmmTypeOK, BitmapExact, TestPasses
<1>5. Directory' BY <1>1, DirectoryKept
<1>6. CallsFit' BY <1>1 DEF CallsFit
<1>7. HeapTypes' BY <1>1 DEF HeapTypes
<1>8. Window' BY <1>1 DEF Window
<1>9. HeapPages' = HeapPages BY <1>1 DEF HeapPages
<1>10. Backed' BY <1>1, <1>3, <1>9 DEF Backed
<1>11. Building' /\ Drawing' BY <1>1 DEF Building, Drawing
<1>12. MappingsKept'
  <2>1. \A v \in 0 .. IdentityPages - 1 : Translate(v) = v
    BY <1>1, NoCalls DEF Building
  <2>2. \A i \in Usable(machine) :
          \A f \in Span(machine.mmap[i].addr, machine.mmap[i].len) : Translate(HIGH + f) = f
    BY <1>1, NoCalls DEF Building
  <2> QED
    BY <1>1, <1>3, <2>1, <2>2 DEF MappingsKept, IdentityKept, DirectMapped, ScreenMapped
<1> QED BY <1>4, <1>5, <1>6, <1>7, <1>8, <1>10, <1>11, <1>12

\* Steps that change neither tables nor heap pages.
LEMMA QuietKeeps ==
  ASSUME Inv, PmmInv', machine' = machine, held \subseteq held',
         UNCHANGED <<page_directory, tables, paging, status>>,
         UNCHANGED <<heap_start, heap_limit, heap_frames>>,
         pc \in {"vbe_init", "run", "expand_heap"}, pc' \in {"run", "expand_heap"},
         want' \in Nat, new_page' \in Nat, calls = <<>>, calls' = calls, ScreenMapped'
  PROVE  Inv'
<1> USE DEF Inv
<1>1. \A w : Translate(w)' = Translate(w) BY SameTables
<1>2. used \subseteq used' BY OwnersAndBits
<1>3. Directory' BY DirectoryKept
<1>4. CallsFit' BY DEF CallsFit
<1>5. HeapTypes' BY DEF HeapTypes
<1>6. Scanned(machine)' = Scanned(machine)
  BY DEF Scanned, max_frames, multiboot_get_total_memory
<1>7. Window' BY <1>2, <1>6 DEF Window
<1>8. HeapPages' = HeapPages BY DEF HeapPages
<1>9. Backed' BY <1>1, <1>8 DEF Backed
<1>10. Building' /\ Drawing' BY DEF Building, Drawing
<1>11. MappingsKept' BY <1>1, <1>8 DEF MappingsKept, IdentityKept, DirectMapped, Usable, Span
<1> QED BY <1>3, <1>4, <1>5, <1>7, <1>9, <1>10, <1>11
\* The first page of the heap, reached through its direct mapping.
LEMMA InitHeapKeeps == ASSUME Inv, init_heap PROVE Inv'
<1> USE DEF Inv
<1>1. PICK f : f = new_page' OBVIOUS
<1>2. /\ status = "ok" /\ pc = "init_heap" /\ pmm_alloc_page(f)
      /\ heap_start' = HIGH + f /\ heap_limit' = heap_start' + 1 /\ heap_frames' = {f}
      /\ status' \in {"ok", "astray"} /\ pc' = "vbe_init"
      /\ calls' = <<Region(VIDEO, machine.framebuffer_addr, machine.framebuffer_size)>>
      /\ UNCHANGED <<page_directory, tables, paging, want>>
  BY <1>1 DEF init_heap, pmm_alloc_page
<1>3. /\ PmmInv' /\ held \subseteq held' /\ used \subseteq used' /\ machine' = machine
      /\ \/ /\ f = 0 /\ Scanned(machine) \subseteq used /\ UNCHANGED <<used, held>>
         \/ /\ f # 0 /\ f \in Nat /\ f \in Scanned(machine) \ used /\ f \notin held
            /\ LowFrames <= f /\ f \in held'
            /\ \A g \in Scanned(machine) \ used' : f < g
  BY <1>2, TakeFrame
<1>4. machine \in Machines /\ 0 \notin held BY OwnersAndBits
<1>5. \A w : Translate(w)' = Translate(w) BY <1>2, SameTables
<1>6. HIGH \in Nat /\ VIDEO \in Nat /\ HIGH < VIDEO /\ LowFrames \in Nat \ {0} /\ f \in Nat
  BY <1>3, Below, PmmAssumption
<1>7. HeapPages = {} /\ paging
  <2>1. heap_start = 0 /\ heap_limit = 0 BY <1>2 DEF HeapTypes
  <2>2. HeapPages = {} BY <2>1 DEF HeapPages
  <2> QED BY <1>2, <2>2 DEF HeapTypes
<1>8. Directory' BY <1>2, <1>3, <1>4, DirectoryKept
<1>9. CallsFit'
  <2>1. PICK p \in Nat : p = machine.framebuffer_addr \div PAGE_SIZE BY <1>4, Needed
  <2>2. PICK n \in Nat : n = Pages(machine.framebuffer_size) BY <1>4, Needed
  <2>3. calls' = <<[virt |-> VIDEO, phys |-> p, left |-> n]>> BY <1>2, <2>1, <2>2 DEF Region
  <2>4. VIDEO + n <= Entries * Entries BY <1>4, <2>2, WindowAssumption
  <2>5. [virt |-> VIDEO, phys |-> p, left |-> n] \in Regions BY <1>6 DEF Regions
  <2>6. Len(calls') = 1 /\ calls'[1] = [virt |-> VIDEO, phys |-> p, left |-> n]
        /\ calls' \in Seq(Regions)
    BY <2>3, <2>5
  <2>7. \A k \in 1 .. Len(calls') : k = 1 BY <2>6
  <2> QED BY <1>2, <1>6, <2>4, <2>6, <2>7 DEF CallsFit
<1>10. HeapTypes'
  <2>1. PICK s \in Nat : s = HIGH + f BY <1>6
  <2>4. heap_start' = s /\ heap_limit' = s + 1 /\ new_page' = f BY <1>1, <1>2, <2>1
  <2>2. \A g \in heap_frames' : g = 0 \/ g \in held' BY <1>2, <1>3
  <2>3. heap_start' \in Nat /\ heap_limit' \in Nat /\ new_page' \in Nat
    BY <1>6, <2>4
  <2> QED BY <1>2, <1>7, <2>2, <2>3 DEF HeapTypes
<1>11. heap_limit' <= VIDEO
  <2>1. CASE f = 0 BY <1>2, <1>6, <2>1
  <2>2. CASE f # 0
    <3>1. HIGH + f < VIDEO
      <4>1. f \in Scanned(machine) /\ LowFrames <= f /\ f <= f BY <1>3, <1>6, <2>2
      <4> QED BY <1>4, <1>6, <4>1, AllRam
    <3> QED BY <1>2, <1>6, <3>1
  <2> QED BY <2>1, <2>2
<1>12. Window'
  <2>1. Scanned(machine)' = Scanned(machine)
    BY <1>3 DEF Scanned, max_frames, multiboot_get_total_memory
  <2>2. HIGH <= heap_start' /\ heap_start' < heap_limit' BY <1>2, <1>6
  <2>3. heap_start' = HIGH => Scanned(machine) \subseteq used' BY <1>2, <1>3, <1>6
  <2>4. heap_start' # HIGH => heap_start' >= HIGH + LowFrames BY <1>2, <1>3, <1>6
  <2>5. 0 \notin heap_frames' => heap_start' # HIGH BY <1>2, <1>6
  <2>6. \A g \in Scanned(machine) \ used' : heap_limit' <= HIGH + g
    BY <1>2, <1>3, <1>4, <1>6, ScannedFrames
  <2> QED BY <1>2, <1>11, <2>1, <2>2, <2>3, <2>4, <2>5, <2>6 DEF Window
<1>13. Backed'
  <2>1. HeapPages' = {HIGH + f} BY <1>2, <1>6 DEF HeapPages
  <2>2. f # 0 => Translate(HIGH + f) = f
    <3> SUFFICES ASSUME f # 0 PROVE Translate(HIGH + f) = f OBVIOUS
    <3>1. f \in Scanned(machine) /\ LowFrames <= f /\ f <= f BY <1>3, <1>6
    <3>2. PICK i \in Usable(machine) : f \in Span(machine.mmap[i].addr, machine.mmap[i].len)
      BY <1>4, <1>6, <3>1, AllRam
    <3> QED BY <1>7, <3>2 DEF MappingsKept, DirectMapped
  <2> QED BY <1>2, <1>5, <2>1, <2>2 DEF Backed
<1>14. Building' BY <1>2 DEF Building
<1>15. Drawing'
  <2> SUFFICES ASSUME NEW k \in 0 .. (machine.framebuffer_size - 1) \div PAGE_SIZE
               PROVE  Kept(VIDEO + k, machine.framebuffer_addr \div PAGE_SIZE + k)'
    BY <1>3 DEF Drawing
  <2>1. PICK p \in Nat : p = machine.framebuffer_addr \div PAGE_SIZE BY <1>4, Needed
  <2>2. PICK n \in Nat : n = Pages(machine.framebuffer_size) BY <1>4, Needed
  <2>3. k \in Nat /\ k < n BY <1>4, <2>2, Needed
  <2>4. calls' = <<[virt |-> VIDEO, phys |-> p, left |-> n]>> BY <1>2, <2>1, <2>2 DEF Region
  <2>5. Len(calls') = 1 /\ calls'[1] = [virt |-> VIDEO, phys |-> p, left |-> n]
        /\ 1 \in 1 .. Len(calls')
    BY <2>4
  <2>6. \A j \in 1 .. Len(calls') : j = 1 BY <2>5
  <2>7. Covers(calls'[1], VIDEO + k) /\ Gives(calls'[1], VIDEO + k) = p + k
    BY <1>6, <2>3, <2>5 DEF Covers, Gives
  <2>8. p = (machine.framebuffer_addr \div PAGE_SIZE)' BY <1>3, <2>1
  <2> QED BY <2>5, <2>6, <2>7, <2>8 DEF Kept, Covers, Gives
<1>16. MappingsKept'
  BY <1>2, <1>3, <1>5, <1>7 DEF MappingsKept, IdentityKept, DirectMapped, ScreenMapped
<1> QED BY <1>3, <1>8, <1>9, <1>10, <1>12, <1>13, <1>14, <1>15, <1>16

\* The frame buffer is mapped when all calls are made.
LEMMA VbeInitKeeps == ASSUME Inv, vbe_init PROVE Inv'
<1> USE DEF Inv
<1>1. /\ status = "ok" /\ pc = "vbe_init" /\ calls = <<>> /\ pc' = "expand_heap"
      /\ want' = PagesFor(machine.framebuffer_size)
      /\ UNCHANGED <<machine, used, held, verdict>>
      /\ UNCHANGED <<page_directory, tables, paging, status>>
      /\ UNCHANGED <<calls, heap_start, heap_limit, new_page, heap_frames>>
  BY DEF vbe_init, pmm_vars, vmm_vars
<1>2. machine \in Machines BY DEF PmmInv, PmmTypeOK
<1>3. PmmInv' BY <1>1 DEF PmmInv, PmmTypeOK, BitmapExact, TestPasses
<1>4. want' \in Nat
  <2>1. machine.framebuffer_size + HeaderSize \in Nat BY <1>2, WindowAssumption
  <2> QED BY <1>1, <2>1, PagesBounds DEF PagesFor
<1>5. \A w : Translate(w)' = Translate(w) BY <1>1, SameTables
<1>6. ScreenMapped' BY <1>1, <1>5, NoCalls DEF Drawing, ScreenMapped
<1>7. new_page' \in Nat BY <1>1 DEF HeapTypes
<1> QED BY <1>1, <1>3, <1>4, <1>6, <1>7, QuietKeeps

\* A kmalloc that grows the heap, and the end of its growth.
LEMMA KmallocKeeps == ASSUME Inv, NEW n \in 1 .. MaxGrow, kmalloc(n) PROVE Inv'
<1> USE DEF Inv
<1>1. /\ status = "ok" /\ pc = "run" /\ pc' = "expand_heap" /\ want' = n
      /\ UNCHANGED <<machine, used, held, verdict>>
      /\ UNCHANGED <<page_directory, tables, paging, status>>
      /\ UNCHANGED <<calls, heap_start, heap_limit, new_page, heap_frames>>
  BY DEF kmalloc, pmm_vars, vmm_vars
<1>2. PmmInv' BY <1>1 DEF PmmInv, PmmTypeOK, BitmapExact, TestPasses
<1>3. want' \in Nat /\ new_page' \in Nat BY <1>1 DEF HeapTypes
<1>4. calls = <<>> BY <1>1 DEF CallsFit
<1>5. \A w : Translate(w)' = Translate(w) BY <1>1, SameTables
<1>6. ScreenMapped' BY <1>1, <1>5 DEF MappingsKept, ScreenMapped
<1> QED BY <1>1, <1>2, <1>3, <1>4, <1>6, QuietKeeps

LEMMA ExpandDoneKeeps == ASSUME Inv, expand_done PROVE Inv'
<1> USE DEF Inv
<1>1. /\ status = "ok" /\ pc = "expand_heap" /\ pc' = "run"
      /\ UNCHANGED <<machine, used, held, verdict>>
      /\ UNCHANGED <<page_directory, tables, paging, status>>
      /\ UNCHANGED <<calls, heap_start, heap_limit, want, new_page, heap_frames>>
  BY DEF expand_done, pmm_vars, vmm_vars, heap_vars
<1>2. PmmInv' BY <1>1 DEF PmmInv, PmmTypeOK, BitmapExact, TestPasses
<1>3. want' \in Nat /\ new_page' \in Nat BY <1>1 DEF HeapTypes
<1>4. calls = <<>> BY <1>1 DEF CallsFit
<1>5. \A w : Translate(w)' = Translate(w) BY <1>1, SameTables
<1>6. ScreenMapped' BY <1>1, <1>5 DEF MappingsKept, ScreenMapped
<1> QED BY <1>1, <1>2, <1>3, <1>4, <1>6, QuietKeeps

\* The test command takes frames.
LEMMA LibcTestsKeeps == ASSUME Inv, run_libc_tests PROVE Inv'
<1> USE DEF Inv
<1>1. /\ status = "ok" /\ pc = "run" /\ test_memory
      /\ UNCHANGED <<page_directory, tables, paging, status>>
      /\ UNCHANGED <<pc, calls, heap_start, heap_limit, want, new_page, heap_frames>>
  BY DEF run_libc_tests, vmm_vars, heap_vars
<1>2. PmmInv' BY <1>1, TestStep
<1>3. machine' = machine /\ held \subseteq held' BY <1>1 DEF test_memory, Mark
<1>4. want' \in Nat /\ new_page' \in Nat BY <1>1 DEF HeapTypes
<1>5. calls = <<>> BY <1>1 DEF CallsFit
<1>6. \A w : Translate(w)' = Translate(w) BY <1>1, SameTables
<1>7. ScreenMapped' BY <1>1, <1>3, <1>6 DEF MappingsKept, ScreenMapped
<1> QED BY <1>1, <1>2, <1>3, <1>4, <1>5, <1>7, QuietKeeps
\* The growing heap takes a frame.
LEMMA ExpandAllocKeeps == ASSUME Inv, expand_alloc PROVE Inv'
<1> USE DEF Inv
<1>1. PICK f : f = new_page' OBVIOUS
<1>2. /\ status = "ok" /\ pc = "expand_heap" /\ want > 0 /\ pmm_alloc_page(f)
      /\ pc' = (IF f = 0 THEN "run" ELSE "expand_map")
      /\ heap_frames' = heap_frames \cup ({f} \ {0})
      /\ want' = IF f = 0 THEN 0 ELSE want
      /\ UNCHANGED <<page_directory, tables, paging, status>>
      /\ UNCHANGED <<calls, heap_start, heap_limit>>
  BY <1>1 DEF expand_alloc, pmm_alloc_page, vmm_vars
<1>3. /\ PmmInv' /\ held \subseteq held' /\ used \subseteq used' /\ machine' = machine
      /\ \/ /\ f = 0 /\ Scanned(machine) \subseteq used /\ UNCHANGED <<used, held>>
         \/ /\ f # 0 /\ f \in Nat /\ f \in Scanned(machine) \ used /\ f \notin held
            /\ LowFrames <= f /\ f \in held'
            /\ \A g \in Scanned(machine) \ used' : f < g
  BY <1>2, TakeFrame
<1>4. \A w : Translate(w)' = Translate(w) BY <1>2, SameTables
<1>5. calls = <<>> /\ want \in Nat BY <1>2 DEF CallsFit, HeapTypes
<1>6. HeapPages' = HeapPages BY <1>2 DEF HeapPages
<1>7. ScreenMapped' BY <1>2, <1>3, <1>4 DEF MappingsKept, ScreenMapped
<1>8. CASE f = 0
  <2>1. heap_frames' = heap_frames /\ want' \in Nat /\ new_page' \in Nat /\ pc' = "run"
    BY <1>1, <1>2, <1>8
  <2> QED BY <1>2, <1>3, <1>5, <1>7, <2>1, QuietKeeps
<1>9. CASE f # 0
  <2>1. /\ heap_frames' = heap_frames \cup {f} /\ want' = want /\ pc' = "expand_map"
        /\ f \in Nat /\ f \in Scanned(machine) \ used /\ f \notin held /\ f \in held'
        /\ LowFrames <= f /\ \A g \in Scanned(machine) \ used' : f < g
    BY <1>2, <1>3, <1>9
  <2>2. Directory' BY <1>2, <1>3, <2>1, DirectoryKept
  <2>3. CallsFit' BY <1>2, <1>5, <2>1 DEF CallsFit
  <2>4. HeapTypes'
    <3>1. \A g \in heap_frames' : g = 0 \/ g \in held' BY <1>3, <2>1 DEF HeapTypes
    <3>2. pc' \notin {"init_vmm", "init_heap"} /\ new_page' = f BY <1>1, <2>1
    <3> QED BY <1>2, <2>1, <3>1, <3>2 DEF HeapTypes
  <2>5. Window'
    <3>1. Scanned(machine)' = Scanned(machine)
      BY <1>3 DEF Scanned, max_frames, multiboot_get_total_memory
    <3>2. heap_start # HIGH BY <1>2, <2>1 DEF Window
    <3>3. \A g \in Scanned(machine) \ used : heap_limit <= HIGH + g BY <1>2 DEF Window
    <3> QED BY <1>1, <1>2, <1>3, <1>9, <2>1, <3>1, <3>2, <3>3 DEF Window
  <2>6. Backed'
    <3>1. 0 \notin heap_frames' => 0 \notin heap_frames BY <2>1
    <3>2. 0 \notin heap_frames => \A v \in HeapPages : Translate(v) # f
      BY <1>9, <2>1 DEF Backed, HeapTypes
    <3> QED BY <1>1, <1>4, <1>6, <2>1, <3>1, <3>2 DEF Backed
  <2>7. Building' /\ Drawing' BY <2>1 DEF Building, Drawing
  <2>8. MappingsKept'
    BY <1>2, <1>3, <1>4, <1>6, <1>7, <2>1 DEF MappingsKept, IdentityKept, DirectMapped
  <2> QED BY <1>3, <2>2, <2>3, <2>4, <2>5, <2>6, <2>7, <2>8
<1> QED BY <1>8, <1>9

\* The page the heap grows over has a table, for all RAM has.
LEMMA TableThere ==
  ASSUME Inv, pc = "expand_map"
  PROVE  /\ heap_limit \in Space /\ HIGH <= heap_limit /\ heap_limit < VIDEO
         /\ page_directory[heap_limit \div Entries] # NoFrame
         /\ new_page \in held /\ new_page \in Nat
<1> USE DEF Inv
<1>1. /\ HIGH <= heap_start /\ heap_start < heap_limit
      /\ heap_start >= HIGH + LowFrames
      /\ new_page \in heap_frames /\ new_page # 0 /\ heap_limit <= HIGH + new_page
  BY DEF Window
<1>2. heap_start \in Nat /\ heap_limit \in Nat /\ new_page \in Nat /\ new_page \in held /\ paging
  BY <1>1 DEF HeapTypes
<1>3. machine \in Machines /\ new_page \in Scanned(machine) BY <1>2, OwnersAndBits
<1>4. HIGH \in Nat /\ LowFrames \in Nat BY Below, PmmAssumption
<1>5. PICK f \in Nat : heap_limit = HIGH + f
  <2>1. heap_limit - HIGH \in Nat /\ heap_limit = HIGH + (heap_limit - HIGH)
    BY <1>1, <1>2, <1>4
  <2> QED BY <2>1
<1>6. LowFrames <= f /\ f <= new_page BY <1>1, <1>2, <1>4, <1>5
<1>7. /\ \E i \in Usable(machine) : f \in Span(machine.mmap[i].addr, machine.mmap[i].len)
      /\ HIGH + f < VIDEO
  BY <1>3, <1>6, AllRam
<1>8. heap_limit \notin HeapPages BY <1>2 DEF HeapPages
<1>9. Translate(heap_limit) = f BY <1>2, <1>5, <1>7, <1>8 DEF MappingsKept, DirectMapped
<1>10. Translate(heap_limit) # NoFrame BY <1>9 DEF NoFrame
<1>11. page_directory[heap_limit \div Entries] # NoFrame BY <1>10 DEF Translate
<1> QED BY <1>2, <1>4, <1>5, <1>7, <1>11, Below

\* It maps the frame at the end of the heap.
LEMMA ExpandMapKeeps == ASSUME Inv, expand_map PROVE Inv'
<1> USE DEF Inv
<1>1. /\ status = "ok" /\ pc = "expand_map" /\ map_page(heap_limit, new_page)
      /\ heap_limit' = heap_limit + 1 /\ want' = want - 1 /\ pc' = "expand_heap"
      /\ UNCHANGED <<machine, verdict, calls, heap_start, new_page, heap_frames>>
  BY DEF expand_map
<1>2. PICK l \in Space, p \in Nat : l = heap_limit /\ p = new_page
  BY <1>1, TableThere
<1>3. /\ HIGH <= l /\ l < VIDEO /\ page_directory[l \div Entries] # NoFrame /\ p \in held
      /\ l \in Nat
  BY <1>1, <1>2, TableThere DEF Space
<1>4. /\ PmmInv' /\ Directory' /\ held \subseteq held' /\ used \subseteq used'
      /\ paging' = paging /\ status' \in {"ok", "astray"}
      /\ \A w \in Space : Translate(w)' = IF w = l THEN p ELSE Translate(w)
  <2>1. map_page(l, p) BY <1>1, <1>2
  <2>2. \A f \in heap_frames : f = 0 \/ f \in held BY DEF HeapTypes
  <2>3. p \in Int OBVIOUS
  <2> QED BY <1>1, <1>3, <2>1, <2>2, <2>3, MapPage
<1>5. machine \in Machines /\ calls = <<>> /\ paging /\ want \in Nat /\ want > 0
      /\ heap_start \in Nat
  BY <1>1, OwnersAndBits DEF CallsFit, HeapTypes
<1>6. HIGH \in Nat /\ VIDEO \in Nat BY Below
<1>7. /\ HIGH <= heap_start /\ heap_start < l
      /\ heap_start # HIGH /\ heap_start >= HIGH + LowFrames
      /\ p \in heap_frames /\ l <= HIGH + p
      /\ \A f \in Scanned(machine) \ used : p < f
  BY <1>1, <1>2 DEF Window
<1>8. HeapPages = heap_start .. l - 1 /\ HeapPages' = heap_start .. l
  BY <1>1, <1>2, <1>3 DEF HeapPages
<1>9. CallsFit' BY <1>1, <1>5 DEF CallsFit
<1>10. HeapTypes'
  <2>1. heap_limit' \in Nat /\ want' \in Nat BY <1>1, <1>2, <1>3, <1>5
  <2>2. \A g \in heap_frames' : g = 0 \/ g \in held' BY <1>1, <1>4 DEF HeapTypes
  <2> QED BY <1>1, <1>4, <1>5, <2>1, <2>2 DEF HeapTypes
<1>11. Window'
  <2>1. Scanned(machine)' = Scanned(machine)
    BY <1>1 DEF Scanned, max_frames, multiboot_get_total_memory
  <2>2. heap_limit' = l + 1 BY <1>1, <1>2
  <2>3. heap_start < l + 1 /\ l + 1 <= VIDEO BY <1>3, <1>5, <1>6, <1>7
  <2>4. ASSUME NEW f \in Scanned(machine) \ used' PROVE l + 1 <= HIGH + f
    <3>1. p < f /\ f \in Nat BY <1>4, <1>5, <1>7, ScannedFrames
    <3> QED BY <1>3, <1>6, <1>7, <3>1
  <2> QED BY <1>1, <1>7, <2>1, <2>2, <2>3, <2>4 DEF Window
<1>12. \A v \in HeapPages' : v \in Space /\ v >= HIGH /\ v < VIDEO /\ (v \in HeapPages \/ v = l)
  BY <1>3, <1>5, <1>6, <1>7, <1>8, Below
<1>13. \A v \in HeapPages : v # l BY <1>3, <1>5, <1>8
<1>14. Backed'
  <2> SUFFICES ASSUME 0 \notin heap_frames
               PROVE  /\ \A v \in HeapPages' : Translate(v)' \in heap_frames
                      /\ \A v, w \in HeapPages' : Translate(v)' = Translate(w)' => v = w
    BY <1>1 DEF Backed
  <2>1. /\ \A v \in HeapPages : Translate(v) \in heap_frames /\ Translate(v) # p
        /\ \A v, w \in HeapPages : Translate(v) = Translate(w) => v = w
    BY <1>1, <1>2 DEF Backed
  <2>2. \A v \in HeapPages' : Translate(v)' = IF v = l THEN p ELSE Translate(v)
    BY <1>4, <1>12
  <2> QED BY <1>7, <1>12, <1>13, <2>1, <2>2
<1>15. Building' /\ Drawing' BY <1>1 DEF Building, Drawing
<1>16. ScreenMapped'
  <2>1. \A k \in 0 .. (machine.framebuffer_size - 1) \div PAGE_SIZE :
          Translate(VIDEO + k) = machine.framebuffer_addr \div PAGE_SIZE + k
    BY <1>1 DEF MappingsKept, ScreenMapped
  <2>2. \A k \in 0 .. (machine.framebuffer_size - 1) \div PAGE_SIZE :
          VIDEO + k \in Space /\ VIDEO + k # l
    BY <1>3, <1>5, <1>6, Needed
  <2> QED BY <1>1, <1>4, <2>1, <2>2 DEF ScreenMapped
<1>17. MappingsKept'
  <2>1. \A w \in Space : Translate(w)' = Translate(w) \/ w \in HeapPages'
    BY <1>3, <1>4, <1>5, <1>7, <1>8
  <2>2. /\ heap_limit \in Int /\ heap_limit' \in Int /\ heap_limit' >= heap_limit
        /\ heap_limit' <= VIDEO /\ heap_start >= HIGH /\ heap_start \in Int
    BY <1>1, <1>2, <1>3, <1>5, <1>6, <1>7
  <2> QED BY <1>1, <1>5, <1>16, <2>1, <2>2, StillMapped
<1> QED BY <1>4, <1>9, <1>10, <1>11, <1>14, <1>15, <1>17

\* Inv when kernel_main calls init_vmm.
LEMMA InvInit == Init => Inv
<1> SUFFICES ASSUME Init PROVE Inv OBVIOUS
<1>1. /\ machine \in Machines /\ used = Boot(machine) /\ held = {} /\ verdict = "none"
      /\ page_directory = [d \in Slots |-> NoFrame] /\ tables = [f \in {} |-> Zeroed]
      /\ paging = FALSE /\ status = "ok" /\ pc = "init_vmm"
      /\ calls = init_vmm_calls(machine) /\ heap_start = 0 /\ heap_limit = 0 /\ want = 0
      /\ new_page = 0 /\ heap_frames = {}
  BY DEF Init, init_pmm, Slots
<1>2. PmmInv BY <1>1 DEF PmmInv, PmmTypeOK, BitmapExact, TestPasses, Boot
<1>3. Directory
  <2>1. DOMAIN tables = {} /\ \A d \in Slots : page_directory[d] = NoFrame BY <1>1
  <2> QED BY <1>1, <2>1 DEF Directory
<1> DEFINE c == init_vmm_calls(machine)
<1>4. /\ c \in Seq(Regions)
      /\ \A k \in 1 .. Len(c) : c[k].left = 0 \/ c[k].virt + c[k].left <= VIDEO
      /\ Len(c) >= 3
      /\ \A v \in 0 .. IdentityPages - 1 :
           /\ Covers(c[1], v)
           /\ \A k \in 1 .. Len(c) : Covers(c[k], v) => Gives(c[k], v) = v
      /\ \A i \in Usable(machine) : \A f \in Span(machine.mmap[i].addr, machine.mmap[i].len) :
           /\ i + 2 \in 1 .. Len(c) /\ i + 2 > 2
           /\ Covers(c[i + 2], HIGH + f)
           /\ \A k \in 1 .. Len(c) :
                (Covers(c[k], HIGH + f) /\ k # 2) => Gives(c[k], HIGH + f) = f
  BY <1>1, BootCalls
<1>5. calls = c BY <1>1
<1> HIDE DEF c
<1>6. CallsFit
  <2>1. VIDEO \in Nat /\ VIDEO < Entries * Entries /\ Entries * Entries \in Nat
    BY VmmAssumption
  <2>2. \A k \in 1 .. Len(c) : c[k] \in Regions BY <1>4
  <2>3. \A k \in 1 .. Len(c) : c[k].left = 0 \/ c[k].virt + c[k].left <= Entries * Entries
    BY <1>4, <2>1, <2>2 DEF Regions
  <2> QED BY <1>1, <1>4, <1>5, <2>3 DEF CallsFit
<1>7. HeapTypes BY <1>1 DEF HeapTypes
<1>8. Window BY <1>1 DEF Window
<1>9. Backed BY <1>1 DEF Backed, HeapPages
<1>10. \A v \in 0 .. IdentityPages - 1 : Kept(v, v)
  <2>1. 1 \in 1 .. Len(c) BY <1>4
  <2> QED BY <1>4, <1>5, <2>1 DEF Kept
<1>11. ASSUME NEW i \in Usable(machine), NEW f \in Span(machine.mmap[i].addr, machine.mmap[i].len)
       PROVE  Kept(HIGH + f, f)
  <2>1. /\ i + 2 \in 1 .. Len(c) /\ i + 2 > 2 /\ Covers(c[i + 2], HIGH + f)
        /\ \A k \in 1 .. Len(c) :
             (Covers(c[k], HIGH + f) /\ k # 2) => Gives(c[k], HIGH + f) = f
    BY <1>4
  <2>2. PICK j \in 1 .. Len(c) : j > 2 /\ Covers(c[j], HIGH + f) /\ Gives(c[j], HIGH + f) = f
    BY <2>1
  <2>3. \A k \in 1 .. Len(c) :
          (Covers(c[k], HIGH + f) /\ Gives(c[k], HIGH + f) # f) => k = 2
    BY <2>1
  <2> QED BY <1>5, <2>2, <2>3 DEF Kept
<1>12. Building BY <1>10, <1>11 DEF Building
<1>13. Drawing BY <1>1 DEF Drawing
<1>14. MappingsKept BY <1>1 DEF MappingsKept, IdentityKept, DirectMapped, ScreenMapped
<1> QED BY <1>2, <1>3, <1>6, <1>7, <1>8, <1>9, <1>12, <1>13, <1>14 DEF Inv
\* Every step keeps Inv.
LEMMA InvInductive == Inv /\ [Next]_vars => Inv'
<1> SUFFICES ASSUME Inv, [Next]_vars PROVE Inv' OBVIOUS
<1>1. CASE map_region BY <1>1, MapRegionKeeps
<1>2. CASE map_region_end BY <1>2, MapRegionEndKeeps
<1>3. CASE enable_paging BY <1>3, EnablePagingKeeps
<1>4. CASE init_heap BY <1>4, InitHeapKeeps
<1>5. CASE vbe_init BY <1>5, VbeInitKeeps
<1>6. CASE expand_alloc BY <1>6, ExpandAllocKeeps
<1>7. CASE expand_map BY <1>7, ExpandMapKeeps
<1>8. CASE expand_done BY <1>8, ExpandDoneKeeps
<1>9. CASE \E n \in 1 .. MaxGrow : kmalloc(n) BY <1>9, KmallocKeeps
<1>10. CASE run_libc_tests BY <1>10, LibcTestsKeeps
<1>11. CASE UNCHANGED vars
  <2>1. /\ UNCHANGED <<machine, used, held, verdict, page_directory, tables, paging, status>>
        /\ UNCHANGED <<pc, calls, heap_start, heap_limit, want, new_page, heap_frames>>
    BY <1>11 DEF vars, pmm_vars, vmm_vars
  <2>2. \A w : Translate(w)' = Translate(w) BY <2>1, SameTables
  <2>3. HeapPages' = HeapPages BY <2>1 DEF HeapPages
  <2>4. PmmInv' BY <2>1 DEF Inv, PmmInv, PmmTypeOK, BitmapExact, TestPasses
  <2>5. (Directory /\ CallsFit /\ HeapTypes /\ Window)'
    BY <2>1 DEF Inv, Directory, CallsFit, HeapTypes, Window
  <2>6. (Backed /\ Building /\ Drawing)'
    BY <2>1, <2>2, <2>3 DEF Inv, Backed, Building, Drawing, Kept
  <2>7. MappingsKept'
    BY <2>1, <2>2, <2>3 DEF Inv, MappingsKept, IdentityKept, DirectMapped, ScreenMapped
  <2> QED BY <2>4, <2>5, <2>6, <2>7 DEF Inv
<1> QED
  BY <1>1, <1>2, <1>3, <1>4, <1>5, <1>6, <1>7, <1>8, <1>9, <1>10, <1>11 DEF Next, Running

\* Inv holds at every moment.
LEMMA InvAlways == Spec => []Inv
BY InvInit, InvInductive, PTL DEF Spec
-----------------------------------------------------------------------------
(* What it is for *)

\* For every machine: the variables of the memory system have their types
\* (vmm.cpp:13-20, heap.cpp:9-12).
THEOREM MemoryTypes == Spec => []TypeOK
<1>1. Inv => TypeOK
  <2> SUFFICES ASSUME Inv PROVE TypeOK OBVIOUS
  <2>1. machine \in Machines /\ used \subseteq Bits(machine) /\ held \subseteq Scanned(machine)
    BY DEF Inv, PmmInv, PmmTypeOK
  <2>2. /\ page_directory \in [0 .. Entries - 1 -> held \cup {NoFrame}]
        /\ \A t \in DOMAIN tables : t \in held /\ tables[t] \in [0 .. Entries - 1 -> Int]
    BY DEF Inv, Directory, Slots
  <2> QED BY <2>1, <2>2 DEF Inv, HeapTypes, TypeOK
<1> QED BY <1>1, InvAlways, PTL

\* For every machine: the directory leads to a table from one entry, and no table is
\* a page of the heap (vmm.cpp:60-78).
THEOREM TablesAlwaysOwned == Spec => []TablesOwned
<1>1. Inv => TablesOwned
  <2> SUFFICES ASSUME Inv, NEW t \in DOMAIN tables
               PROVE  /\ t \in held \ heap_frames
                      /\ \E d \in 0 .. Entries - 1 :
                           /\ page_directory[d] = t
                           /\ \A c \in 0 .. Entries - 1 \ {d} : page_directory[c] # t
    BY DEF TablesOwned
  <2>1. t \in held /\ t \notin heap_frames BY DEF Inv, Directory
  <2>2. t # NoFrame BY <2>1, OwnersAndBits, ScannedFrames DEF Inv, NoFrame
  <2>3. PICK d \in Slots : page_directory[d] = t BY DEF Inv, Directory
  <2>4. \A c \in Slots : c # d => page_directory[c] # t BY <2>2, <2>3 DEF Inv, Directory
  <2> QED BY <2>1, <2>3, <2>4 DEF Slots
<1> QED BY <1>1, InvAlways, PTL

\* For every machine: if there was a frame for the first page, every page of the heap
\* has a frame of its own, which the allocator counts as in use (heap.cpp:73-80).
THEOREM HeapAlwaysBacked == Spec => [](0 \notin heap_frames => HeapBacked)
<1>1. Inv => (0 \notin heap_frames => HeapBacked)
  BY DEF Inv, Backed, HeapTypes, HeapBacked
<1> QED BY <1>1, InvAlways, PTL

\* For every machine: what the kernel needs mapped stays mapped as it was, whatever
\* regions boot maps and however far the heap grows (vmm.cpp:26-47).
THEOREM MappingsAlwaysKept == Spec => []MappingsKept
<1>1. Inv => MappingsKept BY DEF Inv
<1> QED BY <1>1, InvAlways, PTL

\* For every machine: after boot no page table is made and none is missing, so
\* kmalloc never meets the panic of map_page (vmm.cpp:64-67).
THEOREM BootTablesAlwaysSuffice == Spec => BootTablesSuffice
<1>1. Inv /\ [Next]_vars => [(pc \in {"run", "expand_heap", "expand_map"}) =>
                              (/\ (DOMAIN tables)' = DOMAIN tables
                               /\ status' # "panic")]_vars
  <2> SUFFICES ASSUME Inv, Next, pc \in {"run", "expand_heap", "expand_map"}
               PROVE  DOMAIN tables' = DOMAIN tables /\ status' # "panic"
    OBVIOUS
  <2>1. CASE expand_map
    <3>1. PICK l \in Space, p \in Nat : l = heap_limit /\ p = new_page
      BY <2>1, TableThere DEF expand_map
    <3>2. /\ pc = "expand_map" /\ map_page(l, p) /\ p \in Int
          /\ UNCHANGED <<machine, verdict, heap_frames>>
      BY <2>1, <3>1 DEF expand_map
    <3>3. page_directory[l \div Entries] # NoFrame BY <3>1, <3>2, TableThere
    <3> QED BY <3>1, <3>2, <3>3, MapPage DEF Inv, HeapTypes
  <2>2. CASE expand_alloc BY <2>2 DEF expand_alloc, vmm_vars
  <2>3. CASE expand_done BY <2>3 DEF expand_done, vmm_vars
  <2>4. CASE \E n \in 1 .. MaxGrow : kmalloc(n) BY <2>4 DEF kmalloc, vmm_vars
  <2>5. CASE run_libc_tests BY <2>5 DEF run_libc_tests, vmm_vars
  <2> QED
    BY <2>1, <2>2, <2>3, <2>4, <2>5
    DEF Next, Running, map_region, map_region_end, enable_paging, init_heap, vbe_init
<1> QED BY <1>1, InvAlways, PTL DEF Spec, BootTablesSuffice

\* The case the code counts on: tables in the first 4 MB, a frame for the heap.
LowMemory == 0 \notin heap_frames /\ \A t \in DOMAIN tables : t < IdentityPages

\* Then each write to a table or to the heap's first page hits its mark.
LEMMA WritesHit ==
  ASSUME Inv, Next, LowMemory'
  PROVE  status' # "astray"
<1> USE DEF Inv
<1>1. machine \in Machines /\ held \subseteq Scanned(machine) BY OwnersAndBits
<1>2. \A t \in Nat : t < IdentityPages => Reaches(t)
  BY Below DEF MappingsKept, IdentityKept, Reaches
<1>3. ASSUME NEW v \in Space, NEW p, map_page(v, p) PROVE status' # "astray"
  <2>1. CASE map_present(v, p)
    <3> DEFINE t == page_directory[v \div Entries]
    <3>1. t # NoFrame /\ DOMAIN tables' = DOMAIN tables
          /\ status' = IF Reaches(t) THEN "ok" ELSE "astray"
      BY <2>1 DEF map_present
    <3>2. t \in DOMAIN tables BY <3>1, PageSlots DEF Directory
    <3>3. t \in Nat /\ t < IdentityPages
      BY <1>1, <3>1, <3>2, ScannedFrames DEF Directory, LowMemory
    <3> QED BY <1>2, <3>1, <3>3
  <2>2. CASE map_absent(v, p)
    <3> DEFINE t == FirstClear(used)
    <3>1. t # 0 /\ t \in DOMAIN tables' /\ status' = IF Reaches(t) THEN "ok" ELSE "astray"
      BY <2>2 DEF map_absent
    <3>2. t \in Nat BY <1>1, <3>1, FirstClearFacts, ScannedFrames
    <3>3. t < IdentityPages BY <3>1 DEF LowMemory
    <3> QED BY <1>2, <3>1, <3>2, <3>3
  <2>3. CASE map_panic(v) BY <2>3 DEF map_panic
  <2> QED BY <1>3, <2>1, <2>2, <2>3 DEF map_page
<1>4. CASE map_region
  <2> DEFINE r == Head(calls)
  <2>1. calls \in Seq(Regions) /\ calls # <<>> /\ r.left > 0 /\ map_page(r.virt, r.phys)
    BY <1>4 DEF map_region, CallsFit
  <2>2. r = calls[1] /\ r \in Regions /\ 1 \in 1 .. Len(calls) BY <2>1
  <2>3. PICK v \in Space : v = r.virt
    <3>1. r.left = 0 \/ r.virt + r.left <= Entries * Entries BY <2>2 DEF CallsFit
    <3>2. Entries * Entries \in Nat BY VmmAssumption
    <3>3. r.virt \in Space BY <2>1, <2>2, <3>1, <3>2 DEF Regions, Space
    <3> QED BY <3>3
  <2>4. PICK p : p = r.phys OBVIOUS
  <2> QED BY <1>3, <2>1, <2>3, <2>4
<1>5. CASE expand_map
  <2>1. PICK l \in Space, p \in Nat : l = heap_limit /\ p = new_page
    BY <1>5, TableThere DEF expand_map
  <2> QED BY <1>3, <1>5, <2>1 DEF expand_map
<1>6. CASE init_heap
  <2>1. PICK f : f = new_page' OBVIOUS
  <2>2. /\ pc = "init_heap" /\ pmm_alloc_page(f) /\ heap_frames' = {f}
        /\ status' = IF Translate(HIGH + f) = f THEN "ok" ELSE "astray"
    BY <1>6, <2>1 DEF init_heap, pmm_alloc_page
  <2>3. f # 0 /\ f \in Nat /\ f \in Scanned(machine) /\ LowFrames <= f /\ f <= f
    BY <2>2, TakeFrame DEF LowMemory
  <2>4. PICK i \in Usable(machine) : f \in Span(machine.mmap[i].addr, machine.mmap[i].len)
    BY <1>1, <2>3, AllRam
  <2>5. heap_start = 0 /\ heap_limit = 0 /\ paging BY <2>2 DEF HeapTypes
  <2>6. HeapPages = {} BY <2>5 DEF HeapPages
  <2>7. Translate(HIGH + f) = f BY <2>4, <2>5, <2>6 DEF MappingsKept, DirectMapped
  <2> QED BY <2>2, <2>7
<1>7. CASE status' = status /\ status = "ok" BY <1>7
<1> QED
  BY <1>4, <1>5, <1>6, <1>7
  DEF Next, Running, map_region_end, enable_paging, vbe_init, expand_alloc, expand_done,
      kmalloc, run_libc_tests, vmm_vars

\* For every machine that has its page tables below 4 MB and a frame for the heap:
\* no table is ever written at an address that leads elsewhere (vmm.cpp:81).
THEOREM NeverAstrayInLowMemory == Spec => [](LowMemory => NeverAstray)
<1> DEFINE Hits == LowMemory => status # "astray"
<1>1. Init => Hits BY DEF Init
<1>2. Inv /\ Hits /\ [Next]_vars => Hits'
  <2>1. UNCHANGED vars => (Hits => Hits') BY DEF vars, vmm_vars, LowMemory
  <2> QED BY <2>1, WritesHit
<1>3. Inv /\ Hits => (LowMemory => NeverAstray)
  <2> SUFFICES ASSUME Inv, LowMemory, paging, NEW t \in DOMAIN tables
               PROVE  Translate(t) = t
    BY DEF NeverAstray
  <2>1. t \in Nat /\ t < IdentityPages
    BY OwnersAndBits, ScannedFrames DEF Inv, Directory, LowMemory
  <2> QED BY <2>1, Below DEF Inv, MappingsKept, IdentityKept
<1> HIDE DEF Hits
<1> QED BY <1>1, <1>2, <1>3, InvAlways, PTL DEF Spec
-----------------------------------------------------------------------------
(* Enough low memory *)

\* Boot needs a table for each entry of the directory it reaches, and there is room
\* for these entries.
LEMMA TablesFinite ==
  ASSUME NEW m \in Machines
  PROVE  BootTables(m) \subseteq Slots /\ IsFiniteSet(BootTables(m))
<1> DEFINE c == init_vmm_calls(m)
           r == Region(VIDEO, m.framebuffer_addr, m.framebuffer_size)
<1>1. /\ c \in Seq(Regions)
      /\ \A k \in 1 .. Len(c) : c[k].left = 0 \/ c[k].virt + c[k].left <= VIDEO
  BY BootCalls
<1>2. /\ HIGH \in Nat /\ VIDEO \in Nat /\ Entries \in Nat \ {0} /\ VIDEO < Entries * Entries
      /\ Entries * Entries \in Nat
  BY VmmAssumption
<1> HIDE DEF c
<1>3. ASSUME NEW k \in DOMAIN c, NEW v \in Walked(c[k]) PROVE v \in Space
  <2>1. c[k] \in Regions /\ k \in 1 .. Len(c) BY <1>1
  <2>2. c[k].virt \in Nat /\ c[k].left \in Nat BY <2>1 DEF Regions
  <2>3. c[k].left = 0 \/ c[k].virt + c[k].left <= VIDEO BY <1>1, <2>1
  <2> QED BY <1>2, <2>2, <2>3 DEF Walked, Space
<1>4. ASSUME NEW v \in Walked(r) PROVE v \in Space
  <2>1. Pages(m.framebuffer_size) \in Nat BY WindowAssumption, PagesBounds
  <2>2. VIDEO + Pages(m.framebuffer_size) <= Entries * Entries BY WindowAssumption
  <2>3. r.virt = VIDEO /\ r.left = Pages(m.framebuffer_size) BY DEF Region
  <2> QED BY <1>2, <2>1, <2>2, <2>3 DEF Walked, Space
<1>5. BootTables(m) \subseteq Slots
  <2> SUFFICES ASSUME NEW d \in BootTables(m) PROVE d \in Slots OBVIOUS
  <2>1. PICK v \in Walked(r) \cup UNION {Walked(c[k]) : k \in DOMAIN c} : d = v \div Entries
    BY DEF BootTables, c
  <2>2. v \in Walked(r) \/ \E k \in DOMAIN c : v \in Walked(c[k]) BY <2>1
  <2>3. v \in Space BY <1>3, <1>4, <2>2
  <2> QED BY <2>1, <2>3, PageSlots
<1>6. IsFiniteSet(Slots) BY <1>2, FS_Interval DEF Slots
<1> QED BY <1>5, <1>6, FS_Subset

\* The directory holds a table for each entry boot has reached, and has taken no
\* other frame, but for the first of the heap.
Counted ==
    pc \in {"init_vmm", "init_heap", "vbe_init"} =>
      /\ \A d \in Slots : page_directory[d] # NoFrame => d \in BootTables(machine)
      /\ \A k \in 1 .. Len(calls) :
           \A v \in Walked(calls[k]) : v \div Entries \in BootTables(machine)
      /\ pc # "vbe_init" => held \subseteq DOMAIN tables
      /\ pc = "vbe_init" => held \subseteq DOMAIN tables \cup {new_page}

\* With enough low memory boot gets what it needs.
Provided == EnoughLow(machine) => LowMemory /\ status # "panic"

\* As long as fewer tables are made than boot needs, or the heap has no page yet, a
\* frame below 4 MB is free, and it is the next to be handed out.
LEMMA LowFrameFree ==
  ASSUME Inv, EnoughLow(machine), NEW n \in Nat, n \in {0, 1},
         NEW x, held \subseteq DOMAIN tables \cup (IF n = 0 THEN {} ELSE {x}),
         NEW P, P = {d \in Slots : page_directory[d] # NoFrame},
         P \subseteq BootTables(machine),
         n = 1 => P # BootTables(machine)
  PROVE  FirstClear(used) # 0 /\ FirstClear(used) < IdentityPages
<1> DEFINE B == BootTables(machine)
           L == LowFree(machine)
           f == [d \in P |-> page_directory[d]]
<1>1. /\ machine \in Machines /\ used = Boot(machine) \cup held
      /\ held \subseteq Scanned(machine) /\ 0 \notin held
  BY OwnersAndBits DEF Inv, PmmInv, BitmapExact
<1>2. IsFiniteSet(B) /\ Cardinality(B) \in Nat BY <1>1, TablesFinite, FS_CardinalityType
<1>3. IsFiniteSet(P) /\ Cardinality(P) \in Nat /\ Cardinality(P) + n <= Cardinality(B)
  <2>1. P \in SUBSET B OBVIOUS
  <2>2. IsFiniteSet(P) /\ Cardinality(P) <= Cardinality(B)
        /\ (Cardinality(B) = Cardinality(P) => B = P)
    BY <1>2, <2>1, FS_Subset
  <2>3. Cardinality(P) \in Nat BY <2>2, FS_CardinalityType
  <2> QED BY <1>2, <2>2, <2>3
<1>4. f \in Surjection(P, DOMAIN tables)
  <2>1. \A d \in P : page_directory[d] \in DOMAIN tables BY DEF Inv, Directory
  <2>2. \A t \in DOMAIN tables : \E d \in P : page_directory[d] = t
    <3> SUFFICES ASSUME NEW t \in DOMAIN tables PROVE \E d \in P : page_directory[d] = t
      OBVIOUS
    <3>1. PICK d \in Slots : page_directory[d] = t BY DEF Inv, Directory
    <3>2. t # NoFrame BY <1>1, ScannedFrames DEF Inv, Directory, NoFrame
    <3> QED BY <3>1, <3>2
  <2> QED BY <2>1, <2>2 DEF Surjection
<1>5. /\ IsFiniteSet(DOMAIN tables) /\ Cardinality(DOMAIN tables) <= Cardinality(P)
      /\ Cardinality(DOMAIN tables) \in Nat
  BY <1>3, <1>4, FS_Surjection, FS_CardinalityType
<1> DEFINE H == DOMAIN tables \cup (IF n = 0 THEN {} ELSE {x})
<1>6. IsFiniteSet(H) /\ Cardinality(H) \in Nat /\ Cardinality(H) <= Cardinality(B)
  <2>1. CASE n = 0
    <3>1. H = DOMAIN tables BY <2>1
    <3> QED BY <1>2, <1>3, <1>5, <2>1, <3>1
  <2>2. CASE n = 1
    <3>1. H = DOMAIN tables \cup {x} BY <2>2
    <3>2. /\ IsFiniteSet(DOMAIN tables \cup {x})
          /\ Cardinality(DOMAIN tables \cup {x}) =
               IF x \in DOMAIN tables THEN Cardinality(DOMAIN tables)
               ELSE Cardinality(DOMAIN tables) + 1
      BY <1>5, FS_AddElement
    <3> QED BY <1>2, <1>3, <1>5, <2>2, <3>1, <3>2
  <2> QED BY <2>1, <2>2
<1>7. PICK g \in L : g \notin held
  <2> SUFFICES ASSUME L \subseteq held PROVE FALSE OBVIOUS
  <2>1. L \in SUBSET H OBVIOUS
  <2> HIDE DEF L, H
  <2>2. IsFiniteSet(L) /\ Cardinality(L) <= Cardinality(H) BY <1>6, <2>1, FS_Subset
  <2>3. Cardinality(L) \in Nat BY <2>2, FS_CardinalityType
  <2>4. Cardinality(B) < Cardinality(L) BY DEF EnoughLow, L
  <2> QED BY <1>2, <1>6, <2>2, <2>3, <2>4
<1>8. g \in Scanned(machine) \ used /\ g < IdentityPages /\ g \in Nat
  BY <1>1, <1>7, ScannedFrames DEF LowFree
<1>9. 0 \notin Scanned(machine) \ used
  BY <1>1, ZeroIsTaken, ScannedFrames
<1>10. FirstClear(used) \in Scanned(machine) \ used /\ FirstClear(used) <= g
  BY <1>1, <1>8, FirstClearFacts
<1>11. FirstClear(used) \in Nat /\ FirstClear(used) # 0 BY <1>1, <1>9, <1>10, ScannedFrames
<1> QED BY <1>8, <1>10, <1>11, Below

\* Each page that boot maps costs at most the table of its entry.
LEMMA MapCounts ==
  ASSUME Inv, Counted, Provided, pc \in {"init_vmm", "vbe_init"},
         NEW v \in Space, NEW p \in Int, map_page(v, p),
         v \div Entries \in BootTables(machine),
         UNCHANGED <<machine, heap_frames>>
  PROVE  /\ \A d \in Slots : page_directory'[d] # NoFrame => d \in BootTables(machine)
         /\ pc # "vbe_init" => held' \subseteq DOMAIN tables'
         /\ pc = "vbe_init" => held' \subseteq DOMAIN tables' \cup {new_page}
         /\ Provided'
<1> DEFINE d == v \div Entries
           t == FirstClear(used)
           P == {c \in Slots : page_directory[c] # NoFrame}
<1>1. d \in Slots /\ v % Entries \in Slots BY PageSlots
<1>2. /\ \A c \in Slots : page_directory[c] # NoFrame => c \in BootTables(machine)
      /\ pc # "vbe_init" => held \subseteq DOMAIN tables
      /\ pc = "vbe_init" => held \subseteq DOMAIN tables \cup {new_page}
  BY DEF Counted
<1>3. ASSUME page_directory[d] = NoFrame, EnoughLow(machine)
      PROVE  t # 0 /\ t < IdentityPages
  <2>1. P \subseteq BootTables(machine) /\ P # BootTables(machine)
        /\ P = {c \in Slots : page_directory[c] # NoFrame}
    BY <1>1, <1>2, <1>3
  <2>2. PICK n : n = 1 OBVIOUS
  <2>3. n \in Nat /\ n \in {0, 1} BY <2>2
  <2>4. held \subseteq DOMAIN tables \cup (IF n = 0 THEN {} ELSE {new_page})
    BY <1>2, <2>2
  <2> HIDE DEF P
  <2> QED BY <1>3, <2>1, <2>3, <2>4, LowFrameFree
<1>4. EnoughLow(machine)' = EnoughLow(machine)
  BY DEF EnoughLow, BootTables, LowFree, Scanned, max_frames, multiboot_get_total_memory,
         Boot, Bits, FreedAtBoot, Reserved, bitmap, bitmap_size, bitmap_words, Usable, Span,
         init_vmm_calls
<1>5. CASE map_present(v, p)
  <2>1. /\ page_directory' = page_directory /\ held' = held
        /\ status' \in {"ok", "astray"}
    BY <1>5 DEF map_present
  <2>2. DOMAIN tables' = DOMAIN tables BY <1>5 DEF map_present
  <2> QED BY <1>2, <1>4, <2>1, <2>2 DEF Provided, LowMemory
<1>6. CASE map_absent(v, p)
  <2>1. /\ page_directory[d] = NoFrame /\ t # 0 /\ held' = Mark(held, t)
        /\ page_directory' = [page_directory EXCEPT ![d] = t]
        /\ DOMAIN tables' = DOMAIN tables \cup {t}
        /\ status' \in {"ok", "astray"}
    BY <1>6 DEF map_absent
  <2> HIDE DEF t
  <2>2. held' = held \cup {t} BY <2>1 DEF Mark
  <2>3. \A c \in Slots : c # d => page_directory'[c] = page_directory[c]
    BY <1>1, <2>1 DEF Inv, Directory
  <2>4. \A c \in Slots : page_directory'[c] # NoFrame => c \in BootTables(machine)
    BY <1>2, <2>3
  <2>5. Provided' BY <1>3, <1>4, <2>1 DEF Provided, LowMemory
  <2> QED BY <1>2, <2>1, <2>2, <2>4, <2>5
<1>7. CASE map_panic(v)
  <2>1. /\ page_directory[d] = NoFrame /\ t = 0
        /\ UNCHANGED <<page_directory, tables, held>>
    BY <1>7 DEF map_panic
  <2>2. ~EnoughLow(machine) BY <1>3, <2>1
  <2> QED BY <1>2, <1>4, <2>1, <2>2 DEF Provided
<1> QED BY <1>5, <1>6, <1>7 DEF map_page

\* A turn of map_region's loop.
LEMMA MapRegionCounts ==
  ASSUME Inv, Counted, Provided, map_region PROVE Counted' /\ Provided'
<1> DEFINE r == Head(calls)
<1>1. /\ pc \in {"init_vmm", "vbe_init"} /\ calls # <<>> /\ r.left > 0
      /\ map_page(r.virt, r.phys) /\ calls' = [calls EXCEPT ![1] = RegionRest(r)]
      /\ UNCHANGED <<machine, pc, new_page, heap_frames>>
  BY DEF map_region, heap_vars
<1>2. calls \in Seq(Regions) /\ r = calls[1] /\ r \in Regions /\ 1 \in 1 .. Len(calls)
  BY <1>1 DEF Inv, CallsFit
<1>3. r.virt \in Space /\ r.phys \in Int /\ r.virt \in Nat /\ r.left \in Nat
  <2>1. Entries * Entries \in Nat BY VmmAssumption
  <2>2. r.left = 0 \/ r.virt + r.left <= Entries * Entries BY <1>2 DEF Inv, CallsFit
  <2> QED BY <1>1, <1>2, <2>1, <2>2 DEF Regions, Space
<1>4. PICK v \in Space, p \in Int : v = r.virt /\ p = r.phys BY <1>3
<1>5. v \div Entries \in BootTables(machine)
  <2>1. v \in Walked(calls[1]) BY <1>1, <1>2, <1>3, <1>4 DEF Walked
  <2> QED BY <1>1, <1>2, <2>1 DEF Counted
<1>6. map_page(v, p) BY <1>1, <1>4
<1>7. /\ \A d \in Slots : page_directory'[d] # NoFrame => d \in BootTables(machine)
      /\ pc # "vbe_init" => held' \subseteq DOMAIN tables'
      /\ pc = "vbe_init" => held' \subseteq DOMAIN tables' \cup {new_page}
      /\ Provided'
  BY <1>1, <1>5, <1>6, MapCounts
<1>8. \A k \in 1 .. Len(calls') : \A w \in Walked(calls'[k]) :
        w \div Entries \in BootTables(machine)
  <2>1. /\ Len(calls') = Len(calls) /\ calls'[1] = RegionRest(r)
        /\ \A k \in 1 .. Len(calls) : k # 1 => calls'[k] = calls[k]
    BY <1>1, <1>2
  <2>2. Walked(RegionRest(r)) \subseteq Walked(r) BY <1>3 DEF RegionRest, Walked
  <2> QED BY <1>1, <1>2, <2>1, <2>2 DEF Counted
<1>9. BootTables(machine)' = BootTables(machine) BY <1>1
<1> QED BY <1>1, <1>7, <1>8, <1>9 DEF Counted

\* The heap's first frame.
LEMMA InitHeapCounts ==
  ASSUME Inv, Counted, Provided, init_heap PROVE Counted' /\ Provided'
<1>1. PICK f : f = new_page' OBVIOUS
<1>2. /\ status = "ok" /\ pc = "init_heap" /\ pmm_alloc_page(f)
      /\ heap_frames' = {f} /\ status' \in {"ok", "astray"} /\ pc' = "vbe_init"
      /\ calls' = <<Region(VIDEO, machine.framebuffer_addr, machine.framebuffer_size)>>
      /\ UNCHANGED <<page_directory, tables, machine>>
  BY <1>1 DEF init_heap, pmm_alloc_page
<1>3. f = FirstClear(used) /\ held' = Mark(held, f) BY <1>2 DEF pmm_alloc_page
<1>4. /\ \A c \in Slots : page_directory[c] # NoFrame => c \in BootTables(machine)
      /\ held \subseteq DOMAIN tables
  BY <1>2 DEF Counted
<1>5. EnoughLow(machine) => f # 0
  <2> SUFFICES ASSUME EnoughLow(machine) PROVE f # 0 OBVIOUS
  <2>1. PICK n : n = 0 OBVIOUS
  <2>2. PICK P : P = {c \in Slots : page_directory[c] # NoFrame} OBVIOUS
  <2>3. n \in Nat /\ n \in {0, 1} /\ (n = 1 => P # BootTables(machine)) BY <2>1
  <2>4. held \subseteq DOMAIN tables \cup (IF n = 0 THEN {} ELSE {f}) BY <1>4, <2>1
  <2>5. P \subseteq BootTables(machine) BY <1>4, <2>2
  <2> QED BY <1>3, <2>2, <2>3, <2>4, <2>5, LowFrameFree
<1>6. Provided'
  <2>1. EnoughLow(machine)' = EnoughLow(machine) BY <1>2
  <2> QED BY <1>2, <1>5, <2>1 DEF Provided, LowMemory
<1>7. \A k \in 1 .. Len(calls') : \A w \in Walked(calls'[k]) :
        w \div Entries \in BootTables(machine)
  <2> DEFINE r == Region(VIDEO, machine.framebuffer_addr, machine.framebuffer_size)
  <2>1. \A w \in Walked(r) : w \div Entries \in BootTables(machine) BY DEF BootTables
  <2> HIDE DEF r
  <2>2. \A k \in 1 .. Len(<<r>>) : <<r>>[k] = r OBVIOUS
  <2>3. calls' = <<r>> BY <1>2 DEF r
  <2> QED BY <2>1, <2>2, <2>3
<1>8. held' \subseteq DOMAIN tables' \cup {new_page'} BY <1>1, <1>2, <1>3, <1>4 DEF Mark
<1>9. BootTables(machine)' = BootTables(machine) BY <1>2
<1> QED BY <1>2, <1>4, <1>6, <1>7, <1>8, <1>9 DEF Counted

\* Every step keeps the count, and with it what it is for.
LEMMA CountInductive ==
  Inv /\ Counted /\ Provided /\ [Next]_vars => Counted' /\ Provided'
<1> SUFFICES ASSUME Inv, Counted, Provided, [Next]_vars PROVE Counted' /\ Provided'
  OBVIOUS
<1>1. CASE map_region BY <1>1, MapRegionCounts
<1>2. CASE init_heap BY <1>2, InitHeapCounts
<1>3. CASE map_region_end
  <2>1. /\ calls # <<>> /\ calls' = Tail(calls)
        /\ UNCHANGED <<machine, held, page_directory, tables, status, pc, new_page, heap_frames>>
    BY <1>3 DEF map_region_end, pmm_vars, vmm_vars, heap_vars
  <2>2. calls \in Seq(Regions) BY DEF Inv, CallsFit
  <2>3. \A k \in 1 .. Len(calls') : calls'[k] = calls[k + 1] /\ k + 1 \in 1 .. Len(calls)
    BY <2>1, <2>2
  <2> QED BY <2>1, <2>3 DEF Counted, Provided, LowMemory
<1>4. CASE enable_paging
  <2>1. /\ calls = <<>> /\ pc = "init_vmm" /\ pc' = "init_heap"
        /\ UNCHANGED <<machine, held, page_directory, tables, status, calls, heap_frames>>
    BY <1>4 DEF enable_paging, pmm_vars, heap_vars
  <2> QED BY <2>1 DEF Counted, Provided, LowMemory
<1>5. CASE vbe_init \/ expand_alloc \/ expand_done \/ (\E n \in 1 .. MaxGrow : kmalloc(n))
           \/ run_libc_tests
  <2>1. /\ pc' \in {"run", "expand_heap", "expand_map"}
        /\ UNCHANGED <<machine, tables, status>>
        /\ 0 \in heap_frames' => 0 \in heap_frames
    BY <1>5 DEF vbe_init, expand_alloc, expand_done, kmalloc, run_libc_tests, pmm_vars,
                vmm_vars, heap_vars, pmm_alloc_page, test_memory
  <2> QED BY <2>1 DEF Counted, Provided, LowMemory
<1>6. CASE expand_map
  <2>1. PICK l \in Space, p \in Nat : l = heap_limit /\ p = new_page
    BY <1>6, TableThere DEF expand_map
  <2>2. /\ pc = "expand_map" /\ map_page(l, p) /\ p \in Int /\ pc' = "expand_heap"
        /\ UNCHANGED <<machine, verdict, heap_frames>>
    BY <1>6, <2>1 DEF expand_map
  <2>3. page_directory[l \div Entries] # NoFrame BY <2>1, <2>2, TableThere
  <2>4. DOMAIN tables' = DOMAIN tables /\ status' # "panic"
    BY <2>1, <2>2, <2>3, MapPage DEF Inv, HeapTypes
  <2> QED BY <2>2, <2>4 DEF Counted, Provided, LowMemory
<1>7. CASE UNCHANGED vars
  BY <1>7 DEF vars, pmm_vars, vmm_vars, heap_vars, Counted, Provided, LowMemory
<1> QED BY <1>1, <1>2, <1>3, <1>4, <1>5, <1>6, <1>7 DEF Next, Running

LEMMA CountInit == Init => Counted /\ Provided
<1> SUFFICES ASSUME Init PROVE Counted /\ Provided OBVIOUS
<1>1. /\ page_directory = [d \in Slots |-> NoFrame] /\ held = {} /\ heap_frames = {}
      /\ DOMAIN tables = {} /\ status = "ok" /\ pc = "init_vmm"
      /\ calls = init_vmm_calls(machine) /\ machine \in Machines
  BY DEF Init, init_pmm, Slots
<1>2. \A k \in 1 .. Len(calls) : \A w \in Walked(calls[k]) :
        w \div Entries \in BootTables(machine)
  <2>1. PICK c : c = init_vmm_calls(machine) OBVIOUS
  <2>2. DOMAIN c = 1 .. Len(c) BY <1>1, <2>1, CallsListed
  <2>3. \A k \in DOMAIN c : \A w \in Walked(c[k]) : w \div Entries \in BootTables(machine)
    BY <2>1 DEF BootTables
  <2> QED BY <1>1, <2>1, <2>2, <2>3
<1> QED BY <1>1, <1>2 DEF Counted, Provided, LowMemory

\* For every machine with more free frames below 4 MB than boot needs page tables: the
\* kernel never panics for want of a table, never writes a table at an address that
\* leads elsewhere, and gives each page of the heap a frame of its own
\* (vmm.cpp:64-87, heap.cpp:20-27 and 73-80).
THEOREM EnoughLowMemory ==
  Spec => [](EnoughLow(machine) => NeverAstray /\ HeapBacked /\ status = "ok")
<1>1. Spec => [](Counted /\ Provided)
  BY CountInit, CountInductive, InvAlways, PTL DEF Spec
<1>2. /\ Inv /\ Provided /\ (LowMemory => NeverAstray) /\ (0 \notin heap_frames => HeapBacked)
      => (EnoughLow(machine) => NeverAstray /\ HeapBacked /\ status = "ok")
  BY DEF Provided, LowMemory, NeverAstray, Inv, HeapTypes
<1> QED BY <1>1, <1>2, InvAlways, NeverAstrayInLowMemory, HeapAlwaysBacked, PTL
-----------------------------------------------------------------------------
(* The frame allocator inside the kernel *)

\* For every machine: boot, the heap's growth and the test command use the frame
\* allocator only through its operations, so the kernel implements the allocator's own
\* specification (pmm.cpp:48-69).
THEOREM KernelImplementsPmm == Spec => PmmSpec
<1>1. Init => init_pmm BY DEF Init
<1>2. Inv /\ [Next]_vars => [PmmNext]_pmm_vars
  <2> SUFFICES ASSUME Inv, [Next]_vars PROVE [PmmNext]_pmm_vars OBVIOUS
  <2>0. machine \in Machines BY OwnersAndBits DEF Inv
  <2>1. ASSUME NEW f, pmm_alloc_page(f) PROVE [PmmNext]_pmm_vars
    <3>1. f = FirstClear(used) BY <2>1 DEF pmm_alloc_page
    <3>2. CASE f \in Scanned(machine) BY <2>1, <3>2 DEF PmmNext
    <3>3. CASE f \notin Scanned(machine)
      <4>1. f = 0 BY <2>0, <3>1, <3>3, FirstClearFacts
      <4> QED BY <2>1, <4>1 DEF pmm_alloc_page, Mark, pmm_vars
    <3> QED BY <3>2, <3>3
  <2>2. ASSUME NEW v, NEW p, map_page(v, p), machine' = machine, verdict' = verdict
        PROVE  [PmmNext]_pmm_vars
    <3>1. CASE map_absent(v, p)
      <4>1. pmm_alloc_page(FirstClear(used))
        BY <2>2, <3>1 DEF map_absent, pmm_alloc_page
      <4> QED BY <2>1, <4>1
    <3>2. CASE map_present(v, p) \/ map_panic(v)
      BY <2>2, <3>2 DEF map_present, map_panic, pmm_vars
    <3> QED BY <2>2, <3>1, <3>2 DEF map_page
  <2>3. CASE map_region BY <2>2, <2>3 DEF map_region
  <2>4. CASE expand_map BY <2>2, <2>4 DEF expand_map
  <2>5. CASE init_heap BY <2>1, <2>5 DEF init_heap
  <2>6. CASE expand_alloc BY <2>1, <2>6 DEF expand_alloc
  <2>7. CASE run_libc_tests BY <2>7 DEF run_libc_tests, PmmNext
  <2>8. CASE UNCHANGED pmm_vars BY <2>8
  <2> QED
    BY <2>3, <2>4, <2>5, <2>6, <2>7, <2>8
    DEF Next, Running, map_region_end, enable_paging, vbe_init, expand_done, kmalloc, vars
<1> QED BY <1>1, <1>2, InvAlways, PTL DEF Spec, PmmSpec

\* What the allocator promises thus holds of the running kernel: page tables, heap pages
\* and the test's frames are RAM, and none lies on the first MB, the kernel, the memory
\* map or the bitmap (pmm.cpp:42-45 and 71-77).
THEOREM KernelFramesAreFree == Spec => [](HeldIsFree /\ HeldIsRam /\ BitmapExact /\ TestPasses)
BY KernelImplementsPmm, HeldFramesAreFree, HeldFramesAreRam, BitmapAlwaysExact,
   TestAlwaysPasses, PTL
=============================================================================
