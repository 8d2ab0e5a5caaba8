---------------------------- MODULE KernelMemory ----------------------------
(***************************************************************************)
(* The memory of the running kernel: frame allocator, paging and the pages *)
(* of the heap together, from kernel_main's init_pmm on.  Boot maps the    *)
(* regions of init_vmm, turns paging on, takes the first heap page, maps   *)
(* the frame buffer and grows the heap for its copy; after that kmalloc    *)
(* grows the heap page by page (the loop of expand_heap) and the test      *)
(* command takes frames.  map_region's loop is one action per page.        *)
(***************************************************************************)
EXTENDS Vmm, FiniteSets

CONSTANTS HeaderSize,  \* sizeof(heap_block_t)
          MaxGrow      \* pages one kmalloc asks for, a bound of the model

\* What boot maps ends below VIDEO, or behind it within the address space; usable
\* regions begin at a page, since map_region rounds only their size.
ASSUME WindowAssumption ==
    /\ LowFrames <= IdentityPages /\ HeaderSize \in Nat /\ MaxGrow \in Nat
    /\ \A m \in Machines :
         /\ \A i \in Usable(m) : /\ m.mmap[i].addr % PAGE_SIZE = 0
                                 /\ HIGH + Pages(m.mmap[i].addr + m.mmap[i].len) <= VIDEO
         /\ HIGH + Pages(m.kernel_end - m.kernel_start) <= VIDEO
         /\ m.framebuffer_addr \in Nat /\ m.framebuffer_size \in Nat \ {0}
         /\ VIDEO + Pages(m.framebuffer_size) <= Entries * Entries

VARIABLES pc, calls,             \* map_region calls still to be made
          heap_start, heap_limit, \* pages of the heap: heap_start .. heap_limit-1
          want, new_page,         \* expand_heap: pages still needed, frame in hand
          heap_frames             \* frames init_heap and expand_heap took

vars == <<pmm_vars, vmm_vars, pc, calls, heap_start, heap_limit, want, new_page,
          heap_frames>>

heap_vars == <<heap_start, heap_limit, want, new_page, heap_frames>>

VGA == (184 * LowFrames) \div 256    \* page of 0xB8000

\* The map_region calls of init_vmm, regions in the order of the memory map; one
\* that is not usable counts as a region of no pages.
init_vmm_calls(m) ==
    <<Region(0, 0, IdentityPages * PAGE_SIZE),
      Region(HIGH, m.kernel_start, m.kernel_end - m.kernel_start)>>
    \o [i \in 1 .. Len(m.mmap) |->
          Region(HIGH + m.mmap[i].addr \div PAGE_SIZE, m.mmap[i].addr,
                 IF i \in Usable(m) THEN m.mmap[i].len ELSE 0)]
    \o <<Region(VGA, VGA * PAGE_SIZE, PAGE_SIZE)>>

PagesFor(bytes) == Pages(bytes + HeaderSize)

Init ==
    /\ init_pmm
    /\ page_directory = [d \in 0 .. Entries - 1 |-> NoFrame]
    /\ tables = [f \in {} |-> Zeroed]
    /\ paging = FALSE /\ status = "ok"
    /\ pc = "init_vmm" /\ calls = init_vmm_calls(machine)
    /\ heap_start = 0 /\ heap_limit = 0 /\ want = 0 /\ new_page = 0
    /\ heap_frames = {}

\* One turn of map_region's loop.
map_region ==
    /\ status = "ok" /\ pc \in {"init_vmm", "vbe_init"} /\ calls # <<>>
    /\ LET r == Head(calls) IN
         /\ r.left > 0
         /\ map_page(r.virt, r.phys)
         /\ calls' = [calls EXCEPT ![1] = RegionRest(r)]
    /\ UNCHANGED <<machine, verdict, pc, heap_vars>>

map_region_end ==
    /\ status = "ok" /\ pc \in {"init_vmm", "vbe_init"} /\ calls # <<>>
    /\ Head(calls).left = 0
    /\ calls' = Tail(calls)
    /\ UNCHANGED <<pmm_vars, vmm_vars, pc, heap_vars>>

enable_paging ==
    /\ status = "ok" /\ pc = "init_vmm" /\ calls = <<>>
    /\ paging' = TRUE
    /\ pc' = "init_heap"
    /\ UNCHANGED <<pmm_vars, page_directory, tables, status, calls, heap_vars>>

\* Variant: the frame's physical address is taken for the heap's.
init_heap_physical ==
    /\ status = "ok" /\ pc = "init_heap"
    /\ new_page' = FirstClear(used)
    /\ pmm_alloc_page(new_page')
    /\ heap_start' = new_page'
    /\ heap_limit' = heap_start' + 1
    /\ heap_frames' = {new_page'}
    /\ status' = IF Translate(new_page') = new_page' THEN "ok" ELSE "astray"
    /\ pc' = "vbe_init"
    /\ calls' = <<Region(VIDEO, machine.framebuffer_addr, machine.framebuffer_size)>>
    /\ UNCHANGED <<page_directory, tables, paging, want>>
\* init_heap writes the first header through PA_VA of its frame.
init_heap ==
    /\ status = "ok" /\ pc = "init_heap"
    /\ new_page' = FirstClear(used)
    /\ pmm_alloc_page(new_page')
    /\ heap_start' = HIGH + new_page'
    /\ heap_limit' = heap_start' + 1
    /\ heap_frames' = {new_page'}
    /\ status' = IF Translate(HIGH + new_page') = new_page' THEN "ok" ELSE "astray"
    /\ pc' = "vbe_init"
    /\ calls' = <<Region(VIDEO, machine.framebuffer_addr, machine.framebuffer_size)>>
    /\ UNCHANGED <<page_directory, tables, paging, want>>

\* vbe_init goes on to kmalloc the copy of the frame buffer.
vbe_init ==
    /\ status = "ok" /\ pc = "vbe_init" /\ calls = <<>>
    /\ pc' = "expand_heap"
    /\ want' = PagesFor(machine.framebuffer_size)
    /\ UNCHANGED <<pmm_vars, vmm_vars, calls, heap_start, heap_limit, new_page,
                   heap_frames>>

\* A kmalloc that no free block can serve.
kmalloc(n) ==
    /\ status = "ok" /\ pc = "run"
    /\ pc' = "expand_heap"
    /\ want' = n
    /\ UNCHANGED <<pmm_vars, vmm_vars, calls, heap_start, heap_limit, new_page,
                   heap_frames>>

\* Variant: a failed allocation is tried again.
expand_alloc_retry ==
    /\ status = "ok" /\ pc = "expand_heap" /\ want > 0
    /\ new_page' = FirstClear(used)
    /\ pmm_alloc_page(new_page')
    /\ pc' = IF new_page' = 0 THEN pc ELSE "expand_map"
    /\ heap_frames' = heap_frames \cup ({new_page'} \ {0})
    /\ want' = want
    /\ UNCHANGED <<vmm_vars, calls, heap_start, heap_limit>>
expand_alloc ==
    /\ status = "ok" /\ pc = "expand_heap" /\ want > 0
    /\ new_page' = FirstClear(used)
    /\ pmm_alloc_page(new_page')
    /\ pc' = IF new_page' = 0 THEN "run" ELSE "expand_map"
    /\ heap_frames' = heap_frames \cup ({new_page'} \ {0})
    /\ want' = IF new_page' = 0 THEN 0 ELSE want
    /\ UNCHANGED <<vmm_vars, calls, heap_start, heap_limit>>

\* Variant: the page behind the limit is mapped.
expand_map_behind ==
    /\ status = "ok" /\ pc = "expand_map"
    /\ map_page(heap_limit + 1, new_page)
    /\ heap_limit' = heap_limit + 1
    /\ want' = want - 1
    /\ pc' = "expand_heap"
    /\ UNCHANGED <<machine, verdict, calls, heap_start, new_page, heap_frames>>
expand_map ==
    /\ status = "ok" /\ pc = "expand_map"
    /\ map_page(heap_limit, new_page)
    /\ heap_limit' = heap_limit + 1
    /\ want' = want - 1
    /\ pc' = "expand_heap"
    /\ UNCHANGED <<machine, verdict, calls, heap_start, new_page, heap_frames>>

expand_done ==
    /\ status = "ok" /\ pc = "expand_heap" /\ want = 0
    /\ pc' = "run"
    /\ UNCHANGED <<pmm_vars, vmm_vars, calls, heap_vars>>

run_libc_tests ==
    /\ status = "ok" /\ pc = "run"
    /\ test_memory
    /\ UNCHANGED <<vmm_vars, pc, calls, heap_vars>>

Running == \/ map_region \/ map_region_end \/ enable_paging \/ init_heap \/ vbe_init
           \/ expand_alloc \/ expand_map \/ expand_done

Next == \/ Running
        \/ \E n \in 1 .. MaxGrow : kmalloc(n)
        \/ run_libc_tests

\* One thread: what has been started goes on.
Spec == Init /\ [][Next]_vars /\ WF_vars(Running)
-----------------------------------------------------------------------------
(* Properties *)

HeapPages == heap_start .. heap_limit - 1

TypeOK ==
    /\ machine \in Machines /\ used \subseteq Bits(machine)
    /\ held \subseteq Scanned(machine)
    /\ page_directory \in [0 .. Entries - 1 -> held \cup {NoFrame}]
    /\ DOMAIN tables \subseteq held
    /\ \A t \in DOMAIN tables :
         tables[t] \in [0 .. Entries - 1 -> Int]
    /\ status \in {"ok", "panic", "astray"}
    /\ pc \in {"init_vmm", "init_heap", "vbe_init", "run", "expand_heap", "expand_map"}

\* The directory leads to each table from exactly one entry, and a frame
\* that is a table is in use and is not a page of the heap.
TablesOwned ==
    /\ \A t \in DOMAIN tables : t \in held \ heap_frames
    /\ \A t \in DOMAIN tables :
         \E d \in 0 .. Entries - 1 :
           /\ page_directory[d] = t
           /\ \A c \in 0 .. Entries - 1 \ {d} : page_directory[c] # t

\* Every page of the heap is backed by a frame of its own, one the allocator
\* counts as in use, so heap blocks never share memory with a page table,
\* a test frame or each other (heap.cpp:73-80 and vmm.cpp:54-87).
HeapBacked ==
    /\ heap_frames \subseteq held
    /\ \A v \in HeapPages : Translate(v) \in heap_frames
    /\ \A v, w \in HeapPages : Translate(v) = Translate(w) => v = w

\* With paging on, a page table is always written where it lies: the code's
\* use of physical addresses is sound because every table is below 4 MB
\* (vmm.cpp:81 and 152).
NeverAstray ==
    /\ status # "astray"
    /\ paging => \A t \in DOMAIN tables : Translate(t) = t

\* NeverAstray and HeapBacked need memory to build on: more free frames in the
\* first 4 MB than boot needs page tables, one of them for the heap's first page.
Walked(r) == r.virt .. r.virt + r.left - 1
BootTables(m) ==
    {v \div Entries :
       v \in Walked(Region(VIDEO, m.framebuffer_addr, m.framebuffer_size))
            \cup UNION {Walked(init_vmm_calls(m)[k]) : k \in DOMAIN init_vmm_calls(m)}}
LowFree(m) == {f \in Scanned(m) \ Boot(m) : f < IdentityPages}
EnoughLow(m) == Cardinality(BootTables(m)) < Cardinality(LowFree(m))

\* The first 4 MB, the kernel among them, stay mapped to themselves whatever is
\* mapped later (vmm.cpp:26-27).
IdentityKept == paging => \A v \in 0 .. IdentityPages - 1 : Translate(v) = v

\* PA_VA and VA_PA hold for all RAM but the window of addresses the heap has
\* grown over (vmm.h:11-12).
DirectMapped ==
    paging =>
      \A i \in Usable(machine) :
        \A f \in Span(machine.mmap[i].addr, machine.mmap[i].len) :
          HIGH + f \in HeapPages \/ Translate(HIGH + f) = f

\* The frame buffer's pages are never taken over by the heap.
ScreenMapped ==
    LET first == machine.framebuffer_addr \div PAGE_SIZE
    IN  pc \in {"run", "expand_heap", "expand_map"} =>
          \A k \in 0 .. (machine.framebuffer_size - 1) \div PAGE_SIZE :
            Translate(VIDEO + k) = first + k

\* No later mapping takes over what the kernel needs to stay mapped: overlapping
\* calls of map_region and the growing heap redirect none of the identity map,
\* the RAM window outside of the heap, and the frame buffer (vmm.cpp:26-47).
MappingsKept == IdentityKept /\ DirectMapped /\ ScreenMapped

\* After boot no page table is ever allocated: the heap grows only over
\* addresses that init_vmm has given tables, so kmalloc cannot panic.
BootTablesSuffice ==
    [][(pc \in {"run", "expand_heap", "expand_map"}) =>
         (/\ (DOMAIN tables)' = DOMAIN tables
          /\ status' # "panic") ]_vars

\* Boot ends, and so does every growth of the heap, unless the kernel panics.
GrowthEnds == pc # "run" ~> pc = "run" \/ status = "panic"
=============================================================================
