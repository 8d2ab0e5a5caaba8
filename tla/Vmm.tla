--------------------------------- MODULE Vmm ---------------------------------
(***************************************************************************)
(* The paging code, kernel/mem/vmm.cpp, over the frame allocator.          *)
(*                                                                         *)
(* Virtual pages and frames are numbers.  The page directory gives for     *)
(* each entry the frame of its table, NoFrame if it is not present, and    *)
(* tables gives the contents of the frames that are page tables.  The code *)
(* writes a table through its physical address: once paging is on, such a  *)
(* write reaches the table only if that address is mapped to itself.       *)
(***************************************************************************)
EXTENDS Pmm

CONSTANTS Entries,      \* 1024, of the directory and of each table
          HIGH,         \* page of HIGH_MEMORY_BASE, 0xC0000000
          VIDEO,        \* page of VIDEO_VRT_ADDR, 0xE0000000
          IdentityPages \* 1024: the first 4 MB are mapped to themselves

ASSUME VmmAssumption ==
    /\ Entries \in Nat \ {0} /\ IdentityPages \in Nat \ {0}
    /\ HIGH \in Nat /\ VIDEO \in Nat
    /\ IdentityPages <= HIGH /\ HIGH < VIDEO /\ VIDEO < Entries * Entries

VARIABLES page_directory, tables,
          paging,    \* the paging bit of CR0
          status     \* "ok", "panic", or "astray" once a write missed its table

vmm_vars == <<page_directory, tables, paging, status>>

NoFrame == -1

\* What the processor, and get_physical_address, find for page v.
Translate(v) ==
    LET t == page_directory[v \div Entries]
    IN  IF t = NoFrame THEN NoFrame ELSE tables[t][v % Entries]

Reaches(f) == ~paging \/ Translate(f) = f

\* A zeroed table in frame t.
Zeroed == [e \in 0 .. Entries - 1 |-> NoFrame]

\* map_page: an entry of a table that is there.
map_present(v, p) ==
    LET t == page_directory[v \div Entries] IN
    /\ t # NoFrame
    /\ tables' = [tables EXCEPT ![t][v % Entries] = p]
    /\ status' = IF Reaches(t) THEN "ok" ELSE "astray"
    /\ UNCHANGED <<page_directory, paging, used, held>>

\* Variant: the frame of the table stays free.
map_absent_unmarked(v, p) ==
    LET t == FirstClear(used) IN
    /\ page_directory[v \div Entries] = NoFrame
    /\ t # 0
    /\ page_directory' = [page_directory EXCEPT ![v \div Entries] = t]
    /\ tables' = [f \in DOMAIN tables \cup {t} |->
                    IF f = t THEN [Zeroed EXCEPT ![v % Entries] = p]
                    ELSE tables[f]]
    /\ status' = IF Reaches(t) THEN "ok" ELSE "astray"
    /\ UNCHANGED <<paging, used, held>>
\* map_page: the table has to be allocated, zeroed and entered first.
map_absent(v, p) ==
    LET t == FirstClear(used) IN
    /\ page_directory[v \div Entries] = NoFrame
    /\ t # 0
    /\ used' = Mark(used, t) /\ held' = Mark(held, t)
    /\ page_directory' = [page_directory EXCEPT ![v \div Entries] = t]
    /\ tables' = [f \in DOMAIN tables \cup {t} |->
                    IF f = t THEN [Zeroed EXCEPT ![v % Entries] = p]
                    ELSE tables[f]]
    /\ status' = IF Reaches(t) THEN "ok" ELSE "astray"
    /\ UNCHANGED paging

map_panic(v) ==
    /\ page_directory[v \div Entries] = NoFrame
    /\ FirstClear(used) = 0
    /\ status' = "panic"
    /\ UNCHANGED <<page_directory, tables, paging, used, held>>

map_page(v, p) == map_present(v, p) \/ map_absent(v, p) \/ map_panic(v)

\* The pages map_region(virtual, physical, size) walks.
Pages(size) == (size + PAGE_SIZE - 1) \div PAGE_SIZE
Region(v, addr, size) ==
    [virt |-> v, phys |-> addr \div PAGE_SIZE, left |-> Pages(size)]

\* Variant: the same frame behind every page.
RegionRest_same(r) == [virt |-> r.virt + 1, phys |-> r.phys, left |-> r.left - 1]
RegionRest(r) == [virt |-> r.virt + 1, phys |-> r.phys + 1, left |-> r.left - 1]
=============================================================================
