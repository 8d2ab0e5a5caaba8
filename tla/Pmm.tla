--------------------------------- MODULE Pmm ---------------------------------
(***************************************************************************)
(* The physical memory manager, kernel/mem/pmm.cpp: one bit per frame,     *)
(* 1 = in use, in an array of words placed behind the kernel image.        *)
(*                                                                         *)
(* The machine the kernel boots on is a record of what multiboot tells     *)
(* (lower and upper memory, the memory map) and where the linker and the   *)
(* boot loader put things; it never changes.  Addresses and lengths are in *)
(* bytes, frames are numbers, the bitmap is the set used of the bits that  *)
(* are 1.  Writes beyond the bitmap, which init_pmm does when the memory   *)
(* map reaches higher than total_memory, only clear bits of the memory     *)
(* behind the bitmap before anything is kept there, and are left out.      *)
(***************************************************************************)
EXTENDS Integers, Sequences

CONSTANTS PAGE_SIZE,   \* 4096
          WordBits,    \* 32 frames per word of the bitmap
          LowFrames,   \* 256: the first MB
          Machines

WordBytes == WordBits \div 8

ASSUME PmmAssumption ==
    /\ PAGE_SIZE \in Nat \ {0} /\ WordBits \in Nat \ {0}
    /\ LowFrames \in Nat \ {0}

Entry == [addr : Nat, len : Nat \ {0}, type : {1, 2}]

\* The kernel is linked at 1 MB; GRUB puts the memory map below it.
ASSUME MachineAssumption ==
    \A m \in Machines :
      /\ m.lower \in Nat /\ m.upper \in Nat
      /\ m.mmap \in Seq(Entry)
      /\ m.kernel_start = LowFrames * PAGE_SIZE
      /\ m.kernel_end \in Nat /\ m.kernel_start < m.kernel_end
      /\ m.mmap_addr \in Nat /\ m.mmap_length \in Nat
      /\ m.mmap_addr + m.mmap_length <= LowFrames * PAGE_SIZE

\* Multiboot counts upper memory from 1 MB to the first hole.
ASSUME UpperMemoryAssumption ==
    \A m \in Machines :
      /\ m.lower <= LowFrames * PAGE_SIZE
      /\ \E i \in DOMAIN m.mmap : /\ m.mmap[i].type = 1
                                 /\ m.mmap[i].addr = LowFrames * PAGE_SIZE
                                 /\ m.mmap[i].len >= m.upper

VARIABLES machine,
          used,      \* the bits of the bitmap that are 1
          held,      \* frames returned by pmm_alloc_page and not freed
          verdict    \* what test_memory printed last: "none", "OK", "FAIL"

pmm_vars == <<machine, used, held, verdict>>
-----------------------------------------------------------------------------
\* The frames a region touches: its start is rounded down, its end up.
Span(addr, size) == addr \div PAGE_SIZE ..
                    (addr + size + PAGE_SIZE - 1) \div PAGE_SIZE - 1

multiboot_get_total_memory(m) == m.upper + m.lower

Usable(m) == {i \in DOMAIN m.mmap : m.mmap[i].type = 1}

max_frames(m) == multiboot_get_total_memory(m) \div PAGE_SIZE
bitmap_words(m) == (max_frames(m) + WordBits - 1) \div WordBits
bitmap_size(m) == bitmap_words(m) * WordBytes
bitmap(m) == ((m.kernel_end + PAGE_SIZE - 1) \div PAGE_SIZE) * PAGE_SIZE

Bits(m) == 0 .. bitmap_words(m) * WordBits - 1

\* Variant: the array itself is not reserved.
Reserved_no_bitmap(m) ==
    Span(0, PAGE_SIZE * LowFrames)
      \cup Span(m.kernel_start, m.kernel_end - m.kernel_start)
      \cup Span(m.mmap_addr, m.mmap_length)
Reserved(m) ==
    Span(0, PAGE_SIZE * LowFrames)
      \cup Span(m.kernel_start, m.kernel_end - m.kernel_start)
      \cup Span(m.mmap_addr, m.mmap_length)
      \cup Span(bitmap(m), bitmap_size(m))

FreedAtBoot(m) ==
    UNION {Span(m.mmap[i].addr, m.mmap[i].len) : i \in Usable(m)}

\* The bitmap init_pmm leaves: all ones, usable regions cleared, then the
\* frames the kernel already uses set again.
Boot(m) == Bits(m) \cap ((Bits(m) \ FreedAtBoot(m)) \cup Reserved(m))

\* Variant: the incomplete word is scanned too.
Scanned_up(m) == 0 .. bitmap_words(m) * WordBits - 1
\* pmm_alloc_page scans max_frames / 32 words: the frames of a last,
\* incomplete word are never handed out.
Scanned(m) == 0 .. (max_frames(m) \div WordBits) * WordBits - 1

\* Variant: the bitmap is searched from its end.
FirstClear_last(u) ==
    LET clear == Scanned(machine) \ u
    IN  IF clear = {} THEN 0 ELSE CHOOSE f \in clear : \A g \in clear : f >= g
\* The frame pmm_alloc_page returns when the bitmap is u; 0 if it fails.
FirstClear(u) ==
    LET clear == Scanned(machine) \ u
    IN  IF clear = {} THEN 0 ELSE CHOOSE f \in clear : \A g \in clear : f <= g

\* Variant: the bit behind the one that was found is set.
Mark_next(u, f) == IF f = 0 THEN u ELSE u \cup {f + 1}
Mark(u, f) == IF f = 0 THEN u ELSE u \cup {f}

\* Variant: the guard on address 0 is missing.
Unmark_any(u, f) == u \ {f}
\* Variant: the bit is not cleared.
Unmark_never(u, f) == u
\* pmm_free_page: address 0 and addresses past the last frame are ignored.
Unmark(u, f) == IF f = 0 \/ f >= max_frames(machine) THEN u ELSE u \ {f}

init_pmm ==
    /\ machine \in Machines
    /\ used = Boot(machine)
    /\ held = {}
    /\ verdict = "none"

\* A frame for a page table or for the heap; 0 stands for failure.
pmm_alloc_page(f) ==
    /\ f = FirstClear(used)
    /\ used' = Mark(used, f)
    /\ held' = Mark(held, f)
    /\ UNCHANGED <<machine, verdict>>

\* A frame goes back; the callers check no result, so 0 comes back too.
pmm_free_page(f) ==
    /\ used' = Unmark(used, f)
    /\ held' = held \ {f}
    /\ UNCHANGED <<machine, verdict>>

\* tests/libc_test.cpp: takes two frames, returns the first, takes one again.
\* Two frames stay behind each time the test command is given.
test_memory ==
    LET page1 == FirstClear(used)
        u1    == Mark(used, page1)
        page2 == FirstClear(u1)
        u2    == Mark(u1, page2)
        u3    == Unmark(u2, page1)
        page3 == FirstClear(u3)
    IN  /\ used' = Mark(u3, page3)
        /\ held' = Mark(Mark(held, page2), page3)
        /\ verdict' = IF page1 = page3 THEN "OK" ELSE "FAIL"
        /\ UNCHANGED machine

PmmNext ==
    \/ \E f \in Scanned(machine) : pmm_alloc_page(f)
    \/ \E f \in held \cup {0} : pmm_free_page(f)
    \/ test_memory

PmmSpec == init_pmm /\ [][PmmNext]_pmm_vars
-----------------------------------------------------------------------------
(* Properties *)

PmmTypeOK ==
    /\ machine \in Machines
    /\ used \subseteq Bits(machine)
    /\ held \subseteq Scanned(machine)
    /\ verdict \in {"none", "OK", "FAIL"}

\* The bitmap and the owners agree at every moment: a bit is 1 exactly for the
\* frames that were never free and for those handed out since, so no frame is
\* given twice and none is lost (pmm.cpp:48-69).
BitmapExact ==
    /\ used = Boot(machine) \cup held
    /\ held \cap Boot(machine) = {}

\* Not a byte of a handed-out frame belongs to the first MB, the kernel image,
\* the memory map or the bitmap: none of them is overwritten by a new owner,
\* though each may begin or end inside a frame (pmm.cpp:42-45).
Outside(f, addr, size) == (f + 1) * PAGE_SIZE <= addr \/ addr + size <= f * PAGE_SIZE
HeldIsFree ==
    \A f \in held :
      /\ Outside(f, 0, PAGE_SIZE * LowFrames)
      /\ Outside(f, machine.kernel_start, machine.kernel_end - machine.kernel_start)
      /\ Outside(f, machine.mmap_addr, machine.mmap_length)
      /\ Outside(f, bitmap(machine), bitmap_size(machine))

\* A frame that is handed out is RAM to its last byte, although free_region
\* also clears the bits of frames a region covers in part.
HeldIsRam ==
    \A f \in held : \E i \in Usable(machine) :
      /\ machine.mmap[i].addr <= f * PAGE_SIZE
      /\ (f + 1) * PAGE_SIZE <= machine.mmap[i].addr + machine.mmap[i].len

\* The kernel's own test of the allocator never prints FAIL, with plenty of
\* frames, with one left and with none (tests/libc_test.cpp:39-43).
TestPasses == verdict # "FAIL"
=============================================================================
