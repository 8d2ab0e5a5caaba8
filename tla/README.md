# A TLA+ development of the kernel

This directory specifies and verifies the C/C++ kernel of this repository: a
32-bit x86 kernel with its own memory management, keyboard input, graphic
console, ATA disk driver and clock. One module describes each component as the
code has it; the `MC*` modules and their `.cfg` files are the instances that TLC
checks; the `*Proofs` modules hold theorems and their proofs, checked by TLAPS. Definitions
carry the names of the functions and variables they model. `PROJECT.json` maps
every definition to the source lines it stands for, lists the runs, and lists
the hazards the properties are there for.

    tlc -workers 2 -config MCHeap.cfg MCHeap     # a run
    tlapm HeapProofs.tla                         # the proofs of a module

## The system

`kernel_main` (`kernel/kernel.cpp`) brings the machine up: GDT, IDT with
interrupts enabled, keyboard state, `init_pmm`, `init_vmm`, `init_heap`,
`console_init`, `init_clock`, `ata_init`. Then one thread loops for ever: it asks
`get_input_buffer` for a line, carries the command out and copies the frame
buffer to the screen. There are no other threads. Concurrency comes from
interrupts (clock, keyboard, disks), and since `console_put_char` ends with
`sti` and `irq_handler` acknowledges an interrupt before it calls the handler,
**a handler that prints can be interrupted by the next interrupt, of its own
line too**.

| Component | State | Operations | Uses / shares with | What is hard | What makes it correct |
|---|---|---|---|---|---|
| Frame allocator, `kernel/mem/pmm.cpp` | bitmap, number of frames | `init_pmm`, `pmm_alloc_page`, `pmm_free_page`, `free_region`, `pmm_reserve_region` | multiboot memory map | partial frames, incomplete last word, bad frees | each frame has one owner; nothing of the boot image is given away |
| Paging, `kernel/mem/vmm.cpp` | page directory, page tables, CR0.PG | `init_vmm`, `map_page`, `map_region`, `get_physical_address`, `alloc_page_table` | frames; written through physical addresses | order of overlapping mappings, no table left | tables stay reachable, needed mappings survive |
| Heap, `kernel/mem/heap.cpp` | block list, `heap_limit` | `init_heap`, `kmalloc`, `kfree`, `expand_heap`, `coalesce_free_blocks` | frames, paging | long call sequences, failing growth, boundaries | blocks tile memory, payloads are exclusive, one pass coalesces |
| Multiboot helpers, `boot/multiboot_helpers.cpp` | none | total memory, walk over the map | read by both of the above | more regions than the caller's array | usable regions only |
| Line input, `drivers/keyboard.cpp` | `key_buffer`, `buffer_pos`, `line_ready` | `keyboard_handler`, `get_input_buffer` | console; shared by handler and thread without a lock | every interleaving, nesting handlers | no overrun, no torn line, a ready line is taken |
| Graphic console, `drivers/display/*.cpp` | cursor, frame buffer copy | `console_put_char`, `console_scroll`, glyph drawing | heap (the copy), paging; called by thread and handlers | scroll against line pitch, wrap, erase | readable text inside the buffer |
| Text screen, `drivers/screen.cpp` | VGA text memory | `clean_screen`, `print_string` | exceptions, `clear` | wrong device in graphic mode | the screen is cleared |
| Clock, `drivers/clock/clock.cpp` | ticks, seconds, ten timers, user callback | tick handler; create, destroy, sleep, read | PIT, RTC; shared by handler and thread | store order, torn 64-bit reads, nested ticks | timers fire on time, with their own callback; sleeps last |
| ATA driver, `drivers/blocks/ata/ata_pio.c`, `drivers/blocks/block_device.c` | devices, two interrupt flags | `ata_init`, `ata_identify`, read, write, two handlers | heap, console, interrupts | lost and left-over interrupts, masked lines, hlt race, failing writes | sectors in order, requests on open channels return, the disks are registered |
| Interrupts, `cpu/int.cpp`, `cpu/int_.asm`, `arch/x86/interrupts/pic.c` | handler table, masks, requests and services of two controllers, interrupt flag | `set_idt`, `irq_handler`, EOI, enabling a line | all handlers | nesting, every interrupt acknowledged twice, interrupts before set-up | nobody else's interrupt is retired, no line is blocked, masks are what was meant |
| PIT, `arch/x86/time/pit.cpp` | device registers | divisor, enable, EOI | clock, interrupts | - | - |
| RTC, `arch/x86/time/rtc.cpp` | the chip's six registers | `arch_rtc_get_time` | clock, `time` command | reading across an update, interrupts between reads | a time that existed |
| libc, `libc/string.cpp` | static conversion buffers | `printk`, `int2String` | console; thread and handlers | static buffers shared with handlers | digits are those of the argument |
| `UniquePtr` | an owned pointer | move, reset, release | heap | never instantiated | - |
| Boot code, GDT, panic | - | straight-line set-up | - | - | - |

## Modules

    Allocator  <-- implemented by --  Heap
    Disk       <-- implemented by --  Ata
    OneLine    <-- implemented by --  LineInput
    Pmm  <-- extended by --  Vmm  <-- extended by --  KernelMemory, which implements Pmm
    Rtc, Printk  <-- composed by --  TimeCommand
    Console      Clock      Interrupts

    HeapProofs  MemoryProofs  ConsoleProofs  LineInputProofs  AtaProofs  ClockProofs
    InterruptsProofs  TimeCommandProofs      each extends the module of its name,
                                             MemoryProofs extends KernelMemory

* **Heap** models `heap.cpp`. The headers in memory are the function `hdr` from
  block addresses to headers; a split adds an address, a merge removes one. The
  loops of `kmalloc` and `coalesce_free_blocks` take one action per turn
  (`scan_*`, `coalesce_*`), everything else of a call is one action, since no
  handler calls the heap. `expand_fails` keeps the pages that were mapped before
  the failure, as the code does. `live` is a ghost: the pointers callers hold.
  `OtherAlloc` and `OtherFree` are the other users of the frame allocator.
* **Allocator** is what callers may rely on: an extent is handed out apart from
  all live ones and stays until it is returned; any request may be refused.
* **Pmm** models `pmm.cpp` with `multiboot_helpers.cpp` and the kernel's own
  `test_memory`. The machine (memory map, image, addresses) is an immutable
  record; the bitmap is the set of its ones; `held` is a ghost.
* **Vmm** models `vmm.cpp` as operators over the frame allocator; a write of a
  table through its physical address makes the status `astray` when paging is
  on and the address is not mapped to itself.
* **KernelMemory** composes both with the page side of the heap in the order of
  `kernel_main`: `init_vmm`'s regions page by page (an entry of the memory map that is
  not usable is a region of no pages), `enable_paging`, `init_heap`,
  `vbe_init`, then growth (`expand_alloc`, `expand_map` are the two halves of a
  turn of `expand_heap`'s loop) and the `test` command.
* **Console** models `console.cpp` over `font.cpp` and `vbe.cpp`, in pixels. A
  character is the lowest lit row of its glyph. `lost` is the state in which
  `vbe_put_pixel` reports an address outside of the buffer by printing at that
  same place, which recurs until the stack ends.
* **LineInput** models `keyboard_handler` against `get_input_buffer`. Each access
  of the thread to a shared variable is an action; the two stores at its end come
  in either order, as `-O2` may have them. The handler is atomic but for Enter, which
  is two actions: interrupts are enabled by the echo in between (`entering`
  counts the handlers that stand there).
* **OneLine** is what the main loop may rely on: a place for one line, which keys edit
  until Enter completes it; once opened by the reader nothing changes it, and the reader
  gets it whole. Any key may be ignored.
* **Ata** models `ata_pio.c`, with the drive, the controller's latch and the
  processor's `hlt` as the environment. `open` is the set of channels whose interrupts
  pass the controllers' masks. `ata_init` enables no line and `set_idt` writes back the
  masks it finds (`pic.c:51-53`), so `open` is any set the boot loader may have left,
  and never changes; the interrupt of a closed channel is latched and goes no further.
* **Disk** is what callers of a block device may rely on: one request at a time, its
  sectors moved one by one and in order; a read is over with its last sector, a write
  when the drive has them all or has reported an error.
* **Clock** models `clock.cpp`. `handlers` is the stack of tick handlers that have
  begun; each access to a timer or to one half of `g_ticks` is an action, of the
  thread and of the handler; the three stores of a new timer come in any order (the
  compiled code sets `active` first). `promise` and `spoiled` are ghosts: what a
  caller was promised, and whether a tick got between the stores. A handler's
  `stale` says that it was interrupted between finding a timer due and resetting it,
  `torn` that a carry of `g_ticks` came between its two half-reads.
* **Interrupts** models the path of an interrupt: request, mask, service and
  acknowledgement in both controllers, `irq_common_stub`, `irq_handler` and the
  acknowledgement at the end of each handler, over a stack of handlers (`frames`).
  `kernel_main` opens the lines one by one; reading a mask and writing it back are two
  actions. Spurious interrupts of both controllers are included.
* **Rtc** models `arch_rtc_get_time`: the flag is read once, then six registers one
  by one, against a chip that announces an update, has no valid registers during it
  and carries from field to field, in binary or decimal mode.
* **Printk** models a `%d`: `int2String` writes terminator and digits one by one
  into its static buffer, `printk` reads them back one by one, and a handler may
  convert a number of its own in between.
* **TimeCommand** composes the two as the `time` command does.

Definitions named like `Split_low`, after a comment that begins with *Variant*,
are plausible mistakes in the definition they precede. No specification uses
them; `PROJECT.json` pairs each property with the variant that breaks it.

## Runs

| Run | Question | Properties | States |
|---|---|---|---|
| `heap` | is the list sound for every sequence of calls, and does it implement `Allocator`? | `TypeOK BlocksInOrder Coalesced FirstFit RefusedOnlyWhenFull AllocatorSpec CallsReturn` | 377,407 |
| `pmm` | does every frame have one owner, on awkward memory maps? | `PmmTypeOK BitmapExact HeldIsFree HeldIsRam TestPasses` | 2,052 |
| `kernel_memory` | do frames, paging and heap growth fit together from boot on? | `TypeOK TablesOwned HeapBacked NeverAstray MappingsKept BootTablesSuffice GrowthEnds` | 1,602 |
| `console` | is text readable while it is on the screen? | `CursorInColumns Readable` | 259,270 |
| `console_bounds` | are all pixels in the buffer? **No** | `PixelsInBounds` | |
| `console_clear` | does `clear` clear? **No** | `ClearClears` | |
| `line_input` | is the shared buffer, without a lock, the place for one line of `OneLine`? | `TypeOK LineSpec ReadyIsTaken` | 24,411 |
| `line_copied` | is the copied line the completed one? **No** | `LineCopied` | |
| `ata` | is the driver the disk of `Disk`, whatever interrupts and masks do, and does every request on an open channel return? | `TypeOK QuietWhenReady DisksRegistered DiskSpec Returns` | 793,848 |
| `clock` | do timers and sleeps keep their promises, with ticks inside of ticks? | `TypeOK CallbacksRight SleepsLongEnough Punctual` | 7,992,328 |
| `interrupts` | is it harmless to acknowledge every interrupt twice? | `NoneInService LinesStayOpen OwnEoi LinesServed` | 131,296 |
| `time_command` | is the time shown one that existed? | `TimeExisted NumberBounded TimeShown` | 2,352,600 |

Bounds, and why they are enough:

* `heap`: pages of 64 bytes with the code's 16-byte header, three pages at most.
  The sizes 18, 28, 100 and 1022 produce a rounded size, the least remainder that
  is split (and, in `expand_heap`, not split), a request that needs two pages or a
  merged block, and one that rounds to 0. All shapes of `Split`, `Append`,
  `Merge` and both failures occur. The theorems cover all other sizes.
* `pmm`: three machines with 16-byte frames: memory that ends inside a frame and
  a word, a map that reaches past the bitmap, and a region far above. The theorems
  cover all memory maps.
* `kernel_memory`: tables of 16 entries; the identity map fills one table as in the
  kernel, RAM begins in the middle of a table, the second machine has a hole above
  its upper memory and RAM behind it, the last has too little memory for its
  tables and panics. `MaxGrow` bounds one growth, and growth repeats until frames
  run out.
* `console`: five columns, so that a tab may or may not wrap, and two lines before
  the first scroll; what was scrolled stays above them in part. `LastLine` is where lines stop being
  begun: newlines alone move the cursor down without end.
* `line_input`: a buffer of four places, six keys, two nested handlers: enough to
  fill it, to complete a line and type into the next while the first is copied.
* `ata`: the count register wraps at 3 and requests have 1 to 3 sectors, so the
  count that is written as 0 occurs; all attachments of drives to four slots; each
  channel open or masked.
* `clock`: two timers, `g_ticks` with a low half of four values and four ticks, so
  that a carry falls into readings of the thread and of a handler; delays of 0 and 3,
  the longer one due in the same low half as the carry makes it seem to be; one
  handler nested in another. A first instance with short delays only did not show the
  third window named under `CallbacksRight`; the theorem did.
* `interrupts`: one line of the second controller and three of the first, two that
  are more urgent than the cascade and one that is less; three sets of masks a boot
  loader may leave, one of which cuts the second controller off; three handlers nested.
* `time_command`: the chip's real ranges, at the last second of a year and at a time
  with numbers of one and of two digits; two seconds pass and handlers print the three
  digits of a line number. `Lead` is the least the theorem allows.

`PixelsInBounds`, `ClearClears` and `LineCopied` state what the code or its
comments say and the runs show not to be so; the findings of `PROJECT.json` quote
the lines. In short: the console scrolls eight rows for lines ten rows apart, so
the cursor leaves the buffer; `clear` blanks the text memory while the kernel
shows the graphic one; and Backspace still edits a line after Enter.

Deadlock is not checked where the system may really stop: the console after the
stack overflow or the last line, the memory after a panic, the disks when no disk
is attached and nothing can be asked for, and the line input, the clock and the
time command when the bound on keys, ticks or seconds is used up. It is checked for
the heap, the frame allocator and the interrupts.

## Fairness

`CallsReturn` and `GrowthEnds` assume weak fairness of the steps of a call that
has begun: there is one thread and handlers return to it. No fairness is put on
the calls themselves. `ReadyIsTaken` assumes that a handler that has begun
returns and that the main loop goes on; it polls for ever. `Returns` assumes, for
the disks, that the processor goes on, that a latched interrupt which the masks let
through is taken while interrupts are enabled, that the clock ticks, and that the
drive answers in the end: the driver has no timeout, so that last one is what its
users rely on too. That lines 14, 15 and the cascade, 2, are not masked is **not**
assumed, since nothing in the kernel opens them: `Returns` promises that `ata_init`
ends under any masks, and that a request returns on a channel that is open. On a
closed one the loops at `ata_pio.c:305`, `365` and `374` never end, which is the
theorem `MaskedIsEndless`; the kernel's disks work only under a boot loader that leaves
these lines open. `LinesServed` assumes that the processor goes on, with the interrupt
it can take or with the code it runs; devices need never raise anything. A request may
wait as long as more urgent ones are taken again and again, in the order of the 8259s:
lines 0, 1, the second controller's, 3 to 7. The properties of the
clock and of the time command are safety and need none.

## What is proved

For every value of the constants that satisfies the modules' assumptions:

* `HeapProofs`: `TypeCorrect`, `ListStaysInOrder`, `LiveBlocksMarked`,
  `PayloadsStayIntact`, `GoodBlocksStay`, `OnePassCoalesces`, `HeapBecomesWhole`,
  `FirstFitAlways`, `RefusalIsHonest`, `PointersAligned`, `LoopsEnd`, and
  `HeapImplementsAllocator`.
* `MemoryProofs`: of the frame allocator by itself `PmmTypeCorrect`,
  `BitmapAlwaysExact`, `TestAlwaysPasses`, `HeldFramesAreFree`, `HeldFramesAreRam`; of
  allocator, paging and heap pages together `MemoryTypes`, `TablesAlwaysOwned`,
  `HeapAlwaysBacked`, `MappingsAlwaysKept`, `BootTablesAlwaysSuffice`,
  `NeverAstrayInLowMemory`, `EnoughLowMemory`, and, that the kernel implements the
  frame allocator, `KernelImplementsPmm` with `KernelFramesAreFree`.
* `LineInputProofs`: `TypeCorrect`, `NeverTorn`, and `BufferIsOneLine`.
* `ConsoleProofs`: `CursorKeepsColumns`, `TextReadable`.
* `AtaProofs`: `TypeCorrect`, `InOrder`, `Quieted`, `NoInterruptLost`,
  `MaskedIsEndless`, `DisksAreRegistered`, and `DriverIsDisk`.
* `ClockProofs`: `TypeCorrect`, `CallsAreRight`, `SleepsAreLong`, `NoneOverdue`.
* `InterruptsProofs`: `TypeCorrect`, `NoneHeldBack`, `EoisAreOwn`, `MasksAreMeant`.
* `TimeCommandProofs`: `TimeReadExisted`, `NumbersBounded`, `ShownTimeExisted`.

The heap's argument rests on one inductive invariant,
`ListInv == TypeOK /\ BlocksInOrder /\ LiveBlocks /\ Cursor /\ Budget`.
`BlocksInOrder` alone is not inductive: a growth links its block to `last`, so
one has to know that `last` is the tail when the scan has run off the list
(`Cursor`), and that the new addresses do not wrap (`Budget`, from the frames
there are). `LiveBlocks` is needed since `kfree` trusts its argument. Each action
has a lemma that it preserves `ListInv`; for the three that rewrite the list a
lemma before it says which headers change. `PayloadsIntact` follows from
`ListInv`; `LiveBlocksStay` and `RefusedOnlyWhenFull` follow from it step by step;
`Coalesced`, `FirstFit` and `Aligned` are inductive relative to it. For the
refinement, each step is a step of `Allocator` or leaves `live` alone; the
returning steps share the lemma `HandOutAllocates`. `LoopsEnd` is the safety half of
`CallsReturn`: what a loop has before it, in bytes (`Left`), gets less with each turn.

The frame allocator's invariant is `PmmInv == PmmTypeOK /\ BitmapExact /\
TestPasses`: that owned frames are frames the scan can reach (`PmmTypeOK`) makes
the bound test of `pmm_free_page` harmless for them, and `BitmapExact` makes the
frame freed in `test_memory` the least free one again.

That held frames are RAM follows from the two together: a held frame was free at
boot, and `UpperMemoryAssumption` puts the end of the bitmap before the end of the
region at 1 MB, so the rounding of `free_region` has no partial frame to give away.

`KernelMemory`: two parts of the invariant carry the argument. `Kept(v, p)`, for each
page that must lead to frame `p` in the end: a call of `map_region` still to come that
maps it elsewhere is followed by one that maps it right, and if none is to come it is
mapped right already. It holds of `init_vmm`'s list because only the call for the
kernel image maps a page of the window elsewhere, and the memory map's regions come
after it. `Window`: frames are handed out in ascending order, so the heap, which takes
at least one frame per page, ends at or below the window's page of each frame still
free. Up to a free frame all memory above 1 MB is RAM (`UpperMemoryAssumption`), so
the page the heap grows over has been mapped at boot, and has a table:
`BootTablesAlwaysSuffice`. `HeapAlwaysBacked` needs a frame for the first heap page,
which `init_heap` does not test for; `NeverAstrayInLowMemory` needs that the tables lie
below 4 MB.

`EnoughLowMemory` derives both from the machine alone. `BootTables` are the directory
entries that boot's regions reach, `LowFree` the frames below 4 MB that boot leaves
free; the hypothesis `EnoughLow` asks for one of the latter more than of the former,
the one more being the heap's first page. Until the heap grows every frame handed out
is a table or that page, and no two tables hang on one entry (`Counted`); so a request
finds a frame below 4 MB still free (`LowFrameFree`), and gets it, since the lowest is
handed out first. After boot no table is made. On a PC with less than 512 MB boot needs
some 130 tables at most and leaves hundreds of frames between 1 and 4 MB. Of the three
machines of `kernel_memory` two satisfy the hypothesis; the third panics.

`KernelImplementsPmm`: each step of `KernelMemory` is `test_memory`, an allocation or
nothing to the allocator, which lives in the same variables. `KernelFramesAreFree`
carries the properties of `Pmm` over to the kernel.

`LineInput`: a line that is copied is ready (`Copying`), so the handler refuses
characters, and what has been copied is what the buffer begins with (`Copied`).
`key_buffer` never shrinks, which is why Backspace does no harm to it.
`BufferIsOneLine` maps the place to the first `buffer_pos` characters, from the reading
of `n` on to the first `n`, and to nothing between a first store that resets `line_ready`
and the second, when characters are let in that the second store throws away. It
needs that a `buffer_pos` reset first stays 0 until the second store (`Closing`).

`Console`: `Laid` says that each cell lies at least ten rows above the cursor or on
its line and to its left. Scrolling moves both alike, so lines stay ten rows apart
although the amount is eight. `Inside`, that no cell is cut by the lower edge, is
needed for the Backspace that fails there: it moves the cursor to the left and erases
nothing, so there must be no glyph on its line.

`Ata`: at each point of the driver (`Under`) the request has either caused no
interrupt since its command (`Quiet`) or exactly one, latched or seen (`Once`), and
the sector the drive offers is the next one (`Next1`). A flag is set only on a channel
that is open (`Typed`), so a read that gets to its data and a write that gets to its
flush are on an open one; from this follow `Quieted` and `MaskedIsEndless`. The count register's width
enters in one lemma: a count of the full width is written as 0 and means itself. For
`DriverIsDisk` the data port is a `Move`, the end of a write an `EndWrite`, and what the
drive does to its error bit a `Status`; interrupts, halts and polls are stutters.
`DisksAreRegistered` has an invariant over the slots already passed (`Found`).
`NoInterruptLost` is the safety half of `Returns`: each wait has something that ends
it, if its channel is open.

`Clock`: `CallsAreRight` needs, for every handler on the stack and not only for the
running one, what its readings are still worth (`FrameOk`), and that two handlers
never stand before the call of the same timer (`Nested`). The proof is what
delimits the windows in which a timer may fire wrong: a tick between the stores of a
new timer (`spoiled`), a nested tick between the test of `active` and its reset
(`stale`), and a nested tick whose carry falls between a handler's two half-reads of
`g_ticks` (`torn`), which fires timers up to 2^32 ms early. `NoneOverdue` needs a
second invariant: for each timer that is due some handler on the stack will still
come to it with a reading late enough (`Covered`), or is about to call it
(`Pending`), even if the handlers above it have passed it by.

`Interrupts`: something is in service only from the entry of an interrupt to the
acknowledgement in `irq_handler`, with interrupts disabled (`Served`), so the
second acknowledgement finds nothing. `Masks` says which lines each point of
`kernel_main` has opened; no handler changes a mask.

`TimeCommand`: `RtcInv` counts the reads since the flag against the notice the chip
gives; `PrintkInv` says which of the numbers converted meanwhile wrote which byte;
`CommandInv` ties the digits shown to the time read.

The assumptions are the named `ASSUME`s. `PageAssumption` and
`WordAssumption`: pages and words are multiples of 4, a page holds two headers
and a payload. `BaseAssumption` and `FramesAssumption`: the first heap page is
aligned, and the heap cannot reach the end of the address space even with every
frame. `RequestsAssumption`: no request is so large that rounding it to pages
wraps, unless it rounds to 0 (`Sane`); `heap.cpp:66-67` does not test for that,
and no caller in the kernel asks for such sizes. `PmmAssumption` and
`MachineAssumption`: the kernel is linked at 1 MB, the memory map lies below it.
`UpperMemoryAssumption`: lower memory ends by 1 MB, and the region at 1 MB is as long as the upper
memory the boot loader reports, which counts from 1 MB to the first hole.
`WindowAssumption`: what boot maps at `HIGH` ends below the addresses of the frame
buffer, and usable regions begin at a page, since `map_region` rounds only their size.
`LineInputAssumption`, `ConsoleAssumption`, `AtaAssumption`, `ClockAssumption`,
`InterruptsAssumption` and `PrintkAssumption` only give constants their types (a
screen holds at least one character). `RtcAssumption`: fields have ranges within 0
to 99, and the 244 microseconds between flag and update are long enough for six
reads (`Lead >= 6`).

Model-checked only: liveness and `ENABLED`, which are outside of what the prover does:
`CallsReturn`, `GrowthEnds`, `ReadyIsTaken`, `Returns` and `LinesServed`. `NeverAstray`
and `HeapBacked` have the condition `EnoughLow`, which the code does not test; TLC
checks them on the machine that does not satisfy it, too.

## Assumptions of the models

* The heap's callers free only pointers they were given, once (`kfree(p)` ranges
  over `live`): the code does not check.
* There is a frame for the first heap page (`init_heap` does not test), less
  than 512 MB of memory (above it `init_vmm`'s window meets the frame buffer's
  addresses).
* The interrupt controllers are 8259s: edge-triggered, fully nested, with one
  latched interrupt per line and non-specific acknowledgement; a pending interrupt
  is taken before the next instruction.
* The masks of lines 2, 14 and 15 are the boot loader's, and any.
* The clock chip is in 24-hour mode, to which `arch_rtc_init` sets it when
  `init_clock` calls it (`clock.cpp:57`), and the model's months have one length.
* Handlers that print a number are those of the disks and callbacks, through
  `LOG`; what the console does with interrupted output is not looked at.
* Drives fail writes only; requests have 1 to 256 whole sectors.
* Callbacks return at once; those in `Printing` leave interrupts enabled.
* Nesting of handlers is bounded by `MaxNested`; in the code only the stack
  bounds it.

## Not modelled

* `UniquePtr`: nothing instantiates it, so there is no state to model.
* Boot code, GDT and `panic`: straight-line set-up before anything can go wrong
  in an order, and a final stop, which `KernelMemory` keeps as a status.
* Exceptions, and the bytes of the IDT's descriptors. The text screen but for
  `clean_screen`: it is not displayed, and only exceptions print on it.
* The console under concurrent calls: a handler that prints may draw between the
  thread's cursor updates. It is modelled for one caller; the effect of its
  `sti` on others is in `LineInput`, `Clock`, `Ata` and `Interrupts`.
* What is written through a null pointer when a boot-time allocation fails, behind
  the array of 32 regions, or by a key's echo before the console is set up: the
  outcome depends on what lies in memory there.
* The disk driver's identify data, LBA truncation, failing reads and messages;
  scan codes; the copy of the frame buffer to the screen.
* `printk` other than `%d`, and arguments of the wrong width.
* Functions nothing calls: `unmap_page`, `arch_irq_disable`, `clock_set_date_time`
  with `arch_rtc_set_time`, the drawing primitives, the multiboot validators, the timing test.

## Plan

Done, in this order: `Heap` with `Allocator`, `Pmm`, `Vmm`, `KernelMemory`;
`Console`, `LineInput`, `Ata`, `Clock`; `Interrupts`; `Rtc`, `Printk`,
`TimeCommand`; the proofs of all of them. What would add most
next:

1. `Console` with two callers: `cursor_x` and `cursor_y` are read and written in
   several accesses, after an `sti` of the other caller.
2. Measures like the heap's `Left` for the other loops, such as the walks of
   `map_region` and the growth of the heap in `KernelMemory`.
3. A refinement of `Clock` to a set of deadlines, but for its three windows.
