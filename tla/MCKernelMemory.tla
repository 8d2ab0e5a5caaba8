--------------------------- MODULE MCKernelMemory ---------------------------
(***************************************************************************)
(* Tables of 16 entries: the low 4 MB are pages 0..15, HIGH is entry 12 of *)
(* the directory and VIDEO entry 14.  The first machine has 24 frames of   *)
(* memory in one region, the second a hole above its upper memory, the third too *)
(* little memory for the page tables.                                      *)
(***************************************************************************)
EXTENDS KernelMemory

E(a, l, t) == [addr |-> a, len |-> l, type |-> t]

Machine(upper, mmap) ==
    [lower |-> 38, upper |-> upper, mmap |-> mmap, kernel_start |-> 64,
     kernel_end |-> 91, mmap_addr |-> 20, mmap_length |-> 17,
     framebuffer_addr |-> 4000, framebuffer_size |-> 40]

MCMachines ==
    {Machine(352, <<E(0, 38, 1), E(38, 26, 2), E(64, 352, 1)>>),
     Machine(256, <<E(0, 38, 1), E(64, 256, 1), E(320, 32, 2), E(352, 64, 1)>>),
     Machine(100, <<E(0, 38, 1), E(38, 26, 2), E(64, 100, 1)>>)}
=============================================================================
