-------------------------------- MODULE MCPmm --------------------------------
(***************************************************************************)
(* Three machines with frames of 16 bytes, 8 frames per word and a first   *)
(* "MB" of 4 frames, its hole starting at byte 38: one whose last word is  *)
(* incomplete and whose memory ends inside a frame, one with whole words   *)
(* and memory beyond the last bit, one with a second region far above.     *)
(***************************************************************************)
EXTENDS Pmm

E(a, l, t) == [addr |-> a, len |-> l, type |-> t]

Machine(upper, mmap) ==
    [lower |-> 38, upper |-> upper, mmap |-> mmap, kernel_start |-> 64,
     kernel_end |-> 91, mmap_addr |-> 20, mmap_length |-> 17]

MCMachines ==
    {Machine(270, <<E(0, 38, 1), E(38, 26, 2), E(64, 270, 1)>>),
     Machine(218, <<E(0, 38, 1), E(38, 26, 2), E(64, 218, 1)>>),
     Machine(100, <<E(0, 38, 1), E(64, 100, 1), E(164, 60, 2), E(224, 64, 1)>>)}
=============================================================================
