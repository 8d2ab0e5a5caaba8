------------------------------- MODULE MCHeap -------------------------------
(***************************************************************************)
(* A heap of at most three pages of 64 bytes.  In a fresh page of 48       *)
(* payload bytes 28 leaves exactly the least block (kmalloc splits it off, *)
(* expand_heap does not), 18 is rounded and leaves more, 100 needs two     *)
(* pages and fits a merged block, and 1022 is rounded to 0.                *)
(***************************************************************************)
EXTENDS Heap

MCPageSize == 64
MCWordSize == 1024
MCBase     == 128
MCFrames   == 2
MCRequests == {18, 28, 100, 1022}
=============================================================================
