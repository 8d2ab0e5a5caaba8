------------------------------ MODULE Allocator ------------------------------
(***************************************************************************)
(* What kernel/mem/heap.cpp promises to the callers of kmalloc and kfree,  *)
(* and nothing of how it keeps the promise: an extent is handed out only   *)
(* if it lies in the heap and meets no extent that is still live, it stays *)
(* where it is until it is returned, and a call may always be refused.     *)
(***************************************************************************)
EXTENDS Integers

CONSTANTS Lo, Hi,    \* the addresses a heap may ever own: Lo .. Hi - 1
          Sizes,     \* lengths callers may get
          Overhead   \* bytes the allocator keeps in front of each extent

VARIABLE live        \* pointer handed out and not yet returned -> its length

Fits(p, n) == Lo + Overhead <= p /\ p + n <= Hi

\* The extent at p of length n meets neither an extent at q of length m nor
\* the bytes kept in front of that extent, and conversely.
Apart(p, n, q, m) == p + n + Overhead <= q \/ q + m + Overhead <= p

Init == live = [p \in {} |-> 0]

Allocate(p, n) ==
    /\ Fits(p, n)
    /\ \A q \in DOMAIN live : Apart(p, n, q, live[q])
    /\ live' = [q \in DOMAIN live \cup {p} |-> IF q = p THEN n ELSE live[q]]

Release(p) ==
    /\ p \in DOMAIN live
    /\ live' = [q \in DOMAIN live \ {p} |-> live[q]]

Next == \/ \E p \in Lo .. Hi, n \in Sizes : Allocate(p, n)
        \/ \E p \in DOMAIN live : Release(p)

Spec == Init /\ [][Next]_live
==============================================================================
