-------------------------------- MODULE Disk --------------------------------
(***************************************************************************)
(* What the block devices of ata_pio.c promise: one request at a time, its *)
(* sectors moved one by one and in order.  A read is over with its last    *)
(* sector; a write when the drive has them all or reports an error, and to *)
(* a drive that reports one nothing more is moved.                         *)
(***************************************************************************)
EXTENDS Integers, Sequences

CONSTANTS Units, Lbas, Counts,
          NoRequest   \* before the first

VARIABLES asked,      \* what was asked for last
          sectors,    \* the sectors moved for it, by place in the buffer
          busy,       \* it has not returned yet
          refused     \* the error bit of the drive

disk_vars == <<asked, sectors, busy, refused>>

Requests == [write : BOOLEAN, slot : Units, lba : Lbas, count : Counts]

Init == asked = NoRequest /\ sectors = <<>> /\ ~busy /\ refused \in BOOLEAN

Begin(r) ==
    /\ ~busy /\ busy' = TRUE
    /\ asked' = r /\ sectors' = <<>>
    /\ UNCHANGED refused

Move ==
    /\ busy /\ ~refused /\ Len(sectors) < asked.count
    /\ sectors' = Append(sectors, asked.lba + Len(sectors))
    /\ busy' = (asked.write \/ Len(sectors') < asked.count)
    /\ UNCHANGED <<asked, refused>>

EndWrite ==
    /\ busy /\ asked.write
    /\ refused \/ Len(sectors) = asked.count
    /\ busy' = FALSE
    /\ UNCHANGED <<asked, sectors, refused>>

\* The drive sets its error bit, but not while it is read, and a command clears it.
Status ==
    /\ refused' = ~refused
    /\ refused' => ~busy \/ asked.write
    /\ UNCHANGED <<asked, sectors, busy>>

Next == (\E r \in Requests : Begin(r)) \/ Move \/ EndWrite \/ Status

Spec == Init /\ [][Next]_disk_vars
=============================================================================
