-------------------------------- MODULE Ata --------------------------------
(***************************************************************************)
(* The disk driver, drivers/blocks/ata/ata_pio.c: ata_init identifies four *)
(* drives on two channels and registers the disks as block devices; then   *)
(* sectors are read and written, one command at a time, by a loop that     *)
(* halts the processor until the interrupt handler has set the channel's   *)
(* flag.                                                                   *)
(*                                                                         *)
(* Three actors interleave: the thread that runs the driver, the drive     *)
(* (external: ready, failing) and the interrupts.  The controller latches   *)
(* the edge of a drive's interrupt, and the processor takes a latched      *)
(* interrupt before its next instruction if interrupts are enabled and the *)
(* controllers' masks let it through.  Nothing in the kernel opens lines   *)
(* 14, 15 and the cascade, 2: the masks are those the boot loader left.    *)
(* The clock's ticks matter only because they end a halt.                  *)
(*                                                                         *)
(* What is moved between a sector and a place of the buffer is kept as the *)
(* sequence moved: the sector that the drive gave to, or took from, the    *)
(* first, the second, ... place; Garbage if it offered none.               *)
(***************************************************************************)
EXTENDS Integers, Sequences

CONSTANTS CountMod,   \* 256: the sector count register is 8 bits wide
          Lbas        \* first sectors of the requests

ASSUME AtaAssumption == CountMod \in Nat \ {0} /\ Lbas \subseteq Nat

Slots    == 0 .. 3                  \* devices[]
Channels == {"primary", "secondary"}
channel(s) == IF s < 2 THEN "primary" ELSE "secondary"

Garbage == -1

VARIABLES kind,       \* what is attached to each slot
          open,       \* channels whose interrupts pass both controllers' masks
          dev,        \* the drive that got the last command
          latched,    \* interrupts the controller holds
          irq_flag,   \* ata_primary_irq and ata_secondary_irq
          enabled,    \* the processor's interrupt flag
          handlers,   \* are the two interrupt handlers registered?
          cpu,        \* "run", "halting" before the hlt, "halted"
          pc, slot,   \* of ata_init
          op,         \* the request: write?, slot, first sector, sectors
          moved,
          devices     \* the block devices registered, by slot

hw_vars == <<dev, latched>>
wired == <<kind, open>>
vars == <<wired, dev, latched, irq_flag, enabled, handlers, cpu, pc, slot, op,
          moved, devices>>

Kinds == {"floating", "none", "atapi", "failing", "disk"}
Idle == [state |-> "idle", cmd |-> "none", slot |-> 0, left |-> 0, next |-> 0]
NoOp == [write |-> FALSE, slot |-> 0, lba |-> 0, count |-> 0]

\* A channel floats or it does not: its two slots share the bus.
Attachments ==
    {k \in [Slots -> Kinds] :
       \A s, t \in Slots :
         (channel(s) = channel(t) /\ k[s] = "floating") => k[t] = "floating"}

\* arch_irq_controller_init writes the boot loader's masks back and ata_init
\* enables no line: any of the channels may be open.
Init ==
    /\ kind \in Attachments /\ open \in SUBSET Channels
    /\ dev = Idle /\ latched = {}
    /\ irq_flag = [c \in Channels |-> FALSE]
    /\ enabled = FALSE /\ handlers = FALSE /\ cpu = "run"
    /\ pc = "identify" /\ slot = 0
    /\ op = NoOp /\ moved = <<>> /\ devices = <<>>
-----------------------------------------------------------------------------
(* The drive and the controller *)

Edge == latched' = latched \cup {channel(dev.slot)}

\* The drive has carried out a command as far as it can go alone; the first
\* sector of a write is asked for without an interrupt.
drive_ready ==
    /\ dev.state = "busy"
    /\ \/ /\ dev.cmd = "identify" /\ Edge
          /\ dev' = [dev EXCEPT !.state =
                       IF kind[dev.slot] = "disk" THEN "drq" ELSE "err"]
       \/ /\ dev.cmd \in {"read", "write"} /\ dev.left > 0 /\ Edge
          /\ dev' = [dev EXCEPT !.state = "drq"]
       \/ /\ dev.cmd = "first" /\ UNCHANGED latched
          /\ dev' = [dev EXCEPT !.state = "drq", !.cmd = "write"]
       \/ /\ dev.cmd = "flush" \/ (dev.cmd = "write" /\ dev.left = 0)
          /\ Edge
          /\ dev' = [dev EXCEPT !.state = "idle"]
    /\ UNCHANGED <<wired, irq_flag, enabled, handlers, cpu, pc, slot, op, moved, devices>>

\* A write fails.
drive_fails ==
    /\ dev.state = "busy" /\ dev.cmd \in {"first", "write"}
    /\ dev' = [dev EXCEPT !.state = "err", !.left = 0]
    /\ Edge
    /\ UNCHANGED <<wired, irq_flag, enabled, handlers, cpu, pc, slot, op, moved, devices>>

Command(c, s, lba, count) ==
    dev' = [state |-> "busy", cmd |-> c, slot |-> s, next |-> lba,
            left |-> IF count % CountMod = 0 THEN CountMod ELSE count % CountMod]

\* The data port: the drive goes on to its next sector, if it offers one.
Transfer ==
    IF dev.state = "drq"
    THEN /\ moved' = Append(moved, dev.next)
         /\ dev' = [dev EXCEPT !.state = IF dev.left = 1 /\ dev.cmd = "read"
                                         THEN "idle" ELSE "busy",
                               !.left = dev.left - 1, !.next = dev.next + 1]
    ELSE /\ moved' = Append(moved, Garbage)
         /\ UNCHANGED dev
-----------------------------------------------------------------------------
(* Interrupts *)

\* The interrupts that the controllers pass on to the processor.
Raised == latched \cap open

Wake == cpu' = IF cpu = "halted" THEN "run" ELSE cpu

\* ata_primary_irq_handler, ata_secondary_irq_handler; before ata_init has
\* registered them irq_handler only acknowledges the interrupt.
ata_irq_handler ==
    /\ enabled
    /\ \E c \in Raised :
         /\ latched' = latched \ {c}
         /\ irq_flag' = IF handlers THEN [irq_flag EXCEPT ![c] = TRUE] ELSE irq_flag
    /\ Wake
    /\ UNCHANGED <<wired, dev, enabled, handlers, pc, slot, op, moved, devices>>

timer_tick ==
    /\ enabled /\ cpu = "halted" /\ Raised = {}
    /\ Wake
    /\ UNCHANGED <<wired, dev, latched, irq_flag, enabled, handlers, pc, slot, op,
                   moved, devices>>
-----------------------------------------------------------------------------
(* The driver's thread *)

Main == cpu = "run" /\ ~(enabled /\ Raised # {})

flag == irq_flag[channel(op.slot)]

NextSlot == slot' = slot + 1 /\ pc' = "identify"

\* ata_identify up to its wait for BSY.  A message on the console, such as
\* the error of a floating bus, leaves interrupts enabled.
ata_identify ==
    /\ Main /\ pc = "identify" /\ slot < 4
    /\ \/ /\ kind[slot] = "floating"
          /\ NextSlot /\ enabled' = TRUE /\ UNCHANGED dev
       \/ /\ kind[slot] = "none"
          /\ NextSlot /\ UNCHANGED <<enabled, dev>>
       \/ /\ kind[slot] \in {"atapi", "failing", "disk"}
          /\ Command("identify", slot, 0, 1)
          /\ pc' = "identified" /\ UNCHANGED <<slot, enabled>>
    /\ UNCHANGED <<wired, latched, irq_flag, handlers, cpu, op, moved, devices>>

\* Variant: the error bit is not looked at.
identified_any ==
    /\ Main /\ pc = "identified" /\ dev.state # "busy"
    /\ NextSlot
    /\ dev' = Idle
    /\ IF kind[slot] # "atapi"
       THEN devices' = Append(devices, slot) /\ enabled' = TRUE
       ELSE UNCHANGED <<devices, enabled>>
    /\ UNCHANGED <<wired, latched, irq_flag, handlers, cpu, op, moved>>
\* The rest: the signature of a device that is no disk, the error bit, or the
\* data of a disk, which becomes a block device.
identified ==
    /\ Main /\ pc = "identified" /\ dev.state # "busy"
    /\ NextSlot
    /\ dev' = Idle
    /\ IF kind[slot] # "atapi" /\ dev.state = "drq"
       THEN devices' = Append(devices, slot) /\ enabled' = TRUE
       ELSE UNCHANGED <<devices, enabled>>
    /\ UNCHANGED <<wired, latched, irq_flag, handlers, cpu, op, moved>>

\* The end of ata_init.
ata_init ==
    /\ Main /\ pc = "identify" /\ slot = 4
    /\ handlers' = TRUE /\ enabled' = TRUE
    /\ irq_flag' = [c \in Channels |-> FALSE]
    /\ pc' = "ready"
    /\ UNCHANGED <<wired, hw_vars, cpu, slot, op, moved, devices>>

\* Variant: the sectors moved before are not forgotten.
request_keep(w, s, lba, count) ==
    /\ Main /\ pc = "ready"
    /\ op' = [write |-> w, slot |-> s, lba |-> lba, count |-> count]
    /\ pc' = "select"
    /\ UNCHANGED <<wired, hw_vars, irq_flag, enabled, handlers, cpu, slot, moved, devices>>
\* ata_read_block or ata_write_block, through a block device.
request(w, s, lba, count) ==
    /\ Main /\ pc = "ready"
    /\ op' = [write |-> w, slot |-> s, lba |-> lba, count |-> count]
    /\ moved' = <<>>
    /\ pc' = "select"
    /\ UNCHANGED <<wired, hw_vars, irq_flag, enabled, handlers, cpu, slot, devices>>

\* The drive is selected, not busy and gets its registers; the flag is reset.
select ==
    /\ Main /\ pc = "select" /\ dev.state # "busy"
    /\ irq_flag' = [irq_flag EXCEPT ![channel(op.slot)] = FALSE]
    /\ pc' = "command"
    /\ UNCHANGED <<wired, hw_vars, enabled, handlers, cpu, slot, op, moved, devices>>

command ==
    /\ Main /\ pc = "command"
    /\ Command(IF op.write THEN "first" ELSE "read", op.slot, op.lba, op.count)
    /\ pc' = IF op.write THEN "drq" ELSE "poll"
    /\ UNCHANGED <<wired, latched, irq_flag, enabled, handlers, cpu, slot, op, moved,
                   devices>>

\* Variant: the flag is reset when the drive is no longer busy.
read_poll_reset ==
    /\ Main /\ pc = "poll" /\ dev.state # "busy"
    /\ irq_flag' = [irq_flag EXCEPT ![channel(op.slot)] = FALSE]
    /\ pc' = "wait"
    /\ UNCHANGED <<wired, hw_vars, enabled, handlers, cpu, slot, op, moved, devices>>
read_poll ==
    /\ Main /\ pc = "poll" /\ dev.state # "busy"
    /\ pc' = "wait"
    /\ UNCHANGED <<wired, hw_vars, irq_flag, enabled, handlers, cpu, slot, op, moved,
                   devices>>

\* A write's wait for DRQ; on an error it returns.
write_poll ==
    /\ Main /\ pc = "drq" /\ dev.state \in {"drq", "err"}
    /\ pc' = IF dev.state = "err" THEN "ready" ELSE "data"
    /\ UNCHANGED <<wired, hw_vars, irq_flag, enabled, handlers, cpu, slot, op, moved,
                   devices>>

\* The flag is not set: the thread is about to halt, and then halts.
wait_halting ==
    /\ Main /\ pc \in {"wait", "flushed"} /\ ~flag
    /\ cpu' = "halting"
    /\ UNCHANGED <<wired, hw_vars, irq_flag, enabled, handlers, pc, slot, op, moved,
                   devices>>

arch_halt ==
    /\ cpu = "halting" /\ Raised = {}
    /\ cpu' = "halted"
    /\ UNCHANGED <<wired, hw_vars, irq_flag, enabled, handlers, pc, slot, op, moved,
                   devices>>

\* Where a wait that has seen the flag goes on.
AfterWait == IF pc = "flushed" THEN "ready"
             ELSE IF ~op.write THEN "data"
             ELSE IF Len(moved) < op.count THEN "drq" ELSE "flush"

\* Variant: the flag stays set.
wait_done_set ==
    /\ Main /\ pc \in {"wait", "flushed"} /\ flag
    /\ pc' = AfterWait
    /\ UNCHANGED <<wired, hw_vars, irq_flag, enabled, handlers, cpu, slot, op, moved,
                   devices>>
wait_done ==
    /\ Main /\ pc \in {"wait", "flushed"} /\ flag
    /\ irq_flag' = [irq_flag EXCEPT ![channel(op.slot)] = FALSE]
    /\ pc' = AfterWait
    /\ UNCHANGED <<wired, hw_vars, enabled, handlers, cpu, slot, op, moved, devices>>

\* Variant: a write does not wait after its last sector but goes on to the flush.
data_hasty ==
    /\ Main /\ pc = "data"
    /\ Transfer
    /\ pc' = IF Len(moved') < op.count THEN "wait"
             ELSE IF op.write THEN "flush" ELSE "ready"
    /\ UNCHANGED <<wired, latched, irq_flag, enabled, handlers, cpu, slot, op, devices>>
\* 256 words.
data ==
    /\ Main /\ pc = "data"
    /\ Transfer
    /\ pc' = IF op.write \/ Len(moved') < op.count THEN "wait" ELSE "ready"
    /\ UNCHANGED <<wired, latched, irq_flag, enabled, handlers, cpu, slot, op, devices>>

flush ==
    /\ Main /\ pc = "flush"
    /\ Command("flush", op.slot, 0, 1)
    /\ pc' = "flushed"
    /\ UNCHANGED <<wired, latched, irq_flag, enabled, handlers, cpu, slot, op, moved,
                   devices>>

Driver == ata_identify \/ identified \/ ata_init \/ select \/ command \/ read_poll
          \/ write_poll \/ wait_halting \/ arch_halt \/ wait_done \/ data \/ flush

Requested ==
    \E w \in BOOLEAN, k \in DOMAIN devices, lba \in Lbas, count \in 1 .. CountMod :
      request(w, devices[k], lba, count)

Next == drive_ready \/ drive_fails \/ ata_irq_handler \/ timer_tick \/ Driver \/ Requested

\* The processor runs, drives answer and the clock ticks.
Spec == /\ Init /\ [][Next]_vars
        /\ WF_vars(Driver) /\ WF_vars(ata_irq_handler)
        /\ WF_vars(drive_ready) /\ WF_vars(timer_tick)
-----------------------------------------------------------------------------
(* Properties *)

TypeOK ==
    /\ kind \in Attachments /\ open \subseteq Channels
    /\ dev.state \in {"idle", "busy", "drq", "err"}
    /\ dev.left \in 0 .. CountMod /\ dev.slot \in Slots
    /\ latched \subseteq Channels /\ irq_flag \in [Channels -> BOOLEAN]
    /\ cpu \in {"run", "halting", "halted"} /\ (cpu # "run" => enabled)
    /\ slot \in 0 .. 4
    /\ Len(moved) <= op.count

\* A sector is moved only when the drive offers it, and the k-th place of the
\* buffer is moved to or from the k-th sector of the request: no interrupt that
\* is late, early or left over from another command makes the driver read the
\* data port too soon (ata_pio.c:288, 304-313, 350-369).
SectorsInOrder == moved = [k \in 1 .. Len(moved) |-> op.lba + k - 1]

\* When the driver has finished a request nothing of it is still to come: the
\* next command finds a drive that is not busy and its flag cannot be set by an
\* interrupt of this one.
QuietWhenReady ==
    (pc = "ready" /\ op # NoOp) =>
      \/ dev.state = "err"
      \/ dev.state = "idle" /\ channel(op.slot) \notin latched /\ ~flag

\* The block devices are the disks, each once, in the order of their slots: a
\* signature, an error or a floating bus of one slot changes nothing for the others
\* (ata_pio.c:114-241).
DisksRegistered ==
    pc \notin {"identify", "identified"} =>
      /\ {devices[k] : k \in DOMAIN devices} = {s \in Slots : kind[s] = "disk"}
      /\ \A j, k \in DOMAIN devices : j < k => devices[j] < devices[k]

\* The driver is the disk it promises to be: every read that returns has moved all its
\* sectors, every write all or up to an error of the drive, and none is moved between
\* requests (ata_pio.c:260-378).
InRequest == pc \notin {"identify", "identified", "ready"}
D == INSTANCE Disk WITH asked <- op, sectors <- moved, busy <- InRequest,
                        refused <- dev.state = "err", Units <- Slots,
                        Counts <- 1 .. CountMod, NoRequest <- NoOp
DiskSpec == D!Spec

\* ata_init ends whatever the masks are, and every request to a channel whose
\* interrupts the controllers pass on returns, though the interrupt may come between
\* the check of the flag and the hlt, and though a write may fail.  On a channel that
\* the boot loader left masked the waits at ata_pio.c:305, 365 and 374 have no end:
\* nothing is promised there.
Returns ==
    (pc \in {"identify", "identified"} \/ (InRequest /\ channel(op.slot) \in open))
      ~> pc = "ready"
=============================================================================
