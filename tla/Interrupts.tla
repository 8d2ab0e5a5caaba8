----------------------------- MODULE Interrupts -----------------------------
(***************************************************************************)
(* Interrupts: cpu/int.cpp and cpu/int_.asm over the two interrupt         *)
(* controllers, arch/x86/interrupts/pic.c, from set_idt in kernel_main on.  *)
(*                                                                         *)
(* irq_handler acknowledges an interrupt before it calls the handler, and  *)
(* each handler acknowledges it again at its end.  The command is the      *)
(* non-specific one: it retires whatever is most urgent among the          *)
(* interrupts in service, not the one it is meant for.  A handler that     *)
(* prints enables interrupts (console_put_char ends with sti), so handlers *)
(* nest; frames is the stack of those that have begun.                     *)
(*                                                                         *)
(* The controllers (external: 8259A, edge-triggered, fully nested) are     *)
(* three sets of lines: requested, in service, masked.  Line 2 of the      *)
(* first is the second one's output.                                       *)
(***************************************************************************)
EXTENDS Integers, Sequences

CONSTANTS Lines,       \* lines that devices raise
          BootMasks,   \* masks the boot loader may leave
          MaxNested    \* handlers that interrupt each other, a bound of the model

Master  == 0 .. 7
Slave   == 8 .. 15
Cascade == 2

ASSUME InterruptsAssumption ==
    /\ Lines \subseteq (Master \cup Slave) \ {Cascade}
    /\ BootMasks \subseteq SUBSET (Master \cup Slave)
    /\ MaxNested \in Nat \ {0}

VARIABLES irr, isr, imr,  \* of the controllers
          enabled,        \* the processor's interrupt flag
          frames,         \* handlers that have begun, the running one last
          interrupt_handlers, \* lines with a registered handler
          pc, mask        \* of kernel_main; a mask read and not yet written

pic_vars    == <<irr, isr, imr>>
thread_vars == <<interrupt_handlers, pc, mask>>
vars == <<pic_vars, enabled, frames, thread_vars>>

TIMER == 0
KEYBOARD == 1
ATA_PRIMARY == 14
ATA_SECONDARY == 15

Init ==
    /\ irr \in SUBSET Lines /\ isr = {} /\ imr \in BootMasks
    /\ enabled = FALSE /\ frames = <<>>
    /\ interrupt_handlers = {} /\ pc = "set_idt" /\ mask = {}
-----------------------------------------------------------------------------
(* The controllers *)

\* The lowest number is the most urgent.
First(S) == {i \in S : \A j \in S : i <= j}

SlaveRequests ==
    {i \in (irr \cap Slave) \ imr : \A j \in isr \cap Slave : i < j}
MasterRequests ==
    {i \in Master \ imr :
       /\ i \in irr \/ (i = Cascade /\ SlaveRequests # {})
       /\ \A j \in isr \cap Master : i < j}

\* Variant: a slave's interrupt is acknowledged at the slave only.
Acknowledged_slave(irq, serving) ==
    serving \ (IF irq >= 8 THEN First(serving \cap Slave) ELSE First(serving \cap Master))
\* Variant: the slave is never told.
Acknowledged_master(irq, serving) == serving \ First(serving \cap Master)
\* arch_irq_send_eoi: what stays in service.  The disk handlers pass the vector,
\* 46 or 47, for the line, which is also 8 or more.
Acknowledged(irq, serving) ==
    serving \ (First(serving \cap Master)
               \cup (IF irq >= 8 THEN First(serving \cap Slave) ELSE {}))

\* A device's edge is latched, masked or not.
raise(l) ==
    /\ l \notin irr
    /\ irr' = irr \cup {l}
    /\ UNCHANGED <<isr, imr, enabled, frames, thread_vars>>

Begin(irq) ==
    /\ enabled /\ Len(frames) < MaxNested
    /\ frames' = Append(frames, [irq |-> irq, at |-> "entry"])
    /\ enabled' = FALSE

\* The processor takes the most urgent request.
accept ==
    \E i \in First(MasterRequests) :
      /\ \/ /\ i # Cascade
            /\ Begin(i)
            /\ irr' = irr \ {i} /\ isr' = isr \cup {i}
         \/ /\ i = Cascade
            /\ \E s \in First(SlaveRequests) :
                 /\ Begin(s)
                 /\ irr' = irr \ {s} /\ isr' = isr \cup {Cascade, s}
      /\ UNCHANGED <<imr, thread_vars>>

\* A request that is withdrawn while it is taken, no other being there to take its
\* place: its controller answers with its last line and puts nothing in service.
spurious ==
    /\ \/ MasterRequests = {} /\ Begin(7) /\ UNCHANGED isr
       \/ /\ Cascade \notin imr
          /\ \A i \in MasterRequests \cup (isr \cap Master) : i > Cascade
          /\ Begin(15)
          /\ isr' = isr \cup {Cascade}
    /\ UNCHANGED <<irr, imr, thread_vars>>
-----------------------------------------------------------------------------
(* irq_common_stub and irq_handler *)

\* An interrupt that can be taken is taken before the next instruction.
Runs == ~(enabled /\ MasterRequests # {} /\ Len(frames) < MaxNested)

Top == frames[Len(frames)]
Handling(at) == frames # <<>> /\ Top.at = at /\ Runs
Goto(at) == frames' = [frames EXCEPT ![Len(frames)].at = at]

\* keyboard_handler is called without having been registered.
Handled(irq) == irq \in interrupt_handlers \cup {KEYBOARD}

\* Variant: the handler's own acknowledgement is left to do it.
irq_handler_late ==
    /\ Handling("entry")
    /\ UNCHANGED isr
    /\ Goto(IF Handled(Top.irq) THEN "handler" ELSE "iret")
    /\ UNCHANGED <<irr, imr, enabled, thread_vars>>
irq_handler ==
    /\ Handling("entry")
    /\ isr' = Acknowledged(Top.irq, isr)
    /\ Goto(IF Handled(Top.irq) THEN "handler" ELSE "iret")
    /\ UNCHANGED <<irr, imr, enabled, thread_vars>>

\* The disks' handlers print; of the others a key may be echoed, a timer's callback
\* may print.
MustPrint(irq) == irq \in {ATA_PRIMARY, ATA_SECONDARY}

handler ==
    /\ Handling("handler")
    /\ enabled' \in {enabled, TRUE}
    /\ MustPrint(Top.irq) => enabled'
    /\ Goto("eoi")
    /\ UNCHANGED <<pic_vars, thread_vars>>

\* arch_timer_eoi, and the last lines of keyboard_handler and the disks' handlers.
handler_eoi ==
    /\ Handling("eoi")
    /\ isr' = Acknowledged(Top.irq, isr)
    /\ Goto("iret")
    /\ UNCHANGED <<irr, imr, enabled, thread_vars>>

\* What was interrupted had interrupts enabled.
iret ==
    /\ Handling("iret")
    /\ frames' = SubSeq(frames, 1, Len(frames) - 1)
    /\ enabled' = TRUE
    /\ UNCHANGED <<pic_vars, thread_vars>>

Handlers == irq_handler \/ handler \/ handler_eoi \/ iret
-----------------------------------------------------------------------------
(* kernel_main *)

Thread(at) == frames = <<>> /\ pc = at /\ Runs

\* Both controllers are reset, and the masks that were read before written back.
arch_irq_controller_init == irr' = {} /\ isr' = {} /\ UNCHANGED imr

\* No handler is registered, and interrupts are enabled.
set_idt ==
    /\ Thread("set_idt")
    /\ interrupt_handlers' = {}
    /\ arch_irq_controller_init
    /\ enabled' = TRUE
    /\ pc' = "init_keyboard"
    /\ UNCHANGED <<frames, mask>>

\* A mask is read, and written with one bit cleared: interrupts may come between.
read_mask(at, next) ==
    /\ Thread(at)
    /\ mask' = imr \cap Master
    /\ pc' = next
    /\ UNCHANGED <<pic_vars, enabled, frames, interrupt_handlers>>

\* Variant: the other bits are not those that were read.
write_mask_alone(at, next, line) ==
    /\ Thread(at)
    /\ imr' = (imr \cap Slave) \cup (Master \ {line})
    /\ pc' = next
    /\ UNCHANGED <<irr, isr, enabled, frames, interrupt_handlers, mask>>
write_mask(at, next, line) ==
    /\ Thread(at)
    /\ imr' = (imr \cap Slave) \cup (mask \ {line})
    /\ pc' = next
    /\ UNCHANGED <<irr, isr, enabled, frames, interrupt_handlers, mask>>

init_keyboard ==
    \/ read_mask("init_keyboard", "keyboard_mask")
    \/ write_mask("keyboard_mask", "init_clock", KEYBOARD)

\* init_clock registers its handler first, then enables its line.
init_clock ==
    \/ /\ Thread("init_clock")
       /\ interrupt_handlers' = interrupt_handlers \cup {TIMER}
       /\ pc' = "timer_enable"
       /\ UNCHANGED <<pic_vars, enabled, frames, mask>>
    \/ read_mask("timer_enable", "timer_mask")
    \/ write_mask("timer_mask", "ata_init", TIMER)

\* ata_init disables interrupts; the first message enables them again.
ata_init ==
    \/ /\ Thread("ata_init")
       /\ enabled' = FALSE
       /\ pc' = "ata_identify"
       /\ UNCHANGED <<pic_vars, frames, interrupt_handlers, mask>>
    \/ /\ Thread("ata_identify")
       /\ enabled' \in {enabled, TRUE}
       /\ pc' = "ata_register"
       /\ UNCHANGED <<pic_vars, frames, interrupt_handlers, mask>>
    \/ /\ Thread("ata_register")
       /\ interrupt_handlers' = interrupt_handlers \cup {ATA_PRIMARY, ATA_SECONDARY}
       /\ enabled' = TRUE
       /\ pc' = "run"
       /\ UNCHANGED <<pic_vars, frames, mask>>

\* console_put_char, called by the thread.
console_put_char ==
    \/ /\ Thread("run")
       /\ enabled' = FALSE
       /\ pc' = "put"
       /\ UNCHANGED <<pic_vars, frames, interrupt_handlers, mask>>
    \/ /\ Thread("put")
       /\ enabled' = TRUE
       /\ pc' = "run"
       /\ UNCHANGED <<pic_vars, frames, interrupt_handlers, mask>>

KernelMain == set_idt \/ init_keyboard \/ init_clock \/ ata_init \/ console_put_char

Next == \/ \E l \in Lines : raise(l)
        \/ accept \/ spurious
        \/ Handlers \/ KernelMain

\* The processor goes on; devices need not raise anything.
Spec == Init /\ [][Next]_vars /\ WF_vars(accept \/ Handlers \/ KernelMain)
-----------------------------------------------------------------------------
(* Properties *)

Points == {"set_idt", "init_keyboard", "keyboard_mask", "init_clock",
           "timer_enable", "timer_mask", "ata_init", "ata_identify",
           "ata_register", "run", "put"}

\* A handler that has begun, and how far it is.
Frame == [irq : Master \cup Slave, at : {"entry", "handler", "eoi", "iret"}]

TypeOK ==
    /\ irr \subseteq Lines /\ isr \subseteq Master \cup Slave
    /\ imr \subseteq Master \cup Slave /\ mask \subseteq Master
    /\ enabled \in BOOLEAN
    /\ frames \in Seq(Frame)
    /\ Len(frames) <= MaxNested
    /\ interrupt_handlers \subseteq {TIMER, ATA_PRIMARY, ATA_SECONDARY}
    /\ pc \in Points

\* Whenever the processor can be interrupted, no interrupt is in service: none
\* is held back by a less urgent one whose handler is interrupted, however deep
\* handlers nest and whatever they acknowledge twice (int.cpp:72-86).
NoneInService == enabled => isr = {}

\* An acknowledgement ends the service of the interrupt whose handler sends it,
\* or of none: the second one of each handler finds nothing to retire, though
\* other interrupts have come in between (clock.cpp:46, keyboard.cpp:94,
\* ata_pio.c:384 and 391).
OwnEoi ==
    [][ (isr' # isr /\ isr' \subseteq isr) =>
          \/ pc = "set_idt"
          \/ /\ Top.at = "entry"
             /\ isr \subseteq {Top.irq, Cascade}
             /\ isr' = {} ]_vars

\* The lines that are not masked at both controllers they pass.
Open(l) == l \notin imr /\ (l \in Slave => Cascade \notin imr)

Booted == {"ata_init", "ata_identify", "ata_register", "run", "put"}

\* The keyboard and the clock stay enabled once they are, and otherwise the masks
\* are what the boot loader left: nothing else is opened or closed, though masks are
\* read and written in two steps (keyboard.cpp:47-49, pic.c:79-81).
LinesStayOpen ==
    /\ pc \notin {"set_idt", "init_keyboard", "keyboard_mask"} => Open(KEYBOARD)
    /\ pc \in Booted => \E m \in BootMasks : imr = m \ {KEYBOARD, TIMER}

\* The second controller's lines come in at the cascade, before lines 3 to 7.
Pin(l) == IF l \in Slave THEN Cascade ELSE l
MoreUrgent(k, l) == Pin(k) < Pin(l) \/ (Pin(k) = Pin(l) /\ k < l)

\* A handler of a more urgent line begins; a spurious interrupt of the second
\* controller comes as line 15.
Overtaken(l) ==
    frames # <<>> /\ Top.at = "entry" /\ MoreUrgent(Top.irq, l)

\* A request on an open line is taken in the end, unless more urgent ones are taken
\* again and again: no acknowledgement that is missing or that is sent to one
\* controller only blocks it (pic.c:56-64, int.cpp:72-86).
LinesServed ==
    \A l \in Lines : <>[](l \in irr /\ Open(l)) => []<>Overtaken(l)
=============================================================================
