-------------------------- MODULE InterruptsProofs --------------------------
(***************************************************************************)
(* Acknowledging every interrupt twice is harmless, for every set of       *)
(* lines, every masks at boot and every depth of nesting.                  *)
(***************************************************************************)
EXTENDS Interrupts, SequenceTheorems, TLAPS

\* The running handler has not sent its first acknowledgement.
AtEntry == frames # <<>> /\ Top.at = "entry"

\* What is in service for an interrupt: its line, the cascade with it if it is of
\* the second controller, and for a spurious one at most the cascade.
ServiceOf(irq) ==
    IF irq \in Slave THEN {{Cascade, irq}} \cup (IF irq = 15 THEN {{Cascade}} ELSE {})
    ELSE {{irq}} \cup (IF irq = 7 THEN {{}} ELSE {})

\* Something is in service only until the running handler's first acknowledgement,
\* and until then interrupts are disabled; all interrupted handlers are past theirs.
Served ==
    /\ AtEntry => ~enabled /\ isr \in ServiceOf(Top.irq) /\ (Top.irq # Cascade)
    /\ ~AtEntry => isr = {}
    /\ \A k \in 1 .. Len(frames) - 1 : frames[k].at # "entry"

Inv == TypeOK /\ Served

\* Nothing is the most urgent of nothing.
LEMMA FirstOfNone == First({}) = {}
  BY DEF First

\* The only one is the most urgent one.
LEMMA FirstOfOne ==
  ASSUME NEW i \in Int
  PROVE  First({i}) = {i}
  BY DEF First

\* One acknowledgement ends the service of the interrupt it is meant for.
LEMMA OneIsEnough ==
  ASSUME NEW irq \in Master \cup Slave, irq # Cascade, NEW serving \in ServiceOf(irq)
  PROVE  Acknowledged(irq, serving) = {} /\ serving \subseteq {irq, Cascade}
<1> USE DEF Master, Slave, Cascade
<1>1. CASE irq \in Slave
  <2>1. serving \cap Master = {Cascade} /\ irq >= 8
    BY <1>1 DEF ServiceOf
  <2>2. serving \cap Slave = serving \ {Cascade}
        /\ (serving \cap Slave = {irq} \/ serving \cap Slave = {})
    BY <1>1 DEF ServiceOf
  <2>3. First(serving \cap Slave) = serving \cap Slave
    BY <2>2, FirstOfOne, FirstOfNone
  <2>4. First(serving \cap Master) = {Cascade}
    BY <2>1, FirstOfOne
  <2>5. serving \subseteq {irq, Cascade}
    BY <1>1 DEF ServiceOf
  <2> QED BY <2>1, <2>2, <2>3, <2>4, <2>5 DEF Acknowledged
<1>2. CASE irq \notin Slave
  <2>1. serving \cap Master = serving /\ (serving = {irq} \/ serving = {}) /\ ~(irq >= 8)
    <3>1. irq \in Master /\ ~(irq >= 8)
      BY <1>2
    <3>2. serving = {irq} \/ serving = {}
      BY <1>2 DEF ServiceOf
    <3> QED BY <3>1, <3>2
  <2>2. First(serving) = serving
    BY <2>1, FirstOfOne, FirstOfNone
  <2> QED BY <2>1, <2>2 DEF Acknowledged
<1> QED BY <1>1, <1>2

\* A second acknowledgement finds nothing to retire.
LEMMA SecondFindsNothing ==
  ASSUME NEW irq
  PROVE  Acknowledged(irq, {}) = {}
  BY DEF Acknowledged

\* What becomes of the stack when the running handler moves on.
LEMMA StackGoesOn ==
  ASSUME frames \in Seq(Frame), frames # <<>>,
         NEW at \in {"entry", "handler", "eoi", "iret"}, Goto(at)
  PROVE  /\ frames' \in Seq(Frame) /\ Len(frames') = Len(frames) /\ frames' # <<>>
         /\ Top'.at = at /\ Top'.irq = Top.irq
         /\ \A k \in 1 .. Len(frames) - 1 : frames'[k] = frames[k]
<1>1. Len(frames) \in Nat \ {0} /\ Top \in Frame
  BY EmptySeq, LenProperties, ElementOfSeq DEF Top
<1>2. frames' = [frames EXCEPT ![Len(frames)].at = at]
  BY DEF Goto
<1>3. [Top EXCEPT !.at = at] \in Frame
  BY <1>1 DEF Frame
<1>4. frames' = [frames EXCEPT ![Len(frames)] = [Top EXCEPT !.at = at]]
  BY <1>2 DEF Top
<1>5. frames' \in Seq(Frame) /\ Len(frames') = Len(frames)
      /\ \A k \in 1 .. Len(frames) : frames'[k] = IF k = Len(frames) THEN [Top EXCEPT !.at = at] ELSE frames[k]
  BY <1>1, <1>3, <1>4, ExceptSeq
<1>6. Top' = [Top EXCEPT !.at = at]
  BY <1>1, <1>5 DEF Top
<1> QED BY <1>1, <1>3, <1>5, <1>6 DEF Frame

\* What becomes of it when an interrupt is taken.
LEMMA StackGrows ==
  ASSUME frames \in Seq(Frame), NEW irq \in Master \cup Slave, Begin(irq)
  PROVE  /\ frames' \in Seq(Frame) /\ Len(frames') = Len(frames) + 1 /\ frames' # <<>>
         /\ Top'.at = "entry" /\ Top'.irq = irq
         /\ \A k \in 1 .. Len(frames) : frames'[k] = frames[k]
<1> DEFINE f == [irq |-> irq, at |-> "entry"]
<1>1. f \in Frame /\ frames' = Append(frames, f)
  BY DEF Begin, Frame
<1>2. frames' \in Seq(Frame) /\ Len(frames') = Len(frames) + 1 /\ frames'[Len(frames) + 1] = f
      /\ \A k \in 1 .. Len(frames) : frames'[k] = frames[k]
  BY <1>1
<1>3. frames' # <<>>
  BY <1>2
<1> QED BY <1>2, <1>3 DEF Top

\* And when a handler returns.
LEMMA StackShrinks ==
  ASSUME frames \in Seq(Frame), frames # <<>>,
         frames' = SubSeq(frames, 1, Len(frames) - 1)
  PROVE  /\ frames' \in Seq(Frame) /\ Len(frames') = Len(frames) - 1
         /\ \A k \in 1 .. Len(frames) - 1 : frames'[k] = frames[k]
<1>1. frames # << >> => Len(frames) \in Nat \ {0}
  BY EmptySeq
<1>2. PICK n \in Nat : n = Len(frames) - 1
  BY <1>1
<1>3. \A i \in 1 .. n : frames[i] \in Frame
  BY <1>2, ElementOfSeq
<1>4. PICK s : s = SubSeq(frames, 1, n)
  OBVIOUS
<1>5. /\ s \in Seq(Frame)
      /\ Len(s) = IF 1 <= n THEN n - 1 + 1 ELSE 0
      /\ \A i \in 1 .. n - 1 + 1 : s[i] = frames[1 + i - 1]
  BY <1>2, <1>3, <1>4, SubSeqProperties
<1>6. n - 1 + 1 = n /\ \A i \in 1 .. n : 1 + i - 1 = i
  OBVIOUS
<1>7. Len(s) = n
  BY <1>5, <1>6
<1>8. \A k \in 1 .. n : s[k] = frames[k]
  BY <1>5, <1>6
<1>9. frames' = s
  BY <1>2, <1>4
<1> QED BY <1>2, <1>5, <1>7, <1>8, <1>9
-----------------------------------------------------------------------------
\* Before set_idt nothing is in service and nothing runs.
LEMMA Initially == Init => Inv
<1> SUFFICES ASSUME Init PROVE Inv
  OBVIOUS
<1>1. frames \in Seq(Frame) /\ Len(frames) = 0 /\ ~AtEntry
  BY DEF Init, AtEntry
<1>2. TypeOK
  <2>1. irr \subseteq Lines /\ imr \subseteq Master \cup Slave
    BY InterruptsAssumption DEF Init
  <2>2. 0 <= MaxNested
    BY InterruptsAssumption
  <2> QED BY <1>1, <2>1, <2>2 DEF Init, TypeOK, Points
<1> QED BY <1>1, <1>2 DEF Init, Inv, Served

\* A device's edge.
LEMMA RaiseKeeps ==
  ASSUME Inv, NEW l \in Lines, raise(l)
  PROVE  Inv'
  BY DEF Inv, TypeOK, Served, AtEntry, Top, raise, thread_vars

\* An interrupt is taken: nothing was in service.
LEMMA TakenKeeps ==
  ASSUME Inv, NEW irq \in Master \cup Slave, irq # Cascade, Begin(irq),
         isr' \in ServiceOf(irq), irr' \subseteq irr, UNCHANGED <<imr, thread_vars>>
  PROVE  Inv'
<1>1. frames \in Seq(Frame) /\ ~AtEntry /\ isr = {}
  BY DEF Inv, TypeOK, Served, Begin
<1>2. /\ frames' \in Seq(Frame) /\ Len(frames') = Len(frames) + 1 /\ frames' # <<>>
      /\ Top'.at = "entry" /\ Top'.irq = irq
      /\ \A k \in 1 .. Len(frames) : frames'[k] = frames[k]
  BY <1>1, StackGrows
<1>3. isr' \subseteq Master \cup Slave
  BY DEF ServiceOf, Master, Slave, Cascade
<1>4. enabled' = FALSE /\ Len(frames) < MaxNested /\ Len(frames) \in Nat
  BY <1>1 DEF Begin
<1>5. TypeOK'
  <2>1. Len(frames') <= MaxNested
    BY <1>2, <1>4, InterruptsAssumption
  <2>2. irr' \subseteq Lines /\ imr' \subseteq Master \cup Slave /\ mask' \subseteq Master
        /\ interrupt_handlers' \subseteq {TIMER, ATA_PRIMARY, ATA_SECONDARY} /\ pc' \in Points
    BY DEF Inv, TypeOK, thread_vars
  <2> QED BY <1>2, <1>3, <1>4, <2>1, <2>2 DEF TypeOK
<1>6. \A k \in 1 .. Len(frames) : frames[k].at # "entry"
  BY <1>1, <1>4, EmptySeq DEF Inv, Served, AtEntry, Top
<1>7. Served'
  BY <1>2, <1>4, <1>6 DEF Served, AtEntry
<1> QED BY <1>5, <1>7 DEF Inv

\* accept takes one line, of the first controller or of the second.
LEMMA AcceptTakes ==
  ASSUME Inv, accept
  PROVE  \E irq \in Master \cup Slave :
           /\ irq # Cascade /\ Begin(irq) /\ isr' \in ServiceOf(irq)
           /\ irr' \subseteq irr /\ UNCHANGED <<imr, thread_vars>>
<1>1. isr = {}
  BY DEF accept, Begin, Inv, Served
<1>2. PICK i \in First(MasterRequests) :
        /\ \/ /\ i # Cascade
              /\ Begin(i)
              /\ irr' = irr \ {i} /\ isr' = isr \cup {i}
           \/ /\ i = Cascade
              /\ \E s \in First(SlaveRequests) :
                   /\ Begin(s)
                   /\ irr' = irr \ {s} /\ isr' = isr \cup {Cascade, s}
        /\ UNCHANGED <<imr, thread_vars>>
  BY DEF accept
<1>3. i \in Master
  BY DEF First, MasterRequests
<1>4. CASE i # Cascade
  BY <1>1, <1>2, <1>3, <1>4 DEF ServiceOf, Master, Slave
<1>5. CASE i = Cascade
  <2>1. PICK s \in First(SlaveRequests) :
          Begin(s) /\ irr' = irr \ {s} /\ isr' = isr \cup {Cascade, s}
    BY <1>2, <1>5
  <2>2. s \in Slave /\ s # Cascade
    BY DEF First, SlaveRequests, Slave, Cascade
  <2> QED BY <1>1, <1>2, <2>1, <2>2 DEF ServiceOf
<1> QED BY <1>4, <1>5

\* A spurious one is taken like any other.
LEMMA SpuriousTakes ==
  ASSUME Inv, spurious
  PROVE  \E irq \in Master \cup Slave :
           /\ irq # Cascade /\ Begin(irq) /\ isr' \in ServiceOf(irq)
           /\ irr' \subseteq irr /\ UNCHANGED <<imr, thread_vars>>
<1>1. isr = {}
  BY DEF spurious, Begin, Inv, Served
<1> QED BY <1>1 DEF spurious, ServiceOf, Master, Slave, Cascade

\* The first acknowledgement, with which the handler is left alone.
LEMMA FirstEoiKeeps ==
  ASSUME Inv, irq_handler
  PROVE  Inv' /\ isr' = {} /\ AtEntry /\ isr \subseteq {Top.irq, Cascade}
<1>1. frames \in Seq(Frame) /\ frames # <<>> /\ AtEntry /\ Len(frames) \in Nat \ {0}
  BY EmptySeq DEF Inv, TypeOK, irq_handler, Handling, AtEntry
<1>2. PICK at \in {"handler", "iret"} : Goto(at)
  BY DEF irq_handler
<1>3. /\ frames' \in Seq(Frame) /\ Len(frames') = Len(frames) /\ frames' # <<>>
      /\ Top'.at = at /\ Top'.irq = Top.irq
      /\ \A k \in 1 .. Len(frames) - 1 : frames'[k] = frames[k]
  BY <1>1, <1>2, StackGoesOn
<1>4. Top.irq \in Master \cup Slave /\ Top.irq # Cascade /\ isr \in ServiceOf(Top.irq)
  <2>1. Top \in Frame
    BY <1>1, LenProperties, ElementOfSeq DEF Top
  <2> QED BY <1>1, <2>1 DEF Inv, Served, Frame
<1>5. isr' = {} /\ isr \subseteq {Top.irq, Cascade}
  BY <1>4, OneIsEnough DEF irq_handler
<1>6. TypeOK'
  BY <1>3, <1>5 DEF Inv, TypeOK, irq_handler, thread_vars
<1>7. Served'
  BY <1>1, <1>2, <1>3, <1>5 DEF Inv, Served, AtEntry
<1> QED BY <1>1, <1>5, <1>6, <1>7 DEF Inv

\* The rest of a handler finds nothing in service, and leaves it so.
LEMMA HandlerKeeps ==
  ASSUME Inv, handler \/ handler_eoi \/ iret
  PROVE  Inv' /\ isr' = isr
<1>1. frames \in Seq(Frame) /\ frames # <<>> /\ ~AtEntry /\ isr = {}
      /\ Len(frames) \in Nat \ {0}
  BY EmptySeq
     DEF Inv, TypeOK, Served, handler, handler_eoi, iret, Handling, AtEntry
<1>2. isr' = {} /\ enabled' \in BOOLEAN /\ UNCHANGED <<irr, imr, thread_vars>>
  BY <1>1, SecondFindsNothing
     DEF handler, handler_eoi, iret, pic_vars, Inv, TypeOK
<1>3. CASE handler \/ handler_eoi
  <2>1. PICK at \in {"eoi", "iret"} : Goto(at)
    BY <1>3 DEF handler, handler_eoi
  <2>2. /\ frames' \in Seq(Frame) /\ Len(frames') = Len(frames) /\ frames' # <<>>
        /\ Top'.at = at
        /\ \A k \in 1 .. Len(frames) - 1 : frames'[k] = frames[k]
    BY <1>1, <2>1, StackGoesOn
  <2>3. TypeOK'
    BY <1>2, <2>2 DEF Inv, TypeOK, thread_vars
  <2>4. Served'
    BY <1>1, <1>2, <2>1, <2>2 DEF Inv, Served, AtEntry
  <2> QED BY <1>1, <1>2, <2>3, <2>4 DEF Inv
<1>4. CASE iret
  <2>1. /\ frames' \in Seq(Frame) /\ Len(frames') = Len(frames) - 1
        /\ \A k \in 1 .. Len(frames) - 1 : frames'[k] = frames[k]
    BY <1>1, <1>4, StackShrinks DEF iret
  <2>2. TypeOK'
    <3>1. Len(frames') <= MaxNested
      BY <1>1, <2>1, InterruptsAssumption DEF Inv, TypeOK
    <3>2. irr' \subseteq Lines /\ imr' \subseteq Master \cup Slave /\ mask' \subseteq Master
          /\ interrupt_handlers' \subseteq {TIMER, ATA_PRIMARY, ATA_SECONDARY} /\ pc' \in Points
      BY <1>2 DEF Inv, TypeOK, thread_vars
    <3> QED BY <1>2, <2>1, <3>1, <3>2 DEF TypeOK
  <2>3. ~AtEntry'
    BY <1>1, <2>1, EmptySeq DEF Inv, Served, AtEntry, Top
  <2>4. Served'
    BY <1>1, <1>2, <2>1, <2>3 DEF Inv, Served
  <2> QED BY <1>1, <1>2, <2>2, <2>4 DEF Inv
<1> QED BY <1>3, <1>4

\* kernel_main runs while no handler does.
LEMMA MainKeeps ==
  ASSUME Inv, KernelMain
  PROVE  Inv' /\ (isr' # isr => pc = "set_idt")
<1> USE DEF Inv, TypeOK, Points
<1>1. frames = <<>> /\ frames' = frames /\ isr = {} /\ ~AtEntry
  BY DEF KernelMain, set_idt, init_keyboard, init_clock, ata_init, console_put_char,
         read_mask, write_mask, Thread, AtEntry, Served
<1>2. isr' = {}
  BY <1>1 DEF KernelMain, set_idt, arch_irq_controller_init, init_keyboard, init_clock,
              ata_init, console_put_char, read_mask, write_mask, pic_vars
<1>3. Served'
  BY <1>1, <1>2 DEF Served, AtEntry, Top
<1>4. CASE set_idt
  BY <1>1, <1>2, <1>3, <1>4 DEF set_idt, arch_irq_controller_init
<1>5. CASE init_keyboard
  BY <1>1, <1>2, <1>3, <1>5 DEF init_keyboard, read_mask, write_mask, pic_vars
<1>6. CASE init_clock
  BY <1>1, <1>2, <1>3, <1>6 DEF init_clock, read_mask, write_mask, pic_vars
<1>7. CASE ata_init
  BY <1>1, <1>2, <1>3, <1>7 DEF ata_init, pic_vars
<1>8. CASE console_put_char
  BY <1>1, <1>2, <1>3, <1>8 DEF console_put_char, pic_vars
<1> QED BY <1>1, <1>2, <1>4, <1>5, <1>6, <1>7, <1>8 DEF KernelMain
-----------------------------------------------------------------------------
\* An interrupt that is taken adds to what is in service.
LEMMA TakingAdds ==
  ASSUME accept \/ spurious
  PROVE  isr \subseteq isr' /\ UNCHANGED <<imr, thread_vars>>
  BY DEF accept, spurious

\* Every step keeps the invariant, and what leaves service leaves it by the running
\* handler's first acknowledgement, or by the controllers' reset.
LEMMA Inductive ==
  ASSUME Inv, [Next]_vars
  PROVE  /\ Inv'
         /\ (isr' # isr /\ isr' \subseteq isr) =>
              \/ pc = "set_idt"
              \/ Top.at = "entry" /\ isr \subseteq {Top.irq, Cascade} /\ isr' = {}
<1>1. CASE \E l \in Lines : raise(l)
  BY <1>1, RaiseKeeps DEF raise
<1>2. CASE accept
  BY <1>2, AcceptTakes, TakenKeeps, TakingAdds
<1>3. CASE spurious
  BY <1>3, SpuriousTakes, TakenKeeps, TakingAdds
<1>4. CASE irq_handler
  BY <1>4, FirstEoiKeeps DEF AtEntry
<1>5. CASE handler \/ handler_eoi \/ iret
  BY <1>5, HandlerKeeps
<1>6. CASE KernelMain
  BY <1>6, MainKeeps
<1>7. CASE UNCHANGED vars
  BY <1>7 DEF vars, pic_vars, thread_vars, Inv, TypeOK, Served, AtEntry, Top
<1> QED BY <1>1, <1>2, <1>3, <1>4, <1>5, <1>6, <1>7 DEF Next, Handlers

\* The state of the controllers, of the processor and of kernel_main is always of
\* its type, and handlers nest no deeper than MaxNested.
THEOREM TypeCorrect == Spec => []TypeOK
<1>1. Init => Inv
  BY Initially
<1>2. Inv /\ [Next]_vars => Inv'
  BY Inductive
<1>3. Inv => TypeOK
  BY DEF Inv
<1> QED BY <1>1, <1>2, <1>3, PTL DEF Spec

\* Whatever interrupts whatever and however often it is acknowledged, nothing is in
\* service while interrupts are enabled: no handler that is interrupted holds back a
\* less urgent line (int.cpp:72-86).
THEOREM NoneHeldBack == Spec => []NoneInService
<1>1. Init => Inv
  BY Initially
<1>2. Inv /\ [Next]_vars => Inv'
  BY Inductive
<1>3. Inv => NoneInService
  BY DEF Inv, Served, NoneInService
<1> QED BY <1>1, <1>2, <1>3, PTL DEF Spec

\* The second acknowledgement of a handler never retires an interrupt that came in
\* between: what leaves service is the interrupt of the handler that is at its first
\* one (int.cpp:75, clock.cpp:46, keyboard.cpp:94).
THEOREM EoisAreOwn == Spec => OwnEoi
<1> DEFINE Own == (isr' # isr /\ isr' \subseteq isr) =>
                    \/ pc = "set_idt"
                    \/ Top.at = "entry" /\ isr \subseteq {Top.irq, Cascade} /\ isr' = {}
<1>1. Init => Inv
  BY Initially
<1>2. Inv /\ [Next]_vars => Inv'
  BY Inductive
<1>3. Inv /\ [Next]_vars => [Own]_vars
  BY Inductive
<1> QED BY <1>1, <1>2, <1>3, PTL DEF Spec, OwnEoi
-----------------------------------------------------------------------------
\* What the masks are at each point of kernel_main, and that a mask which was read
\* is still the one to be written.
Masks ==
    /\ pc \in {"set_idt", "init_keyboard", "keyboard_mask"} => imr \in BootMasks
    /\ pc \in {"init_clock", "timer_enable", "timer_mask"} =>
         \E m \in BootMasks : imr = m \ {KEYBOARD}
    /\ pc \in Booted => \E m \in BootMasks : imr = m \ {KEYBOARD, TIMER}
    /\ pc \in {"keyboard_mask", "timer_mask"} => mask = imr \cap Master

\* Only kernel_main touches the masks.
LEMMA OthersKeepMasks ==
  ASSUME \/ \E l \in Lines : raise(l)
         \/ accept \/ spurious \/ Handlers \/ UNCHANGED vars
  PROVE  UNCHANGED <<imr, pc, mask>>
  BY DEF raise, accept, spurious, Handlers, irq_handler, handler, handler_eoi, iret,
         vars, pic_vars, thread_vars

\* The first write: one bit is cleared and the others are those that were read.
LEMMA KeyboardOpened ==
  ASSUME Masks, write_mask("keyboard_mask", "init_clock", KEYBOARD)
  PROVE  Masks'
<1>1. imr \in BootMasks /\ mask = imr \cap Master /\ pc' = "init_clock"
  BY DEF Masks, write_mask, Thread
<1>2. imr \subseteq Master \cup Slave
  BY <1>1, InterruptsAssumption
<1>3. Master \cap Slave = {} /\ KEYBOARD \in Master
  BY DEF Master, Slave, KEYBOARD
<1>4. imr' = imr \ {KEYBOARD}
  BY <1>1, <1>2, <1>3 DEF write_mask
<1> QED BY <1>1, <1>4 DEF Masks, Booted

\* The second one.
LEMMA TimerOpened ==
  ASSUME Masks, write_mask("timer_mask", "ata_init", TIMER)
  PROVE  Masks'
<1>1. PICK m \in BootMasks : imr = m \ {KEYBOARD}
  BY DEF Masks, write_mask, Thread
<1>2. mask = imr \cap Master /\ pc' = "ata_init"
  BY DEF Masks, write_mask, Thread
<1>3. imr \subseteq Master \cup Slave
  BY <1>1, InterruptsAssumption
<1>4. Master \cap Slave = {} /\ TIMER \in Master
  BY DEF Master, Slave, TIMER
<1>5. imr' = m \ {KEYBOARD, TIMER}
  BY <1>1, <1>2, <1>3, <1>4 DEF write_mask
<1> QED BY <1>2, <1>5 DEF Masks, Booted

\* Every step keeps Masks.
LEMMA MasksInductive ==
  ASSUME Masks, [Next]_vars
  PROVE  Masks'
<1>1. CASE \/ \E l \in Lines : raise(l)
           \/ accept \/ spurious \/ Handlers \/ UNCHANGED vars
  BY <1>1, OthersKeepMasks DEF Masks
<1>2. CASE set_idt
  BY <1>2 DEF Masks, set_idt, arch_irq_controller_init, Thread, Booted
<1>3. CASE init_keyboard
  <2>1. CASE read_mask("init_keyboard", "keyboard_mask")
    BY <2>1 DEF Masks, read_mask, Thread, Booted, pic_vars
  <2> QED BY <1>3, <2>1, KeyboardOpened DEF init_keyboard
<1>4. CASE init_clock
  <2>1. CASE \/ read_mask("timer_enable", "timer_mask")
             \/ Thread("init_clock") /\ pc' = "timer_enable" /\ UNCHANGED <<pic_vars, mask>>
    BY <2>1 DEF Masks, read_mask, Thread, Booted, pic_vars
  <2> QED BY <1>4, <2>1, TimerOpened DEF init_clock
<1>5. CASE ata_init \/ console_put_char
  BY <1>5 DEF Masks, ata_init, console_put_char, Thread, Booted, pic_vars
<1> QED BY <1>1, <1>2, <1>3, <1>4, <1>5 DEF Next, KernelMain

\* Reading a mask and writing it later loses no change, for nothing that comes in
\* between writes one: the keyboard and the clock are opened and stay so, and every
\* other line is as the boot loader left it (keyboard.cpp:47-49, pic.c:79-81).
THEOREM MasksAreMeant == Spec => []LinesStayOpen
<1>1. Init => Masks
  BY DEF Init, Masks, Booted
<1>2. Masks /\ [Next]_vars => Masks'
  BY MasksInductive
<1>3. Inv /\ Masks => LinesStayOpen
  BY DEF Inv, TypeOK, Points, Masks, LinesStayOpen, Open, KEYBOARD, TIMER, Slave, Booted
<1>4. Init => Inv
  BY Initially
<1>5. Inv /\ [Next]_vars => Inv'
  BY Inductive
<1> QED BY <1>1, <1>2, <1>3, <1>4, <1>5, PTL DEF Spec
=============================================================================
