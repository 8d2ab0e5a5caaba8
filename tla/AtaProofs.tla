------------------------------ MODULE AtaProofs ------------------------------
(***************************************************************************)
(* Sectors are moved in order whatever interrupts do, for every width of   *)
(* the count register, every attachment of drives, every mask of the       *)
(* controllers and all requests.                                           *)
(*                                                                         *)
(* At each point of the driver (Under) the request has caused no interrupt *)
(* since its command, or exactly one.  A flag is set only on a channel     *)
(* that the masks leave open; on a closed one the interrupt stays latched. *)
(* From that invariant follow the order of the sectors, what is left when  *)
(* a request is over, and, step by step, the refinement of Disk.  The      *)
(* registration of the disks has an invariant of its own over the slots    *)
(* already passed (Found).                                                 *)
(***************************************************************************)
EXTENDS Ata, SequenceTheorems, TLAPS

USE DEF wired

\* The parts of the state that TypeOK does not say; no flag is set by an interrupt
\* that is masked.
Drive == [state : {"idle", "busy", "drq", "err"},
          cmd : {"none", "identify", "read", "first", "write", "flush"},
          slot : Slots, left : 0 .. CountMod, next : Int]
Request == [write : BOOLEAN, slot : Slots, lba : Nat, count : 0 .. CountMod]
Points == {"identify", "identified", "ready", "select", "command", "poll", "wait",
           "data", "drq", "flush", "flushed"}
Typed ==
    /\ TypeOK
    /\ dev \in Drive /\ op \in Request /\ pc \in Points
    /\ moved \in Seq(Int) /\ devices \in Seq(Slots)
    /\ enabled \in BOOLEAN /\ handlers \in BOOLEAN
    /\ \A c \in Channels : irq_flag[c] => c \in open

\* An interrupt of the request's channel: none that can still be taken since its
\* command, or exactly one, latched or already seen by the handler.
Quiet == channel(op.slot) \notin Raised /\ ~flag
Once == \/ channel(op.slot) \in latched /\ ~flag
        \/ channel(op.slot) \notin latched /\ flag

\* What the drive offers or will offer is the next sector of the request.
Next1 == dev.left = op.count - Len(moved) /\ dev.next = op.lba + Len(moved)
Some == Len(moved) < op.count
All  == Len(moved) = op.count

\* While ata_init identifies the drives.
Booting ==
    /\ pc \in {"identify", "identified"} =>
         op = NoOp /\ moved = <<>> /\ devices \in Seq(Slots)
    /\ pc = "identify" => dev = Idle
    /\ pc = "identified" =>
         slot < 4 /\ dev.cmd = "identify" /\ dev.state \in {"busy", "drq", "err"}
    /\ pc \notin {"identify", "identified"} => enabled /\ handlers
    /\ cpu # "run" => pc \in {"wait", "flushed"}

\* Between requests, and before a command is given, the drive is not busy.
Between ==
    /\ pc = "ready" =>
         /\ dev.state \in {"idle", "err"}
         /\ op = NoOp \/ dev.state = "err" \/ (Quiet /\ channel(op.slot) \in open)
    /\ pc \in {"select", "command"} =>
         dev.state \in {"idle", "err"} /\ moved = <<>> /\ op.count >= 1
    /\ pc = "command" => Quiet

\* A read: the drive is busy, or offers a sector and has said so once.
Reading ==
    /\ dev.cmd = "read" /\ Next1 /\ Some
    /\ \/ dev.state = "busy" /\ Quiet
       \/ dev.state = "drq" /\ Once

\* A write that waits: the drive has said once that it wants a sector, has all of
\* them or has failed; or it is busy.
Writing ==
    /\ dev.cmd = "write"
    /\ \/ dev.state = "busy" /\ Quiet /\ Next1
       \/ dev.state = "drq" /\ Once /\ Next1 /\ Some
       \/ dev.state = "idle" /\ Once /\ All
       \/ dev.state = "err" /\ Once

\* A write that is about to look for DRQ.
Asking ==
    /\ op.write /\ Some
    /\ \/ dev.state = "busy" /\ dev.cmd = "first" /\ Quiet /\ Next1
       \/ dev.state = "drq" /\ dev.cmd = "write" /\ Quiet /\ Next1
       \/ dev.state = "err"

\* Where a request is, and what the drive and the interrupt are up to then.
Under ==
    /\ pc \in {"poll", "wait", "data", "drq", "flush", "flushed"} => dev.slot = op.slot
    /\ pc = "poll" => ~op.write /\ moved = <<>> /\ Reading
    /\ pc = "wait" => IF op.write THEN Writing ELSE Reading
    /\ pc = "drq" => Asking
    /\ pc = "data" => /\ dev.state = "drq" /\ Quiet /\ Next1 /\ Some
                      /\ dev.cmd = IF op.write THEN "write" ELSE "read"
    /\ pc = "flush" => op.write /\ dev.state \in {"idle", "err"} /\ Quiet /\ All
    /\ pc = "flushed" => /\ op.write /\ dev.cmd = "flush" /\ All
                         /\ \/ dev.state = "busy" /\ Quiet
                            \/ dev.state = "idle" /\ Once
    /\ pc \in {"flush", "flushed"} \/ (pc = "data" /\ ~op.write) =>
         channel(op.slot) \in open

\* The sectors moved so far, one by one.
Ordered == \A k \in 1 .. Len(moved) : moved[k] = op.lba + k - 1

Inv == Typed /\ Booting /\ Between /\ Under /\ Ordered

-----------------------------------------------------------------------------
(* Lemmas *)

\* The count register holds a count between one and its width as it is.
LEMMA CountKept ==
    ASSUME NEW c \in 1 .. CountMod
    PROVE  (IF c % CountMod = 0 THEN CountMod ELSE c % CountMod) = c
<1>1. CASE c = CountMod
  <2>1. c % CountMod = 0 BY <1>1, AtaAssumption, SMT
  <2> QED BY <2>1, <1>1
<1>2. CASE c < CountMod
  <2>1. c % CountMod = c BY <1>2, AtaAssumption, SMT
  <2> QED BY <2>1, SMT
<1> QED BY <1>1, <1>2, AtaAssumption, SMT

\* What a command leaves in the count register is a count.
LEMMA LeftBounded ==
    ASSUME NEW c \in 0 .. CountMod
    PROVE  (IF c % CountMod = 0 THEN CountMod ELSE c % CountMod) \in 0 .. CountMod
<1>1. c % CountMod \in 0 .. CountMod - 1 BY AtaAssumption, SMT
<1> QED BY <1>1, AtaAssumption, SMT

\* Sectors stay in order while neither the request nor what was moved changes.
LEMMA Unmoved == Ordered /\ UNCHANGED <<op, moved>> => Ordered'
BY DEF Ordered
-----------------------------------------------------------------------------
(* The steps of the drive and of the interrupts *)

\* The state the steps are about.
LEMMA Initially == Init => Inv
<1> SUFFICES ASSUME Init PROVE Inv OBVIOUS
<1> USE AtaAssumption DEF Init, Idle, NoOp
<1>1. Typed
  <2>1. dev \in Drive /\ op \in Request
    BY DEF Drive, Request, Slots
  <2>2. Len(moved) = 0 /\ moved \in Seq(Int) /\ devices \in Seq(Slots)
    BY EmptySeq
  <2>3. irq_flag \in [Channels -> BOOLEAN]
    OBVIOUS
  <2>4. TypeOK
    BY <2>1, <2>2, <2>3 DEF TypeOK, Drive, Slots
  <2> QED BY <2>1, <2>2, <2>4 DEF Typed, Points
<1>2. Booting BY DEF Booting
<1>3. Between BY DEF Between
<1>4. Under BY DEF Under
<1>5. Ordered BY DEF Ordered
<1> QED BY <1>1, <1>2, <1>3, <1>4, <1>5 DEF Inv

\* A drive that has carried out a command raises one interrupt, or none before
\* the first sector of a write.
LEMMA DriveReady == Inv /\ drive_ready => Inv'
<1> SUFFICES ASSUME Inv, drive_ready PROVE Inv' OBVIOUS
<1> USE AtaAssumption DEF Inv, drive_ready, Edge
<1>1. Typed'
  BY DEF Typed, TypeOK, Drive, Request, Points, Slots, Channels, channel
<1>2. Booting' BY DEF Booting, Typed, Drive, Idle
<1>3. Between' BY DEF Between, Typed, Drive, Quiet, Raised
<1>4. Under'
  <2> USE DEF Typed, Drive, Request, TypeOK
  <2>0. /\ dev'.slot = dev.slot /\ dev'.left = dev.left /\ dev'.next = dev.next
        /\ UNCHANGED <<op, pc, moved, irq_flag>>
    OBVIOUS
  <2>1. CASE pc \in {"identify", "identified", "ready", "select", "command", "data", "flush"}
    BY <2>0, <2>1 DEF Under, Idle, Booting, Between
  <2>2. CASE pc \in {"poll", "wait"} /\ ~op.write
    BY <2>0, <2>2 DEF Under, Reading, Quiet, Raised, Once, flag, Next1, Some
  <2>3. CASE pc = "wait" /\ op.write
    BY <2>0, <2>3 DEF Under, Writing, Quiet, Raised, Once, flag, Next1, Some, All
  <2>4. CASE pc = "drq"
    BY <2>0, <2>4 DEF Under, Asking, Quiet, Raised, flag, Next1, Some
  <2>5. CASE pc = "flushed"
    BY <2>0, <2>5 DEF Under, Quiet, Raised, Once, flag, All
  <2> QED BY <2>1, <2>2, <2>3, <2>4, <2>5 DEF Points, Under
<1>5. Ordered' BY Unmoved
<1> QED BY <1>1, <1>2, <1>3, <1>4, <1>5 DEF Inv

\* A write that fails says so once.
LEMMA DriveFails == Inv /\ drive_fails => Inv'
<1> SUFFICES ASSUME Inv, drive_fails PROVE Inv' OBVIOUS
<1> USE AtaAssumption DEF Inv, drive_fails, Edge
<1>1. Typed'
  <2>1. 0 \in 0 .. CountMod OBVIOUS
  <2>2. dev' \in Drive
    BY <2>1 DEF Typed, Drive
  <2>3. latched' \subseteq Channels
    BY DEF Typed, TypeOK, Channels, channel
  <2>4. TypeOK'
    BY <2>2, <2>3 DEF Typed, TypeOK, Drive
  <2> QED BY <2>2, <2>4 DEF Typed
<1>2. Booting' BY DEF Booting, Typed, Drive, Idle
<1>3. Between' BY DEF Between, Typed, Drive, Quiet, Raised
<1>4. Under'
  <2> USE DEF Typed, Drive, Request, TypeOK
  <2>0. dev'.slot = dev.slot /\ dev'.state = "err" /\ UNCHANGED <<op, pc, moved, irq_flag>>
    BY DEF Idle
  <2>1. CASE pc \in {"identify", "identified", "ready", "select", "command", "poll",
                     "data", "flush", "flushed"}
    BY <2>0, <2>1 DEF Under, Idle, Booting, Between, Reading
  <2>2. CASE pc = "wait"
    BY <2>0, <2>2 DEF Under, Reading, Writing, Quiet, Raised, Once, flag
  <2>3. CASE pc = "drq"
    BY <2>0, <2>3 DEF Under, Asking, Some
  <2> QED BY <2>1, <2>2, <2>3 DEF Points
<1>5. Ordered' BY Unmoved
<1> QED BY <1>1, <1>2, <1>3, <1>4, <1>5 DEF Inv

\* The handler takes an interrupt that is held and sets its channel's flag.
LEMMA Handled == Inv /\ ata_irq_handler => Inv'
<1> SUFFICES ASSUME Inv, ata_irq_handler PROVE Inv' OBVIOUS
<1> USE DEF Inv, ata_irq_handler, Wake
<1>0. PICK c \in Raised :
        /\ latched' = latched \ {c}
        /\ irq_flag' = IF handlers THEN [irq_flag EXCEPT ![c] = TRUE] ELSE irq_flag
  OBVIOUS
<1> c \in Channels /\ c \in open BY DEF Typed, TypeOK, Raised
<1>1. Typed'
  <2>1. irq_flag' \in [Channels -> BOOLEAN] BY <1>0 DEF Typed, TypeOK
  <2> QED BY <1>0, <2>1 DEF Typed, TypeOK
<1>2. Booting' BY DEF Booting
<1>3. channel(op.slot) \in Channels BY DEF channel, Channels
<1>4. handlers => \/ c # channel(op.slot) /\ (Quiet => Quiet')
                  \/ c = channel(op.slot) /\ ~Quiet
  BY <1>0, <1>3 DEF Quiet, Raised, flag, Typed, TypeOK
<1>5. handlers /\ Once => Once'
  BY <1>0, <1>3 DEF Once, flag, Typed, TypeOK
<1>6. Between' BY <1>0, <1>4 DEF Between, Booting, Quiet, Raised
<1>7. Under'
  <2>1. CASE pc \in {"identify", "identified", "ready", "select", "command"}
    BY <2>1 DEF Under
  <2>2. CASE pc \notin {"identify", "identified", "ready", "select", "command"}
    <3>1. (Quiet => Quiet') /\ (Once => Once')
      BY <2>2, <1>4, <1>5 DEF Booting
    <3> QED BY <2>2, <3>1 DEF Under, Reading, Writing, Asking, Next1, Some, All
  <2> QED BY <2>1, <2>2
<1>8. Ordered' BY Unmoved
<1> QED BY <1>1, <1>2, <1>6, <1>7, <1>8 DEF Inv

\* Halting and waking touch nothing but the processor.
LEMMA Halts ==
    ASSUME Inv, timer_tick \/ wait_halting \/ arch_halt
    PROVE  Inv'
<1> USE DEF Inv, timer_tick, wait_halting, arch_halt, Wake, hw_vars, Main
<1>0. UNCHANGED <<wired, dev, latched, irq_flag, enabled, handlers, pc, slot, op, moved, devices>>
  OBVIOUS
<1>1. Typed' BY <1>0 DEF Typed, TypeOK, Booting
<1>2. Booting' BY <1>0 DEF Booting
<1>3. Between' BY <1>0 DEF Between, Quiet, Raised, flag
<1>4. Under'
  BY <1>0 DEF Under, Reading, Writing, Asking, Quiet, Raised, Once, flag, Next1, Some, All
<1>5. Ordered' BY <1>0, Unmoved
<1> QED BY <1>1, <1>2, <1>3, <1>4, <1>5 DEF Inv
-----------------------------------------------------------------------------
(* The steps of the driver's thread *)

\* What a command does to the drive: it is busy with the sectors asked for.
LEMMA Commanded ==
    ASSUME NEW c, NEW s, NEW lba, NEW n \in 0 .. CountMod, Command(c, s, lba, n)
    PROVE  /\ dev'.state = "busy" /\ dev'.cmd = c /\ dev'.slot = s /\ dev'.next = lba
           /\ n >= 1 => dev'.left = n
           /\ dev' = [state |-> dev'.state, cmd |-> c, slot |-> s, left |-> dev'.left,
                      next |-> lba]
           /\ dev'.left \in 0 .. CountMod
<1> DEFINE m == IF n % CountMod = 0 THEN CountMod ELSE n % CountMod
<1>1. m \in 0 .. CountMod BY LeftBounded
<1>2. n >= 1 => m = n
  <2>1. ASSUME n >= 1 PROVE n \in 1 .. CountMod BY <2>1, AtaAssumption, SMT
  <2> QED BY <2>1, CountKept
<1>3. dev' = [state |-> "busy", cmd |-> c, slot |-> s, next |-> lba, left |-> m]
  BY DEF Command
<1> HIDE DEF m
<1> QED BY <1>1, <1>2, <1>3

\* The count of one that identify and flush leave in the register.
LEMMA OneIsCount == 1 \in 0 .. CountMod
BY AtaAssumption, SMT

\* ata_identify passes an empty slot over or gives the drive its command.
LEMMA Identify == Inv /\ ata_identify => Inv'
<1> SUFFICES ASSUME Inv, ata_identify PROVE Inv' OBVIOUS
<1> USE DEF Inv, ata_identify, NextSlot
<1>1. \/ dev' = dev /\ slot' = slot + 1 /\ pc' = "identify" /\ enabled' \in {TRUE, enabled}
      \/ /\ Command("identify", slot, 0, 1)
         /\ pc' = "identified" /\ UNCHANGED <<slot, enabled>>
  OBVIOUS
<1>2. Command("identify", slot, 0, 1) =>
        dev'.state = "busy" /\ dev'.cmd = "identify" /\ dev' \in Drive
  <2> SUFFICES ASSUME Command("identify", slot, 0, 1)
               PROVE  dev'.state = "busy" /\ dev'.cmd = "identify" /\ dev' \in Drive
    OBVIOUS
  <2>1. slot \in Slots BY DEF Typed, TypeOK, Slots
  <2> QED BY <2>1, Commanded, OneIsCount DEF Drive
<1>3. dev' \in Drive BY <1>1, <1>2 DEF Typed
<1>4. Typed'
  <2>1. slot' \in 0 .. 4 /\ enabled' \in BOOLEAN /\ pc' \in Points
    <3>1. slot \in 0 .. 3 BY DEF Typed, TypeOK
    <3>2. slot' \in 0 .. 4 BY <1>1, <3>1
    <3> QED BY <1>1, <3>2 DEF Typed, Points
  <2>2. cpu' = "run" BY DEF Main
  <2> QED BY <1>3, <2>1, <2>2 DEF Typed, TypeOK, Drive
<1>5. Booting' BY <1>1, <1>2 DEF Booting
<1>6. Between' BY <1>1 DEF Between
<1>7. Under' BY <1>1 DEF Under
<1>8. Ordered' BY Unmoved
<1> QED BY <1>4, <1>5, <1>6, <1>7, <1>8

\* The end of ata_identify and of ata_init; ata_init leaves a quiet driver.
LEMMA Identified == Inv /\ (identified \/ ata_init) => Inv'
<1> SUFFICES ASSUME Inv, identified \/ ata_init PROVE Inv' OBVIOUS
<1> USE DEF Inv, identified, ata_init, NextSlot, hw_vars, Main
<1>0. Idle \in Drive
  BY AtaAssumption DEF Idle, Drive, Slots
<1>1. devices' \in Seq(Slots)
  <2>1. devices \in Seq(Slots) BY DEF Typed
  <2>2. identified => slot \in Slots BY DEF Typed, TypeOK, Slots, Booting
  <2>3. identified => Append(devices, slot) \in Seq(Slots)
    BY <2>1, <2>2, AppendProperties
  <2> QED BY <2>1, <2>3
<1>2. irq_flag' \in [Channels -> BOOLEAN]
  BY DEF Typed, TypeOK
<1>3. cpu' = "run" /\ pc' \in Points /\ enabled' \in BOOLEAN /\ handlers' \in BOOLEAN
  BY DEF Typed, Points
<1>10. slot' \in 0 .. 4
  BY DEF Typed, TypeOK, Booting
<1>4. dev' \in Drive
  BY <1>0 DEF Typed
<1>5. Typed'
  BY <1>1, <1>2, <1>3, <1>10, <1>4 DEF Typed, TypeOK, Drive
<1>6. Booting' BY <1>1 DEF Booting
<1>7. Between' BY DEF Between, Booting, Idle
<1>8. Under' BY DEF Under
<1>9. Ordered' BY Unmoved
<1> QED BY <1>5, <1>6, <1>7, <1>8, <1>9

\* A request starts with nothing moved.
LEMMA RequestKeeps ==
    ASSUME Inv, NEW w \in BOOLEAN, NEW s \in Slots, NEW lba \in Nat,
           NEW n \in 1 .. CountMod, request(w, s, lba, n)
    PROVE  Inv'
<1> USE DEF Inv, request, hw_vars, Main
<1>0. /\ op' = [write |-> w, slot |-> s, lba |-> lba, count |-> n]
      /\ moved' = <<>> /\ pc = "ready" /\ pc' = "select" /\ cpu = "run"
      /\ UNCHANGED <<wired, dev, latched, irq_flag, enabled, handlers, cpu, slot, devices>>
  OBVIOUS
<1>1. op' \in Request /\ op'.count >= 1
  BY <1>0, AtaAssumption DEF Request
<1>2. moved' \in Seq(Int) /\ Len(moved') = 0
  BY <1>0, EmptySeq
<1>3. Len(moved') <= op'.count BY <1>1, <1>2, AtaAssumption DEF Request
<1>4. Typed' BY <1>0, <1>1, <1>2, <1>3 DEF Typed, TypeOK, Points
<1>5. Booting' BY <1>0 DEF Booting
<1>6. Between' BY <1>0, <1>1 DEF Between
<1>7. Under' BY <1>0 DEF Under
<1>8. Ordered' BY <1>2 DEF Ordered
<1> QED BY <1>4, <1>5, <1>6, <1>7, <1>8

\* Every request is one of a disk that was registered.
LEMMA Requests == Inv /\ Requested => Inv'
<1> SUFFICES ASSUME Inv, Requested PROVE Inv' OBVIOUS
<1>1. PICK w \in BOOLEAN, k \in DOMAIN devices, lba \in Lbas, n \in 1 .. CountMod :
        request(w, devices[k], lba, n)
  BY DEF Requested
<1>2. devices \in Seq(Slots) BY DEF Inv, Typed
<1>3. devices[k] \in Slots BY <1>1, <1>2, SeqDef
<1>4. lba \in Nat BY AtaAssumption
<1> QED BY <1>1, <1>3, <1>4, RequestKeeps

\* With interrupts enabled the thread goes on only when none is raised.
LEMMA MainQuiet ==
    ASSUME Inv, Main, pc \notin {"identify", "identified"}
    PROVE  Raised = {} /\ enabled /\ handlers /\ cpu = "run"
BY DEF Main, Inv, Booting

\* The drive is free and its flag reset before a command is given.
LEMMA Select == Inv /\ select => Inv'
<1> SUFFICES ASSUME Inv, select PROVE Inv' OBVIOUS
<1> USE DEF Inv, select, hw_vars
<1>0. Raised = {} BY MainQuiet
<1>1. irq_flag' \in [Channels -> BOOLEAN] /\ ~irq_flag'[channel(op.slot)]
  BY DEF Typed, TypeOK, channel, Channels
<1>2. Typed' BY <1>1 DEF Typed, TypeOK, Points
<1>3. Booting' BY DEF Booting
<1>4. Between' BY <1>0, <1>1 DEF Between, Quiet, Raised, flag
<1>5. Under' BY DEF Under
<1>6. Ordered' BY Unmoved
<1> QED BY <1>2, <1>3, <1>4, <1>5, <1>6

\* The command starts a read, or a write that asks for its first sector.
LEMMA CommandKeeps == Inv /\ command => Inv'
<1> SUFFICES ASSUME Inv, command PROVE Inv' OBVIOUS
<1> USE DEF Inv, command
<1>1. op \in Request /\ op.slot \in Slots /\ op.lba \in Int /\ op.count \in 0 .. CountMod
      /\ op.write \in BOOLEAN
  BY DEF Typed, Request
<1>2. op.count >= 1 /\ moved = <<>> /\ Quiet
  BY DEF Between, Quiet, Raised
<1>3. Len(moved) = 0 BY <1>2, EmptySeq
<1>4. /\ dev'.state = "busy" /\ dev'.cmd = (IF op.write THEN "first" ELSE "read")
      /\ dev'.slot = op.slot /\ dev'.next = op.lba /\ dev'.left = op.count
      /\ dev' \in Drive
  BY <1>1, <1>2, Commanded DEF Drive
<1>5. Typed' BY <1>4 DEF Typed, TypeOK, Points, Drive
<1>6. Booting' BY DEF Booting, Main
<1>7. Between' BY DEF Between
<1>8. Next1' /\ Some' /\ Quiet'
  BY <1>1, <1>2, <1>3, <1>4, AtaAssumption DEF Next1, Some, Quiet, Raised, flag
<1>9. Under' BY <1>2, <1>4, <1>8 DEF Under, Reading, Asking
<1>10. Ordered' BY Unmoved
<1> QED BY <1>5, <1>6, <1>7, <1>9, <1>10

\* The waits for BSY and for DRQ, which change nothing else.
LEMMA Polls == Inv /\ (read_poll \/ write_poll) => Inv'
<1> SUFFICES ASSUME Inv, read_poll \/ write_poll PROVE Inv' OBVIOUS
<1> USE DEF Inv, read_poll, write_poll, hw_vars
<1>0. pc' \in {"wait", "ready", "data"} /\ pc \in {"poll", "drq"}
      /\ UNCHANGED <<wired, dev, latched, irq_flag, enabled, handlers, cpu, slot, op, moved,
                     devices>>
  OBVIOUS
<1>1. Typed' BY <1>0 DEF Typed, TypeOK, Points
<1>2. Booting' BY <1>0, MainQuiet DEF Booting
<1>3. Between' BY <1>0 DEF Between
<1>4. Under'
  <2>1. CASE read_poll
    BY <2>1 DEF Under, Reading, Quiet, Raised, Once, flag, Next1, Some
  <2>2. CASE write_poll
    BY <2>2 DEF Under, Asking, Quiet, Raised, flag, Next1, Some
  <2> QED BY <2>1, <2>2
<1>5. Ordered' BY Unmoved
<1> QED BY <1>1, <1>2, <1>3, <1>4, <1>5

\* A wait ends with the one interrupt seen: the drive offers or wants a sector, or
\* has failed, or is done.
LEMMA Waited == Inv /\ wait_done => Inv'
<1> SUFFICES ASSUME Inv, wait_done PROVE Inv' OBVIOUS
<1> USE DEF Inv, wait_done, hw_vars
<1>0. /\ pc \in {"wait", "flushed"} /\ flag /\ pc' = AfterWait
      /\ UNCHANGED <<wired, dev, latched, enabled, handlers, cpu, slot, op, moved, devices>>
  OBVIOUS
<1>1. irq_flag' \in [Channels -> BOOLEAN] /\ ~irq_flag'[channel(op.slot)]
  BY DEF Typed, TypeOK, channel, Channels
<1>2. Raised = {} BY MainQuiet
<1>3. Quiet' BY <1>0, <1>1, <1>2 DEF Quiet, Raised, flag
<1>10. channel(op.slot) \in open BY <1>0 DEF Typed, flag, channel, Channels
<1>4. pc' \in {"ready", "data", "drq", "flush"} BY DEF AfterWait
<1>5. Typed' BY <1>0, <1>1, <1>4 DEF Typed, TypeOK, Points
<1>6. Booting' BY <1>0, <1>4, MainQuiet DEF Booting
<1>7. CASE pc = "flushed"
  <2>1. dev.state = "idle" /\ pc' = "ready"
    BY <1>0, <1>7 DEF Under, Quiet, Raised, AfterWait
  <2> QED BY <1>0, <1>3, <1>5, <1>6, <1>10, <2>1, Unmoved DEF Between, Under
<1>8. CASE pc = "wait" /\ ~op.write
  <2>1. dev.cmd = "read" /\ dev.state = "drq" /\ Next1 /\ Some /\ pc' = "data"
    BY <1>0, <1>8 DEF Under, Reading, Quiet, Raised, AfterWait
  <2>2. Under'
    BY <1>0, <1>3, <1>8, <1>10, <2>1 DEF Under, Next1, Some
  <2> QED BY <1>0, <1>5, <1>6, <2>1, <2>2, Unmoved DEF Between
<1>9. CASE pc = "wait" /\ op.write
  <2>1. Writing /\ ~Quiet
    BY <1>0, <1>9 DEF Under, Quiet, Raised
  <2>2. Some \/ All
    BY DEF Some, All, Typed, TypeOK, Request
  <2>3. CASE Some
    <3>1. pc' = "drq" BY <1>0, <1>9, <2>3 DEF AfterWait, Some
    <3>2. Asking'
      BY <1>0, <1>3, <1>9, <2>1, <2>3 DEF Writing, Asking, Next1, Some, All, Typed, TypeOK, Request
    <3>3. Under' BY <1>0, <1>9, <3>1, <3>2 DEF Under
    <3> QED BY <1>5, <1>6, <3>1, <3>3, Unmoved DEF Between
  <2>4. CASE All
    <3>1. ~(Len(moved) < op.count)
      BY <2>4 DEF All, Typed, Request
    <3>2. pc' = "flush" BY <1>0, <1>9, <3>1 DEF AfterWait
    <3>3. dev.state \in {"idle", "err"} BY <2>1, <3>1 DEF Writing, Some
    <3>4. Under' BY <1>0, <1>3, <1>9, <1>10, <2>4, <3>2, <3>3 DEF Under, All
    <3> QED BY <1>5, <1>6, <3>2, <3>4, Unmoved DEF Between
  <2> QED BY <2>2, <2>3, <2>4
<1> QED BY <1>0, <1>7, <1>8, <1>9

\* A sector is moved: the one that is due, to or from the next place.
LEMMA Moved == Inv /\ data => Inv'
<1> SUFFICES ASSUME Inv, data PROVE Inv' OBVIOUS
<1> USE DEF Inv, data
<1>0. /\ pc = "data" /\ pc' = (IF op.write \/ Len(moved') < op.count THEN "wait" ELSE "ready")
      /\ UNCHANGED <<wired, latched, irq_flag, enabled, handlers, cpu, slot, op, devices>>
  OBVIOUS
<1>1. /\ op.write \in BOOLEAN /\ op.slot \in Slots /\ op.lba \in Int /\ op.count \in 0 .. CountMod
      /\ moved \in Seq(Int) /\ Len(moved) \in Nat /\ dev \in Drive
      /\ dev.left \in 0 .. CountMod /\ dev.next \in Int
  BY DEF Typed, Request, Drive
<1>2. /\ dev.state = "drq" /\ Quiet /\ Next1 /\ Some /\ dev.slot = op.slot
      /\ dev.cmd = IF op.write THEN "write" ELSE "read"
  BY <1>0 DEF Under
<1>3. /\ moved' = Append(moved, dev.next)
      /\ dev' = [dev EXCEPT !.state = IF dev.left = 1 /\ dev.cmd = "read"
                                      THEN "idle" ELSE "busy",
                            !.left = dev.left - 1, !.next = dev.next + 1]
  BY <1>2 DEF Transfer
<1>4. /\ moved' \in Seq(Int) /\ Len(moved') = Len(moved) + 1
      /\ \A k \in 1 .. Len(moved) : moved'[k] = moved[k]
      /\ moved'[Len(moved) + 1] = dev.next
  BY <1>1, <1>3, AppendProperties
<1>5. /\ dev'.left = op.count - Len(moved') /\ dev'.next = op.lba + Len(moved')
      /\ dev'.slot = op.slot /\ dev'.cmd = dev.cmd
      /\ dev'.state = IF dev.left = 1 /\ dev.cmd = "read" THEN "idle" ELSE "busy"
  <2>1. /\ dev'.left = dev.left - 1 /\ dev'.next = dev.next + 1
        /\ dev'.slot = dev.slot /\ dev'.cmd = dev.cmd
        /\ dev'.state = IF dev.left = 1 /\ dev.cmd = "read" THEN "idle" ELSE "busy"
    BY <1>1, <1>3 DEF Drive
  <2> QED BY <1>1, <1>2, <1>4, <2>1 DEF Next1
<1>6. dev' \in Drive
  <2>1. dev.left - 1 \in 0 .. CountMod
    BY <1>1, <1>2, AtaAssumption DEF Next1, Some
  <2>2. dev.next + 1 \in Int BY <1>1
  <2>3. \A st \in {"idle", "busy"}, l \in 0 .. CountMod, nx \in Int :
          [dev EXCEPT !.state = st, !.left = l, !.next = nx] \in Drive
    BY <1>1 DEF Drive
  <2> QED BY <1>3, <2>1, <2>2, <2>3
<1>7. Len(moved') <= op.count BY <1>1, <1>2, <1>4 DEF Some
<1>8. Next1' BY <1>0, <1>5 DEF Next1
<1>9. Quiet' BY <1>0, <1>2 DEF Quiet, Raised, flag
<1>10. Typed' BY <1>0, <1>4, <1>6, <1>7 DEF Typed, TypeOK, Points, Drive
<1>11. Booting' BY <1>0, MainQuiet DEF Booting
<1>12. Ordered'
  <2> SUFFICES ASSUME NEW k \in 1 .. Len(moved')
               PROVE  moved'[k] = op.lba + k - 1
    BY <1>0 DEF Ordered
  <2>1. CASE k \in 1 .. Len(moved) BY <1>4, <2>1 DEF Ordered
  <2>2. CASE k = Len(moved) + 1 BY <1>1, <1>2, <1>4, <2>2 DEF Next1
  <2> QED BY <1>1, <1>4, <2>1, <2>2
<1>13. CASE op.write
  <2>1. pc' = "wait" /\ Writing'
    BY <1>0, <1>2, <1>5, <1>8, <1>9, <1>13 DEF Writing
  <2> QED BY <1>0, <1>5, <1>10, <1>11, <1>12, <1>13, <2>1 DEF Between, Under
<1>14. CASE ~op.write /\ Len(moved') < op.count
  <2>1. dev.left # 1 BY <1>1, <1>2, <1>4, <1>14 DEF Next1
  <2>2. pc' = "wait" /\ Reading'
    BY <1>0, <1>2, <1>5, <1>8, <1>9, <1>14, <2>1 DEF Reading, Some
  <2> QED BY <1>0, <1>5, <1>10, <1>11, <1>12, <1>14, <2>2 DEF Between, Under
<1>15. CASE ~op.write /\ ~(Len(moved') < op.count)
  <2>1. dev.left = 1 BY <1>1, <1>2, <1>4, <1>15 DEF Next1, Some
  <2>2. pc' = "ready" /\ dev'.state = "idle"
    BY <1>0, <1>2, <1>5, <1>15, <2>1
  <2> QED BY <1>9, <1>10, <1>11, <1>12, <2>2 DEF Between, Under
<1> QED BY <1>1, <1>13, <1>14, <1>15

\* The flush after a write whose sectors have all been taken.
LEMMA Flush == Inv /\ flush => Inv'
<1> SUFFICES ASSUME Inv, flush PROVE Inv' OBVIOUS
<1> USE DEF Inv, flush
<1>1. op.slot \in Slots /\ op.write /\ All /\ Quiet
  BY DEF Typed, Request, Under
<1>2. dev'.state = "busy" /\ dev'.cmd = "flush" /\ dev'.slot = op.slot /\ dev' \in Drive
  BY <1>1, Commanded, OneIsCount DEF Drive
<1>3. Typed' BY <1>2 DEF Typed, TypeOK, Points, Drive
<1>4. Booting' BY MainQuiet DEF Booting
<1>5. Between' BY DEF Between
<1>6. Quiet' /\ All' BY <1>1 DEF Quiet, Raised, flag, All
<1>7. Under' BY <1>1, <1>2, <1>6 DEF Under
<1>8. Ordered' BY Unmoved
<1> QED BY <1>3, <1>4, <1>5, <1>7, <1>8
-----------------------------------------------------------------------------
(* Theorems *)

\* Every step keeps the invariant.
LEMMA StepKeeps == Inv /\ [Next]_vars => Inv'
<1> SUFFICES ASSUME Inv, [Next]_vars PROVE Inv' OBVIOUS
<1>1. CASE UNCHANGED vars
  BY <1>1 DEF vars, Inv, Typed, TypeOK, Booting, Between, Under, Reading, Writing, Asking,
     Quiet, Raised, Once, flag, Next1, Some, All, Ordered
<1>2. CASE Driver
  BY <1>2, Identify, Identified, Select, CommandKeeps, Polls, Halts, Waited, Moved, Flush
     DEF Driver
<1>3. CASE drive_ready \/ drive_fails \/ ata_irq_handler \/ timer_tick \/ Requested
  BY <1>3, DriveReady, DriveFails, Handled, Halts, Requests
<1> QED BY <1>1, <1>2, <1>3 DEF Next

\* The invariant holds in every state of every behaviour.
THEOREM Invariance == Spec => []Inv
<1>1. Inv /\ [Next]_vars => Inv' BY StepKeeps
<1> QED BY <1>1, Initially, PTL DEF Spec

\* The registers, the flags and the driver's place stay what they may be, and the
\* processor never halts with interrupts disabled (ata_pio.c:252).
THEOREM TypeCorrect == Spec => []TypeOK
<1>1. Inv => TypeOK BY DEF Inv, Typed
<1> QED BY <1>1, Invariance, PTL

\* No interrupt, late, early or left over, makes the driver read or write the data
\* port out of turn: place by place the buffer holds the sectors asked for
\* (ata_pio.c:304-313, 350-369), for every width of the count register.
THEOREM InOrder == Spec => []SectorsInOrder
<1>1. Inv => SectorsInOrder
  <2> SUFFICES ASSUME Inv PROVE SectorsInOrder OBVIOUS
  <2> DEFINE s == [k \in 1 .. Len(moved) |-> op.lba + k - 1]
  <2>1. moved \in Seq(Int) /\ op.lba \in Int BY DEF Inv, Typed, Request
  <2>2. Len(moved) \in Nat /\ DOMAIN moved = 1 .. Len(moved)
        /\ moved = [k \in 1 .. Len(moved) |-> moved[k]]
    BY <2>1, SeqDef
  <2>3. \A k \in 1 .. Len(moved) : moved[k] = op.lba + k - 1 BY DEF Inv, Ordered
  <2> QED BY <2>2, <2>3 DEF SectorsInOrder
<1> QED BY <1>1, Invariance, PTL

\* When a request has returned its drive and its interrupt are done with it, so
\* the next command starts from a clean flag (ata_pio.c:288, 372-375).
THEOREM Quieted == Spec => []QuietWhenReady
<1>1. Inv => QuietWhenReady
  BY DEF Inv, Between, Quiet, Raised, QuietWhenReady
<1> QED BY <1>1, Invariance, PTL

\* What ends each of the driver's waits: a flag that is set, an interrupt that will set
\* it if the masks let it through, or a drive that is busy and will raise one or show its
\* status.  A halt comes with
\* interrupts enabled and their handlers registered.
Awaited ==
    /\ pc \in {"wait", "flushed"} =>
         flag \/ channel(op.slot) \in latched \/ dev.state = "busy"
    /\ pc \in {"poll", "drq"} => dev.state \in {"busy", "drq", "err"}
    /\ pc = "select" => dev.state # "busy"
    /\ cpu # "run" => pc \in {"wait", "flushed"} /\ enabled /\ handlers

\* The driver never waits for an interrupt that has come and gone: resetting the flag at
\* the start of a request and after each wait loses none, though interrupts of failed
\* writes come late and the flag is reset before the command is given
\* (ata_pio.c:283-288, 305-309, 350-377).
THEOREM NoInterruptLost == Spec => []Awaited
<1>1. Inv => Awaited
  <2> SUFFICES ASSUME Inv PROVE Awaited OBVIOUS
  <2> USE DEF Inv, Under
  <2>1. CASE pc \in {"wait", "flushed"}
    <3>1. (Quiet /\ dev.state = "busy") \/ Once BY <2>1 DEF Reading, Writing
    <3>2. enabled /\ handlers BY <2>1 DEF Booting
    <3> QED BY <2>1, <3>1, <3>2 DEF Awaited, Once
  <2>2. CASE pc \notin {"wait", "flushed"}
    BY <2>2 DEF Awaited, Booting, Between, Reading, Asking
  <2> QED BY <2>1, <2>2
<1> QED BY <1>1, Invariance, PTL

\* A wait for the interrupt of a channel that the masks keep closed is never left.
Masked == channel(op.slot) \notin open /\ pc \in {"wait", "flushed"}
Endless == [][Masked => UNCHANGED pc /\ Masked']_vars

\* Since nothing enables lines 14, 15 and 2 (ata_pio.c:114-140), a request to a channel
\* that the boot loader left masked stays in the loop around arch_halt for good
\* (ata_pio.c:305, 365, 374): the masks are what Returns depends on.
THEOREM MaskedIsEndless == Spec => Endless
<1>1. Inv /\ [Next]_vars => [Masked => UNCHANGED pc /\ Masked']_vars
  <2> SUFFICES ASSUME Inv, Next, Masked PROVE UNCHANGED pc /\ Masked' OBVIOUS
  <2>1. ~flag BY DEF Inv, Typed, Masked, flag, channel, Channels
  <2>2. ~wait_done BY <2>1 DEF wait_done
  <2> QED
    BY <2>2 DEF Masked, hw_vars, Next, drive_ready, drive_fails, ata_irq_handler, timer_tick,
       Driver, ata_identify, identified, ata_init, select, command, read_poll, write_poll,
       wait_halting, arch_halt, data, flush, Requested, request
<1> QED BY <1>1, Invariance, PTL DEF Spec, Endless
-----------------------------------------------------------------------------
(* The disks that ata_init finds *)

\* The disks among the slots that ata_init has passed are registered in their order,
\* and what the drive it identifies answers tells what the drive is.
Found ==
    /\ \A j \in 1 .. Len(devices) : devices[j] < slot /\ kind[devices[j]] = "disk"
    /\ \A s \in Slots : s < slot /\ kind[s] = "disk" => \E j \in 1 .. Len(devices) : devices[j] = s
    /\ \A j, k \in 1 .. Len(devices) : j < k => devices[j] < devices[k]
    /\ pc \notin {"identify", "identified"} => slot = 4
    /\ pc = "identified" =>
         /\ dev.slot = slot /\ kind[slot] # "floating" /\ kind[slot] # "none"
         /\ dev.state # "busy" => (dev.state = "drq" <=> kind[slot] = "disk")

LEMMA FoundInit == Init => Found
<1> SUFFICES ASSUME Init PROVE Found OBVIOUS
<1>1. devices = <<>> /\ slot = 0 /\ pc = "identify" BY DEF Init
<1>2. Len(devices) = 0 BY <1>1, EmptySeq
<1> QED BY <1>1, <1>2 DEF Found, Slots

\* One slot more is behind: its disk is registered, or there is none.
LEMMA Passed ==
  ASSUME Inv, Found, slot' = slot + 1, kind' = kind, pc' = "identify", slot < 4,
         \/ kind[slot] = "disk" /\ devices' = Append(devices, slot)
         \/ kind[slot] # "disk" /\ devices' = devices
  PROVE  Found'
<1>1. devices \in Seq(Slots) /\ slot \in Slots /\ slot \in Nat /\ Len(devices) \in Nat
  BY DEF Inv, Typed, TypeOK, Slots
<1>2. \A s \in Slots : s < slot + 1 => s < slot \/ s = slot BY <1>1 DEF Slots
<1>3. \A j \in 1 .. Len(devices) : devices[j] \in Slots /\ devices[j] < slot
      /\ kind[devices[j]] = "disk"
  BY <1>1, SeqDef DEF Found
<1>4. CASE kind[slot] # "disk"
  <2>1. devices' = devices BY <1>4
  <2>2. \A j \in 1 .. Len(devices) : devices[j] < slot + 1 BY <1>1, <1>3 DEF Slots
  <2> QED BY <1>2, <1>3, <1>4, <2>1, <2>2 DEF Found
<1>5. CASE kind[slot] = "disk"
  <2>1. devices' = Append(devices, slot) BY <1>5
  <2>2. /\ Len(devices') = Len(devices) + 1 /\ devices'[Len(devices) + 1] = slot
        /\ \A j \in 1 .. Len(devices) : devices'[j] = devices[j]
    BY <1>1, <2>1, AppendProperties
  <2>3. \A j \in 1 .. Len(devices') : j \in 1 .. Len(devices) \/ j = Len(devices')
    BY <1>1, <2>2
  <2>4. \A j \in 1 .. Len(devices') : devices'[j] < slot + 1 /\ kind[devices'[j]] = "disk"
    BY <1>1, <1>3, <1>5, <2>2, <2>3 DEF Slots
  <2>5. ASSUME NEW s \in Slots, s < slot + 1, kind[s] = "disk"
        PROVE  \E j \in 1 .. Len(devices') : devices'[j] = s
    <3>1. CASE s = slot
      <4>1. Len(devices) + 1 \in 1 .. Len(devices') BY <1>1, <2>2
      <4> QED BY <2>2, <3>1, <4>1
    <3>2. CASE s # slot
      <4>1. PICK j \in 1 .. Len(devices) : devices[j] = s BY <1>2, <2>5, <3>2 DEF Found
      <4>2. j \in 1 .. Len(devices') /\ devices'[j] = s BY <1>1, <2>2, <4>1
      <4> QED BY <4>2
    <3> QED BY <3>1, <3>2
  <2>6. ASSUME NEW j \in 1 .. Len(devices'), NEW k \in 1 .. Len(devices'), j < k
        PROVE  devices'[j] < devices'[k]
    <3>1. j \in 1 .. Len(devices) /\ devices'[j] = devices[j] BY <1>1, <2>2, <2>6
    <3>2. CASE k \in 1 .. Len(devices) BY <2>2, <2>6, <3>1, <3>2 DEF Found
    <3>3. CASE k = Len(devices') BY <1>3, <2>2, <3>1, <3>3
    <3> QED BY <2>3, <3>2, <3>3
  <2> QED BY <2>4, <2>5, <2>6 DEF Found
<1> QED BY <1>4, <1>5

\* Every step keeps what is found.
LEMMA FoundKept == Inv /\ Found /\ [Next]_vars => Found'
<1> SUFFICES ASSUME Inv, Found, [Next]_vars PROVE Found' OBVIOUS
<1>1. CASE ata_identify
  <2>1. slot \in Slots /\ slot \in Nat BY <1>1 DEF ata_identify, Inv, Typed, TypeOK, Slots
  <2>2. CASE pc' = "identify"
    <3>1. /\ slot' = slot + 1 /\ kind' = kind /\ slot < 4 /\ devices' = devices
          /\ kind[slot] # "disk"
      BY <1>1, <2>2 DEF ata_identify, NextSlot
    <3> QED BY <2>2, <3>1, Passed
  <2>3. CASE pc' # "identify"
    <3>1. /\ Command("identify", slot, 0, 1) /\ pc' = "identified"
          /\ kind[slot] \in {"atapi", "failing", "disk"}
          /\ UNCHANGED <<slot, kind, devices>>
      BY <1>1, <2>3 DEF ata_identify, NextSlot
    <3>2. dev'.state = "busy" /\ dev'.slot = slot BY <3>1, Commanded, OneIsCount
    <3> QED BY <3>1, <3>2 DEF Found
  <2> QED BY <2>2, <2>3
<1>2. CASE identified
  <2>1. /\ pc = "identified" /\ dev.state # "busy" /\ slot' = slot + 1 /\ pc' = "identify"
        /\ kind' = kind /\ slot < 4
    BY <1>2 DEF identified, NextSlot, Inv, Booting
  <2>2. dev.state = "drq" <=> kind[slot] = "disk" BY <2>1 DEF Found
  <2>3. \/ kind[slot] = "disk" /\ devices' = Append(devices, slot)
        \/ kind[slot] # "disk" /\ devices' = devices
    BY <1>2, <2>2 DEF identified
  <2> QED BY <2>1, <2>3, Passed
<1>3. CASE ata_init
  <2>1. slot = 4 /\ pc' = "ready" /\ UNCHANGED <<kind, slot, devices>>
    BY <1>3 DEF ata_init
  <2> QED BY <2>1 DEF Found
<1>4. CASE drive_ready
  <2>1. /\ UNCHANGED <<kind, pc, slot, devices>> /\ dev.state = "busy"
        /\ pc = "identified" => dev.cmd = "identify" /\ dev.slot = slot
    BY <1>4 DEF drive_ready, Inv, Booting, Found
  <2>2. pc = "identified" => /\ dev'.slot = slot
                             /\ dev'.state = IF kind[slot] = "disk" THEN "drq" ELSE "err"
    BY <1>4, <2>1 DEF drive_ready, Inv, Typed, Drive
  <2> QED BY <2>1, <2>2 DEF Found
<1>5. CASE drive_fails
  <2>1. UNCHANGED <<kind, pc, slot, devices>> /\ pc # "identified"
    BY <1>5 DEF drive_fails, Inv, Booting
  <2> QED BY <2>1 DEF Found
<1>6. CASE ata_irq_handler \/ timer_tick \/ UNCHANGED vars
  <2>1. UNCHANGED <<kind, pc, slot, devices, dev>>
    BY <1>6 DEF ata_irq_handler, timer_tick, vars
  <2> QED BY <2>1 DEF Found
<1>7. CASE Requested \/ select \/ command \/ read_poll \/ write_poll \/ wait_halting
           \/ arch_halt \/ wait_done \/ data \/ flush
  <2>1. UNCHANGED <<kind, slot, devices>> /\ pc' \notin {"identify", "identified"}
        /\ pc \notin {"identify", "identified"}
    BY <1>7 DEF Requested, request, select, command, read_poll, write_poll, wait_halting,
                arch_halt, wait_done, AfterWait, data, flush, Inv, Booting
  <2> QED BY <2>1 DEF Found
<1> QED BY <1>1, <1>2, <1>3, <1>4, <1>5, <1>6, <1>7 DEF Next, Driver

\* For every attachment of drives: the block devices are the disks, each once, in the
\* order of their slots, whatever is attached to the others (ata_pio.c:114-241).
THEOREM DisksAreRegistered == Spec => []DisksRegistered
<1>1. Inv /\ Found => DisksRegistered
  <2> SUFFICES ASSUME Inv, Found, slot = 4 PROVE
        /\ {devices[k] : k \in DOMAIN devices} = {s \in Slots : kind[s] = "disk"}
        /\ \A j, k \in DOMAIN devices : j < k => devices[j] < devices[k]
    BY DEF DisksRegistered, Found
  <2>1. devices \in Seq(Slots) /\ DOMAIN devices = 1 .. Len(devices)
    BY SeqDef DEF Inv, Typed
  <2>2. \A j \in 1 .. Len(devices) : devices[j] \in Slots BY <2>1
  <2>3. \A s \in Slots : s < slot BY DEF Slots
  <2> QED BY <2>1, <2>2, <2>3 DEF Found
<1>2. Found /\ Inv /\ [Next]_vars => Found' BY FoundKept
<1> QED BY <1>1, <1>2, FoundInit, Invariance, PTL DEF Spec
-----------------------------------------------------------------------------
(* The driver is the disk it promises *)

\* The driver refines Disk: reads return with all their sectors, writes with all or
\* with an error of the drive, sectors are moved one by one within a request, and an
\* interrupt or a halt is nothing its caller can see (ata_pio.c:260-378).
THEOREM DriverIsDisk == Spec => DiskSpec
<1> DEFINE Refused == dev.state = "err"
<1>1. Init => D!Init BY DEF Init, D!Init, InRequest, Idle
<1>2. Inv /\ [Next]_vars => [D!Next]_D!disk_vars
  <2> SUFFICES ASSUME Inv, [Next]_vars PROVE [D!Next]_D!disk_vars OBVIOUS
  <2> USE DEF InRequest
  <2>1. ASSUME UNCHANGED <<op, moved>>, InRequest' = InRequest,
               Refused' # Refused => (Refused' => ~InRequest \/ op.write)
        PROVE  [D!Next]_D!disk_vars
    <3>1. CASE Refused' = Refused BY <2>1, <3>1 DEF D!disk_vars
    <3>2. CASE Refused' # Refused
      <4>1. Refused' = ~Refused BY <3>2
      <4> QED BY <2>1, <3>2, <4>1 DEF D!Status, D!Next
    <3> QED BY <3>1, <3>2
  <2>2. CASE drive_ready
    <3>1. /\ UNCHANGED <<op, moved, pc>> /\ dev.state = "busy"
          /\ dev.cmd \in {"identify", "read", "first", "write", "flush"}
          /\ dev.cmd # "identify" => dev'.state # "err"
      BY <2>2 DEF drive_ready, Inv, Typed, Drive
    <3>2. dev.cmd = "identify" => ~InRequest
      BY <3>1 DEF Inv, Typed, Points, Between, Under, Reading, Writing, Asking
    <3> QED BY <2>1, <3>1, <3>2
  <2>3. CASE drive_fails
    <3>1. /\ UNCHANGED <<op, moved, pc>> /\ dev.state = "busy" /\ dev.cmd \in {"first", "write"}
      BY <2>3 DEF drive_fails
    <3>2. InRequest => op.write
      BY <3>1 DEF Inv, Typed, Points, Between, Under, Reading, Asking
    <3> QED BY <2>1, <3>1, <3>2
  <2>4. CASE ata_irq_handler \/ timer_tick \/ wait_halting \/ arch_halt \/ select \/ read_poll
             \/ UNCHANGED vars
    <3>1. UNCHANGED <<op, moved, dev>> /\ InRequest' = InRequest
      BY <2>4 DEF ata_irq_handler, timer_tick, wait_halting, arch_halt, select, read_poll,
                  hw_vars, vars
    <3> QED BY <2>1, <3>1
  <2>5. CASE ata_identify \/ identified \/ ata_init
    <3>1. UNCHANGED <<op, moved>> /\ InRequest' = InRequest /\ ~InRequest
      BY <2>5 DEF ata_identify, identified, ata_init, NextSlot
    <3> QED BY <2>1, <3>1
  <2>6. CASE command \/ flush
    <3>1. UNCHANGED <<op, moved>> /\ InRequest' = InRequest /\ dev'.state = "busy"
      BY <2>6 DEF command, flush, Command
    <3> QED BY <2>1, <3>1
  <2>7. CASE Requested
    <3>1. PICK w \in BOOLEAN, k \in DOMAIN devices, lba \in Lbas, n \in 1 .. CountMod :
            request(w, devices[k], lba, n)
      BY <2>7 DEF Requested
    <3>2. devices \in Seq(Slots) BY DEF Inv, Typed
    <3>3. devices[k] \in Slots BY <3>1, <3>2, SeqDef
    <3>4. PICK r \in D!Requests :
            r = [write |-> w, slot |-> devices[k], lba |-> lba, count |-> n]
      BY <3>3 DEF D!Requests
    <3>5. D!Begin(r) BY <3>1, <3>4 DEF request, D!Begin, hw_vars
    <3> QED BY <3>5 DEF D!Next
  <2>8. CASE write_poll
    <3>1. UNCHANGED <<op, moved, dev>> /\ pc = "drq" /\ op.write
      BY <2>8 DEF write_poll, hw_vars, Inv, Under, Asking
    <3>2. CASE dev.state = "err"
      <4>1. pc' = "ready" BY <2>8, <3>2 DEF write_poll
      <4>2. D!EndWrite BY <3>1, <3>2, <4>1 DEF D!EndWrite
      <4> QED BY <4>2 DEF D!Next
    <3>3. CASE dev.state # "err"
      <4>1. pc' = "data" BY <2>8, <3>3 DEF write_poll
      <4> QED BY <2>1, <3>1, <4>1
    <3> QED BY <3>2, <3>3
  <2>9. CASE wait_done
    <3>1. UNCHANGED <<op, moved, dev>> /\ pc \in {"wait", "flushed"} /\ pc' = AfterWait
      BY <2>9 DEF wait_done, hw_vars
    <3>2. CASE pc = "wait"
      <4>1. pc' \in {"data", "drq", "flush"} BY <3>1, <3>2 DEF AfterWait
      <4> QED BY <2>1, <3>1, <3>2, <4>1
    <3>3. CASE pc = "flushed"
      <4>1. pc' = "ready" BY <3>1, <3>3 DEF AfterWait
      <4>2. op.write /\ Len(moved) = op.count BY <3>3 DEF Inv, Under, All
      <4>3. D!EndWrite BY <3>1, <3>3, <4>1, <4>2 DEF D!EndWrite
      <4> QED BY <4>3 DEF D!Next
    <3> QED BY <3>1, <3>2, <3>3
  <2>10. CASE data
    <3>1. /\ pc = "data" /\ dev.state = "drq" /\ dev.next = op.lba + Len(moved)
          /\ Len(moved) < op.count
      BY <2>10 DEF data, Inv, Under, Next1, Some
    <3>2. /\ op' = op /\ moved' = Append(moved, op.lba + Len(moved)) /\ dev'.state # "err"
          /\ pc' = (IF op.write \/ Len(moved') < op.count THEN "wait" ELSE "ready")
      BY <2>10, <3>1 DEF data, Transfer, Inv, Typed, Drive
    <3>3. InRequest' = (op.write \/ Len(moved') < op.count)
      <4>1. op.write \in BOOLEAN BY DEF Inv, Typed, Request
      <4> QED BY <3>2, <4>1
    <3>4. D!Move BY <3>1, <3>2, <3>3 DEF D!Move
    <3> QED BY <3>4 DEF D!Next
  <2> QED
    BY <2>2, <2>3, <2>4, <2>5, <2>6, <2>7, <2>8, <2>9, <2>10 DEF Next, Driver
<1> QED BY <1>1, <1>2, Invariance, PTL DEF Spec, DiskSpec, D!Spec
=============================================================================
