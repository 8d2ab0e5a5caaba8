----------------------------- MODULE ClockProofs -----------------------------
(***************************************************************************)
(* Timers fire right but for three windows, none is forgotten, and a sleep *)
(* is long enough: for every frequency, width of the halves of g_ticks,    *)
(* number of timers and depth of nested ticks.                             *)
(***************************************************************************)
EXTENDS Clock, SequenceTheorems, TLAPS

\* What the fields of a timer, a promise, a handler's frame and a call may hold.
Timers == [delay : Nat, active : BOOLEAN, callback : Callbacks \cup {NULL}]
Promises == [state : {"none", "set", "spoiled"}, due : Nat, made : Nat,
             callback : Callbacks \cup {NULL}]
Frames == [at : {"low", "high", "scan", "fire", "call"}, i : 0 .. MAX_TIMERS, now : Nat,
           stale : BOOLEAN, torn : BOOLEAN]
Fields == {"delay", "active", "callback"}
Calls  == [ms : Nat, callback : Callbacks \cup {NULL}, low : Nat, current_ms : Nat,
           slot : 0 .. MAX_TIMERS, to_store : SUBSET Fields, start : Nat]
Points == {"idle", "high", "find", "store", "sleep", "sleep_high", "slept"}

\* The clock counts seconds and the rest of one.
Counted ==
    /\ g_ticks \in 0 .. MaxTicks /\ tick_divider \in 0 .. Frequency - 1
    /\ g_seconds \in Nat /\ g_seconds * Frequency + tick_divider = g_ticks

\* The stack of handlers: while it is empty interrupts are enabled.
Stacked ==
    /\ handlers \in Seq(Frames) /\ Len(handlers) <= MaxNested
    /\ enabled \in BOOLEAN /\ (handlers = <<>> => enabled)

\* The timers, the promises and the locals of the thread.
Held ==
    /\ g_timers \in [TimerIds -> Timers] /\ promise \in [TimerIds -> Promises]
    /\ call \in Calls /\ pc \in Points /\ spoiled \in BOOLEAN

\* Has the low half of g_ticks not overflowed since the call began?
SameHigh == High(call.start) = High(g_ticks)

\* What the readings of a call are worth while that is so.
Sleeping ==
    /\ pc # "idle" => call.start <= g_ticks
    /\ pc = "high" => call.low = Low(call.start)
    /\ (pc \in {"sleep", "sleep_high", "slept"} /\ SameHigh) => call.current_ms = call.start
    /\ (pc = "sleep_high" /\ SameHigh) => call.low + High(g_ticks) <= g_ticks
    /\ (pc = "slept" /\ SameHigh) => g_ticks - call.start >= call.ms

\* What a call that is not spoiled has read and stored so far.
Storing ==
    /\ pc = "high" => call.to_store \in {{}, Fields} /\ (~spoiled => SameHigh)
    /\ pc = "find" => call.to_store = Fields
    /\ pc = "store" => call.slot \in TimerIds
    /\ (pc \in {"find", "store"} /\ ~spoiled) => call.current_ms = call.start
    /\ (pc = "store" /\ ~spoiled) =>
         /\ "delay" \notin call.to_store =>
              g_timers[call.slot].delay = call.current_ms + call.ms
         /\ "callback" \notin call.to_store =>
              g_timers[call.slot].callback = call.callback

\* Is slot i being filled by the thread?
Filling(i) == pc = "store" /\ call.slot = i

\* An active timer is promised to someone, and a promise says what the timer holds.
Promised ==
    \A i \in TimerIds :
      /\ g_timers[i].active => promise[i].state # "none" \/ Filling(i)
      /\ promise[i].state = "set" => /\ g_timers[i].delay = promise[i].due
                                     /\ g_timers[i].callback = promise[i].callback

\* What may be called for slot i.
Right(i) ==
    \/ promise[i].state = "spoiled" \/ Filling(i)
    \/ /\ promise[i].state = "set" /\ g_ticks >= promise[i].due
       /\ g_timers[i].callback = promise[i].callback

\* A handler that read g_ticks without a carry has not read the future; and what
\* it is about to call, if nothing got in its way, is right and no longer active.
FrameOk(f) ==
    /\ f.at \in {"fire", "call"} => f.i \in TimerIds
    /\ (f.at = "high" /\ ~f.torn) => f.now + High(g_ticks) <= g_ticks
    /\ (f.at \in {"scan", "fire", "call"} /\ ~f.torn) => f.now <= g_ticks
    /\ f.at = "call" => ~g_timers[f.i].active
    /\ (f.at \in {"fire", "call"} /\ ~f.stale /\ ~f.torn) => Right(f.i)

\* An interrupted handler that stood before the reset of active is stale, and no
\* handler above another is about to call the same timer.
Nested ==
    /\ \A k \in 1 .. Len(handlers) : FrameOk(handlers[k])
    /\ \A k, m \in 1 .. Len(handlers) :
         k < m => /\ handlers[k].at = "fire" => handlers[k].stale
                  /\ (handlers[k].at = "call" /\ handlers[m].at \in {"fire", "call"})
                       => handlers[k].i # handlers[m].i

Inv == Counted /\ Stacked /\ Held /\ Sleeping /\ Storing /\ Promised /\ Nested

\* A tick between the stores of a timer spoils it, so what is not spoiled and has
\* been marked active still is.
Spoiling ==
    pc = "store" =>
      /\ handlers # <<>> => spoiled
      /\ ~spoiled /\ "active" \notin call.to_store => g_timers[call.slot].active

\* A promised timer that is no longer active is about to be called.
Pending ==
    \A i \in TimerIds :
      (promise[i].state = "set" /\ ~g_timers[i].active) =>
        \E k \in 1 .. Len(handlers) : handlers[k].at = "call" /\ handlers[k].i = i

\* Will a handler at f still come to slot i, late enough for what is due then?
Covers(f, i, due) ==
    \/ f.at = "low"
    \/ f.at = "high" /\ f.now + High(g_ticks) >= due
    \/ f.at \in {"scan", "fire", "call"} /\ f.i <= i /\ f.now >= due
    \/ f.at \in {"fire", "call"} /\ f.i = i

\* A timer that is due was made in this tick, or some handler will come to it.
Covered ==
    \A i \in TimerIds :
      (promise[i].state = "set" /\ promise[i].due <= g_ticks) =>
        \/ handlers = <<>> /\ g_ticks = promise[i].made
        \/ \E k \in 1 .. Len(handlers) : Covers(handlers[k], i, promise[i].due)

\* The scan begins at the first slot.
FromFirst ==
    \A k \in 1 .. Len(handlers) : handlers[k].at \in {"low", "high"} => handlers[k].i = 0

Inv2 == Spoiling /\ Pending /\ Covered /\ FromFirst
-----------------------------------------------------------------------------
(* Lemmas *)

\* Division with remainder, in a form the provers find.
LEMMA Divided ==
    ASSUME NEW t \in Int, NEW d \in Int, d > 0,
           NEW q \in Int, q = t \div d, NEW r \in Int, r = t % d
    PROVE  t = d * q + r
BY SMT

\* The halves of a 64-bit word add up to it.
LEMMA Halves ==
    ASSUME NEW t \in Nat
    PROVE  Low(t) \in Nat /\ High(t) \in Nat /\ Low(t) + High(t) = t /\ Low(t) < Radix
<1>1. Radix \in Nat /\ Radix > 0 BY ClockAssumption
<1>2. t % Radix \in 0 .. Radix - 1 BY <1>1, SMT
<1>3. PICK q \in Nat : q = t \div Radix BY <1>1, SMT
<1>4. PICK r \in Nat : r = t % Radix BY <1>2
<1>5. t = Radix * q + r BY <1>1, <1>3, <1>4, Divided
<1>6. PICK h \in Nat : h = q * Radix /\ h = Radix * q BY <1>1, <1>3, SMT
<1>7. High(t) = h /\ Low(t) = r BY <1>3, <1>4, <1>6 DEF High, Low
<1>8. t = h + r /\ r < Radix BY <1>1, <1>2, <1>4, <1>5, <1>6
<1> QED BY <1>4, <1>6, <1>7, <1>8

\* A greater word does not have a lesser high half.
LEMMA HighGrows ==
    ASSUME NEW a \in Nat, NEW b \in Nat, a <= b
    PROVE  High(a) <= High(b)
<1>1. Radix \in Nat /\ Radix > 0 BY ClockAssumption
<1>2. PICK p \in Nat, q \in Nat : p = a \div Radix /\ q = b \div Radix BY <1>1, SMT
<1>3. High(a) = p * Radix /\ High(b) = q * Radix BY <1>2 DEF High
<1>4. p * Radix <= a /\ b < q * Radix + Radix
  BY <1>1, <1>3, Halves
<1>5. p <= q
  <2>1. SUFFICES ASSUME p >= q + 1 PROVE FALSE BY <1>2
  <2>2. p * Radix >= (q + 1) * Radix BY <1>1, <2>1, SMT
  <2>3. (q + 1) * Radix = q * Radix + Radix BY <1>1, SMT
  <2>4. q * Radix \in Nat /\ p * Radix \in Nat BY <1>1, SMT
  <2> QED BY <1>1, <1>4, <2>2, <2>3, <2>4
<1>6. p * Radix <= q * Radix BY <1>1, <1>5, SMT
<1> QED BY <1>3, <1>6

\* Between two words with one high half there is only that half.
LEMMA HighBetween ==
    ASSUME NEW a \in Nat, NEW b \in Nat, NEW c \in Nat, a <= b, b <= c, High(a) = High(c)
    PROVE  High(b) = High(a)
<1>1. High(a) <= High(b) /\ High(b) <= High(c) BY HighGrows
<1>2. High(a) \in Nat /\ High(b) \in Nat BY Halves
<1> QED BY <1>1, <1>2

\* The top of the stack is a frame, and changing it leaves a stack of the same depth.
LEMMA TopIsFrame ==
    ASSUME Stacked, handlers # <<>>
    PROVE  /\ Len(handlers) \in 1 .. Len(handlers) /\ Top \in Frames
           /\ \A f \in Frames :
                /\ [handlers EXCEPT ![Len(handlers)] = f] \in Seq(Frames)
                /\ Len([handlers EXCEPT ![Len(handlers)] = f]) = Len(handlers)
                /\ [handlers EXCEPT ![Len(handlers)] = f] # <<>>
                /\ \A k \in 1 .. Len(handlers) :
                     [handlers EXCEPT ![Len(handlers)] = f][k]
                       = IF k = Len(handlers) THEN f ELSE handlers[k]
<1>1. handlers \in Seq(Frames) BY DEF Stacked
<1>2. Len(handlers) \in 1 .. Len(handlers) BY <1>1, EmptySeq, SMT
<1>3. Top \in Frames BY <1>1, <1>2, ElementOfSeq DEF Top
<1>4. ASSUME NEW f \in Frames
      PROVE  /\ [handlers EXCEPT ![Len(handlers)] = f] \in Seq(Frames)
             /\ Len([handlers EXCEPT ![Len(handlers)] = f]) = Len(handlers)
             /\ \A k \in 1 .. Len(handlers) :
                  [handlers EXCEPT ![Len(handlers)] = f][k]
                    = IF k = Len(handlers) THEN f ELSE handlers[k]
  BY <1>1, <1>2, ExceptSeq
<1>5. ASSUME NEW f \in Frames
      PROVE  [handlers EXCEPT ![Len(handlers)] = f] # <<>>
  BY <1>1, <1>2, <1>4, EmptySeq
<1> QED BY <1>2, <1>3, <1>4, <1>5

\* A step of the handler on top keeps Nested if the frames below stay right and the
\* new top is right and calls no timer that one of them is calling.
LEMMA TopNested ==
    ASSUME Stacked, Nested, handlers # <<>>, NEW f \in Frames,
           handlers' = [handlers EXCEPT ![Len(handlers)] = f],
           \A x \in Frames :
             (\E k \in 1 .. Len(handlers) - 1 : x = handlers[k]) => FrameOk(x)',
           FrameOk(f)',
           \A k \in 1 .. Len(handlers) - 1 :
             (handlers[k].at = "call" /\ f.at \in {"fire", "call"}) => handlers[k].i # f.i
    PROVE  Nested'
<1>0. handlers \in Seq(Frames) /\ Len(handlers) \in Nat /\ Len(handlers) >= 1
  BY TopIsFrame DEF Stacked
<1>1. /\ Len(handlers') = Len(handlers)
      /\ \A k \in 1 .. Len(handlers) :
           handlers'[k] = IF k = Len(handlers) THEN f ELSE handlers[k]
  BY TopIsFrame
<1>2. \A k \in 1 .. Len(handlers) - 1 : handlers[k] \in Frames
  BY <1>0, ElementOfSeq
<1>3. (\A k \in 1 .. Len(handlers) : FrameOk(handlers[k]))'
  <2> SUFFICES ASSUME NEW k \in 1 .. Len(handlers') PROVE FrameOk(handlers[k])'
    OBVIOUS
  <2>1. CASE k = Len(handlers) BY <1>1, <2>1 DEF FrameOk, Right, Filling
  <2>2. CASE k \in 1 .. Len(handlers) - 1
    <3>1. PICK x \in Frames : x = handlers[k] BY <1>2, <2>2
    <3>2. FrameOk(x)' BY <2>2, <3>1
    <3>3. handlers'[k] = x BY <1>0, <1>1, <2>2, <3>1
    <3> QED BY <3>2, <3>3 DEF FrameOk, Right, Filling
  <2>3. PICK n \in Nat : n = Len(handlers) BY <1>0
  <2>4. Len(handlers') = n BY <1>1, <2>3
  <2>5. k = n \/ k \in 1 .. n - 1 BY <2>4
  <2> QED BY <2>1, <2>2, <2>3, <2>5
<1>4. ASSUME NEW k \in 1 .. Len(handlers'), NEW m \in 1 .. Len(handlers'), k < m
      PROVE  /\ handlers'[k].at = "fire" => handlers'[k].stale
             /\ (handlers'[k].at = "call" /\ handlers'[m].at \in {"fire", "call"})
                  => handlers'[k].i # handlers'[m].i
  <2>1. k \in 1 .. Len(handlers) - 1 /\ handlers'[k] = handlers[k]
    <3>1. PICK n \in Nat : n = Len(handlers) BY <1>0
    <3>2. Len(handlers') = n BY <1>1, <3>1
    <3>3. k \in 1 .. n - 1 /\ k # n /\ k \in 1 .. n BY <1>4, <3>2
    <3>4. handlers'[k] = handlers[k] BY <1>1, <3>1, <3>3
    <3> QED BY <3>1, <3>3, <3>4
  <2>2. CASE m = Len(handlers)
    <3>1. handlers'[m] = f BY <1>1, <2>2, <1>0
    <3>2. handlers[k].at = "fire" => handlers[k].stale BY <1>0, <2>1 DEF Nested
    <3> QED BY <2>1, <3>1, <3>2
  <2>3. CASE m # Len(handlers)
    <3>1. m \in 1 .. Len(handlers) /\ handlers'[m] = handlers[m] BY <1>0, <1>1, <2>3
    <3> QED BY <1>0, <1>4, <2>1, <3>1 DEF Nested
  <2> QED BY <2>2, <2>3
<1> QED BY <1>3, <1>4 DEF Nested

\* Without handlers there is nothing nested.
LEMMA NoneNested == handlers' = <<>> => Nested'
<1>1. Len(<<>>) = 0 BY EmptySeq
<1> QED BY <1>1 DEF Nested

\* At boot the clock stands at zero and nothing has begun.
LEMMA Initially == Init => Inv
<1> SUFFICES ASSUME Init PROVE Inv OBVIOUS
<1> USE ClockAssumption DEF Init, NoCall, NoPromise
<1>1. Counted
  <2>1. 0 * Frequency + 0 = 0 BY SMT
  <2>2. 0 \in 0 .. MaxTicks /\ 0 \in 0 .. Frequency - 1 BY SMT
  <2> QED BY <2>1, <2>2 DEF Counted
<1>2. Stacked
  <2>1. <<>> \in Seq(Frames) /\ Len(<<>>) = 0 BY EmptySeq
  <2> QED BY <2>1 DEF Stacked
<1>3. Held
  <2>1. 0 \in 0 .. MAX_TIMERS OBVIOUS
  <2>2. call \in Calls BY <2>1 DEF Calls
  <2>3. promise \in [TimerIds -> Promises] BY DEF Promises
  <2> QED BY <2>2, <2>3 DEF Held, Timers, Points
<1>4. Sleeping /\ Storing BY DEF Sleeping, Storing
<1>5. Promised BY DEF Promised
<1>6. Nested
  <2>1. Len(<<>>) = 0 BY EmptySeq
  <2> QED BY <2>1 DEF Nested
<1> QED BY <1>1, <1>2, <1>3, <1>4, <1>5, <1>6 DEF Inv
-----------------------------------------------------------------------------
(* The tick's handler *)

\* What a nested tick makes of the stack: the ghosts of the frames that stand in
\* one of the two windows are set.
LEMMA TickInterrupts ==
    ASSUME Stacked, tick
    PROVE  /\ Len(handlers) \in Nat /\ handlers' \in Seq(Frames)
           /\ Len(handlers') = Len(handlers) + 1 /\ handlers' # <<>>
           /\ handlers'[Len(handlers) + 1] = Started
           /\ \A k \in 1 .. Len(handlers) :
                /\ handlers[k] \in Frames
                /\ handlers'[k].at = handlers[k].at /\ handlers'[k].i = handlers[k].i
                /\ handlers'[k].now = handlers[k].now
                /\ handlers'[k].stale = (handlers[k].stale \/ handlers[k].at = "fire")
                /\ handlers'[k].torn = (handlers[k].torn \/ (handlers[k].at = "high" /\ Carry))
<1>1. handlers \in Seq(Frames) /\ Len(handlers) \in Nat /\ DOMAIN handlers = 1 .. Len(handlers)
  BY DEF Stacked
<1>2. \A k \in 1 .. Len(handlers) : handlers[k] \in Frames BY <1>1, ElementOfSeq
<1>3. \A x \in Frames, a \in BOOLEAN, b \in BOOLEAN :
        [x EXCEPT !.stale = a, !.torn = b] \in Frames
  BY DEF Frames
<1>4. \A k \in 1 .. Len(handlers) :
        /\ (handlers[k].stale \/ handlers[k].at = "fire") \in BOOLEAN
        /\ (handlers[k].torn \/ (handlers[k].at = "high" /\ Carry)) \in BOOLEAN
  BY <1>2 DEF Frames
<1>5. Interrupted \in [1 .. Len(handlers) -> Frames]
  BY <1>1, <1>2, <1>3, <1>4, Zenon DEF Interrupted
<1>6. Interrupted \in Seq(Frames) /\ Len(Interrupted) = Len(handlers)
  BY <1>1, <1>5
<1>7. Started \in Frames BY ClockAssumption DEF Started, Frames
<1>8. /\ handlers' \in Seq(Frames) /\ Len(handlers') = Len(handlers) + 1 /\ handlers' # <<>>
      /\ handlers'[Len(handlers) + 1] = Started
      /\ \A k \in 1 .. Len(handlers) : handlers'[k] = Interrupted[k]
  BY <1>6, <1>7, AppendProperties DEF tick
<1>9. \A k \in 1 .. Len(handlers) :
        Interrupted[k] = [handlers[k] EXCEPT
                     !.stale = handlers[k].stale \/ handlers[k].at = "fire",
                     !.torn = handlers[k].torn \/ (handlers[k].at = "high" /\ Carry)]
  BY <1>1, Zenon DEF Interrupted
<1>10. \A k \in 1 .. Len(handlers) :
         /\ handlers'[k].at = handlers[k].at /\ handlers'[k].i = handlers[k].i
         /\ handlers'[k].now = handlers[k].now
         /\ handlers'[k].stale = (handlers[k].stale \/ handlers[k].at = "fire")
         /\ handlers'[k].torn = (handlers[k].torn \/ (handlers[k].at = "high" /\ Carry))
  <2> TAKE k \in 1 .. Len(handlers)
  <2>1. PICK x \in Frames : x = handlers[k] BY <1>2
  <2>2. PICK a \in BOOLEAN : a = (handlers[k].stale \/ handlers[k].at = "fire") BY <1>4, Zenon
  <2>3. PICK b \in BOOLEAN : b = (handlers[k].torn \/ (handlers[k].at = "high" /\ Carry))
    BY <1>4, Zenon
  <2>4. handlers'[k] = [x EXCEPT !.stale = a, !.torn = b]
    BY <1>8, <1>9, <2>1, <2>2, <2>3, Zenon
  <2>5. /\ handlers'[k].at = x.at /\ handlers'[k].i = x.i /\ handlers'[k].now = x.now
        /\ handlers'[k].stale = a /\ handlers'[k].torn = b
    BY <2>4 DEF Frames
  <2> QED BY <2>1, <2>2, <2>3, <2>5, Zenon
<1> QED BY <1>1, <1>2, <1>8, <1>10

\* A tick counts; what a call has read keeps its worth while the high half stays.
LEMMA TickKeeps == Inv /\ tick => Inv'
<1> SUFFICES ASSUME Inv, tick PROVE Inv' OBVIOUS
<1> USE ClockAssumption DEF Inv
<1>0. /\ g_ticks' = g_ticks + 1 /\ UNCHANGED <<g_timers, pc, call, promise>>
      /\ spoiled' = (spoiled \/ pc = "store" \/ (pc = "high" /\ Carry))
  BY DEF tick
<1>1. g_ticks \in Nat /\ g_ticks' \in Nat /\ High(g_ticks) \in Nat /\ High(g_ticks') \in Nat
      /\ (Carry <=> High(g_ticks') # High(g_ticks))
  BY <1>0, Halves DEF Counted, Carry
<1>2. Counted'
  <2>1. g_seconds \in Nat /\ tick_divider \in 0 .. Frequency - 1
        /\ g_seconds * Frequency + tick_divider = g_ticks
    BY DEF Counted
  <2>2. g_ticks' \in 0 .. MaxTicks BY <1>1 DEF tick
  <2>3. (g_seconds + 1) * Frequency = g_seconds * Frequency + Frequency
        /\ g_seconds * Frequency \in Nat
    BY <2>1, SMT
  <2>4. CASE tick_divider + 1 = Frequency
    BY <1>1, <2>1, <2>2, <2>3, <2>4, SMT DEF Counted, tick
  <2>5. CASE tick_divider + 1 # Frequency
    BY <1>1, <2>1, <2>2, <2>3, <2>5, SMT DEF Counted, tick
  <2> QED BY <2>4, <2>5
<1>3. Stacked'
  <2>1. Len(handlers) < MaxNested /\ enabled' \in BOOLEAN BY DEF tick
  <2>2. /\ Len(handlers) \in Nat /\ handlers' \in Seq(Frames)
        /\ Len(handlers') = Len(handlers) + 1 /\ handlers' # <<>>
    BY TickInterrupts
  <2> QED BY <2>1, <2>2 DEF Stacked
<1>4. Held'
  <2>1. spoiled' \in BOOLEAN BY <1>0 DEF Held
  <2> QED BY <1>0, <2>1 DEF Held
<1>5. call \in Calls /\ call.start \in Nat /\ call.ms \in Nat /\ call.low \in Nat
  BY DEF Held, Calls
<1>6. Sleeping'
  <2>1. ASSUME pc # "idle", SameHigh' PROVE SameHigh /\ High(g_ticks') = High(g_ticks)
    <3>1. call.start <= g_ticks /\ g_ticks <= g_ticks' BY <1>0, <1>1, <2>1 DEF Sleeping
    <3>2. High(call.start) = High(g_ticks') BY <1>0, <2>1 DEF SameHigh
    <3>3. High(g_ticks) = High(call.start) BY <1>1, <1>5, <3>1, <3>2, HighBetween
    <3> QED BY <3>2, <3>3 DEF SameHigh
  <2> QED BY <1>0, <1>1, <1>5, <2>1 DEF Sleeping
<1>7. Storing'
  <2>1. pc = "high" /\ ~spoiled' => SameHigh'
    BY <1>0, <1>1 DEF Storing, SameHigh
  <2> QED BY <1>0, <2>1 DEF Storing
<1>8. Promised' BY <1>0 DEF Promised, Filling
<1>9. Nested'
  <2>1. PICK n \in Nat : n = Len(handlers) BY TickInterrupts
  <2>2. /\ Len(handlers') = n + 1 /\ handlers'[n + 1] = Started
        /\ \A k \in 1 .. n :
             /\ handlers[k] \in Frames /\ FrameOk(handlers[k])
             /\ handlers'[k].at = handlers[k].at /\ handlers'[k].i = handlers[k].i
             /\ handlers'[k].now = handlers[k].now
             /\ handlers'[k].stale = (handlers[k].stale \/ handlers[k].at = "fire")
             /\ handlers'[k].torn = (handlers[k].torn \/ (handlers[k].at = "high" /\ Carry))
    BY <2>1, TickInterrupts, Zenon DEF Nested
  <2>3. \A i \in TimerIds : Right(i) => Right(i)'
    BY <1>0, <1>1 DEF Right, Filling, Held, Promises
  <2>4. ASSUME NEW k \in 1 .. n PROVE FrameOk(handlers[k])'
    <3>1. handlers[k].now \in Nat /\ handlers[k].stale \in BOOLEAN /\ handlers[k].torn \in BOOLEAN
      BY <2>2 DEF Frames
    <3>2. CASE handlers[k].at = "high"
      <4>1. handlers'[k].at = "high" /\ handlers'[k].now = handlers[k].now BY <2>2, <3>2
      <4>2. ~handlers'[k].torn => ~handlers[k].torn /\ ~Carry BY <2>2, <3>1, <3>2
      <4>3. ~handlers[k].torn => handlers[k].now + High(g_ticks) <= g_ticks
        BY <2>2, <3>2 DEF FrameOk
      <4>4. ~handlers'[k].torn => handlers'[k].now + High(g_ticks') <= g_ticks'
        BY <1>0, <1>1, <3>1, <4>1, <4>2, <4>3
      <4> QED BY <4>1, <4>4 DEF FrameOk
    <3>3. CASE handlers[k].at # "high"
      <4>1. /\ handlers'[k].torn = handlers[k].torn
            /\ ~handlers'[k].stale => ~handlers[k].stale
        BY <2>2, <3>1, <3>3
      <4>2. handlers[k].at \in {"fire", "call"} =>
              handlers'[k].i \in TimerIds /\ (Right(handlers[k].i) => Right(handlers[k].i)')
        BY <1>0, <1>1, <2>2 DEF FrameOk, Right, Filling, Held, Promises
      <4> QED BY <1>0, <1>1, <2>2, <2>3, <3>1, <3>3, <4>1, <4>2 DEF FrameOk, Right, Filling
    <3> QED BY <3>2, <3>3
  <2>5. FrameOk(handlers[n + 1])' BY <2>2 DEF Started, FrameOk
  <2>6. ASSUME NEW k \in 1 .. n + 1, NEW m \in 1 .. n + 1, k < m
        PROVE  /\ handlers'[k].at = "fire" => handlers'[k].stale
               /\ (handlers'[k].at = "call" /\ handlers'[m].at \in {"fire", "call"})
                    => handlers'[k].i # handlers'[m].i
    <3>1. k \in 1 .. n BY <2>6
    <3>4. handlers'[k].at = "fire" => handlers'[k].stale BY <2>2, <3>1
    <3>2. CASE m = n + 1
      <4>1. handlers'[m].at = "low" BY <2>2, <3>2 DEF Started
      <4> QED BY <3>4, <4>1
    <3>3. CASE m \in 1 .. n
      <4>1. (handlers[k].at = "call" /\ handlers[m].at \in {"fire", "call"})
              => handlers[k].i # handlers[m].i
        BY <2>1, <2>6, <3>1, <3>3 DEF Nested
      <4> QED BY <2>2, <3>1, <3>3, <3>4, <4>1
    <3>5. m = n + 1 \/ m \in 1 .. n OBVIOUS
    <3> QED BY <3>2, <3>3, <3>5
  <2>7. \A k \in 1 .. n + 1 : FrameOk(handlers[k])'
    <3> SUFFICES ASSUME NEW k \in 1 .. n + 1 PROVE FrameOk(handlers[k])' OBVIOUS
    <3>1. CASE k = n + 1 BY <2>5, <3>1
    <3>2. CASE k \in 1 .. n BY <2>4, <3>2
    <3> QED BY <3>1, <3>2
  <2> QED BY <2>2, <2>6, <2>7 DEF Nested
<1> QED BY <1>2, <1>3, <1>4, <1>6, <1>7, <1>8, <1>9

\* The handler's reads of g_ticks, and a timer that is not due or about to fire.
LEMMA ScanKeeps ==
    ASSUME Inv, read_now_low \/ read_now_high \/ scan_timer
    PROVE  Inv'
<1> USE DEF Inv, tick_vars
<1>0. /\ handlers # <<>>
      /\ UNCHANGED <<tick_vars, pc, call, g_timers, promise, spoiled, enabled>>
  BY DEF read_now_low, read_now_high, scan_timer, Handling
<1>1. Top \in Frames /\ FrameOk(Top) /\ g_ticks \in Nat /\ Low(g_ticks) \in Nat
      /\ High(g_ticks) \in Nat /\ Low(g_ticks) + High(g_ticks) = g_ticks
  <2>1. g_ticks \in Nat BY DEF Counted
  <2> QED BY <1>0, <2>1, TopIsFrame, Halves DEF Nested, Top
<1>2. \E f \in Frames :
        /\ handlers' = [handlers EXCEPT ![Len(handlers)] = f]
        /\ FrameOk(f)
        /\ f.at = "call" => FALSE
        /\ f.at = "fire" => g_timers[f.i].active
  <2>1. CASE read_now_low
    <3>1. PICK l \in Nat : l = Low(g_ticks) BY <1>1
    <3>2. PICK f \in Frames : f = [Top EXCEPT !.at = "high", !.now = l]
      BY <1>1 DEF Frames
    <3>3. f.at = "high" /\ f.now = l BY <1>1, <3>2 DEF Frames
    <3>4. FrameOk(f) BY <1>1, <3>1, <3>3 DEF FrameOk
    <3> QED BY <2>1, <3>1, <3>2, <3>3, <3>4 DEF read_now_low, SetTop
  <2>2. CASE read_now_high
    <3>1. PICK h \in Nat : h = Top.now + High(g_ticks) BY <1>1 DEF Frames
    <3>2. PICK f \in Frames : f = [Top EXCEPT !.at = "scan", !.now = h]
      BY <1>1 DEF Frames
    <3>3. f.at = "scan" /\ f.now = h /\ f.torn = Top.torn BY <1>1, <3>2 DEF Frames
    <3>4. ~Top.torn => h <= g_ticks
      BY <1>1, <2>2, <3>1 DEF FrameOk, read_now_high, Handling
    <3>5. FrameOk(f) BY <3>3, <3>4 DEF FrameOk
    <3> QED BY <2>2, <3>1, <3>2, <3>3, <3>5 DEF read_now_high, SetTop
  <2>3. CASE scan_timer
    <3>0. Top.at = "scan" /\ Top.i \in 0 .. MAX_TIMERS /\ Top.i < MAX_TIMERS
      BY <1>1, <2>3 DEF scan_timer, Handling, Frames
    <3>1. Top.i \in TimerIds /\ Top.i + 1 \in 0 .. MAX_TIMERS
      BY <3>0, ClockAssumption DEF TimerIds
    <3>2. CASE ~Due(Top.i, Top.now)
      <4>1. PICK j \in 0 .. MAX_TIMERS : j = Top.i + 1 BY <3>1
      <4>2. PICK f \in Frames : f = [Top EXCEPT !.i = j] BY <1>1 DEF Frames
      <4>3. f.at = "scan" /\ f.now = Top.now /\ f.torn = Top.torn BY <1>1, <3>0, <4>2 DEF Frames
      <4>4. FrameOk(f) BY <1>1, <3>0, <4>3 DEF FrameOk
      <4> QED BY <2>3, <3>2, <4>1, <4>2, <4>3, <4>4 DEF scan_timer, SetTop
    <3>3. CASE Due(Top.i, Top.now)
      <4>1. PICK f \in Frames : f = [Top EXCEPT !.at = "fire"] BY <1>1 DEF Frames
      <4>2. f.at = "fire" /\ f.now = Top.now /\ f.torn = Top.torn /\ f.i = Top.i
        BY <1>1, <4>1 DEF Frames
      <4>3. g_timers[f.i].active /\ f.now >= g_timers[f.i].delay BY <3>3, <4>2 DEF Due
      <4>4. ~f.torn => f.now <= g_ticks BY <1>1, <3>0, <4>2 DEF FrameOk
      <4>5. ~f.torn => Right(f.i)
        <5>1. /\ promise[f.i] \in Promises /\ g_timers[f.i].delay \in Nat /\ f.now \in Nat
          BY <3>1, <4>2 DEF Held, Timers, Frames
        <5> QED BY <1>1, <3>1, <4>2, <4>3, <4>4, <5>1 DEF Promised, Right, Promises
      <4>6. FrameOk(f) BY <3>1, <4>2, <4>4, <4>5 DEF FrameOk
      <4> QED BY <2>3, <3>3, <4>1, <4>2, <4>3, <4>6 DEF scan_timer, SetTop
    <3> QED BY <3>2, <3>3
  <2> QED BY <2>1, <2>2, <2>3
<1>3. PICK f \in Frames :
        /\ handlers' = [handlers EXCEPT ![Len(handlers)] = f]
        /\ FrameOk(f)
        /\ f.at # "call"
        /\ f.at = "fire" => g_timers[f.i].active
  BY <1>2
<1>4. Stacked'
  <2>1. handlers' \in Seq(Frames) /\ Len(handlers') = Len(handlers) /\ handlers' # <<>>
    BY <1>0, <1>3, TopIsFrame
  <2> QED BY <1>0, <2>1 DEF Stacked
<1>5. Nested'
  <2>1. \A x \in Frames : FrameOk(x) => FrameOk(x)'
    BY <1>0 DEF FrameOk, Right, Filling
  <2>2. Len(handlers) \in Nat BY DEF Stacked
  <2>3. \A k \in 1 .. Len(handlers) - 1 : FrameOk(handlers[k])
    BY <2>2 DEF Nested
  <2>4. \A x \in Frames : (\E k \in 1 .. Len(handlers) - 1 : x = handlers[k]) => FrameOk(x)
    BY <2>3
  <2>5. \A x \in Frames : (\E k \in 1 .. Len(handlers) - 1 : x = handlers[k]) => FrameOk(x)'
    BY <2>1, <2>4
  <2>6. \A k \in 1 .. Len(handlers) - 1 :
          (handlers[k].at = "call" /\ f.at \in {"fire", "call"}) => handlers[k].i # f.i
    BY <1>3, <2>3 DEF FrameOk
  <2>7. FrameOk(f)' BY <1>3, <2>1
  <2> QED BY <1>0, <1>3, <2>5, <2>6, <2>7, TopNested
<1>6. Counted' BY <1>0 DEF Counted
<1>7. Held' BY <1>0 DEF Held
<1>8. Sleeping' /\ Storing' BY <1>0 DEF Sleeping, Storing, SameHigh
<1>9. Promised' BY <1>0 DEF Promised, Filling
<1> QED BY <1>4, <1>5, <1>6, <1>7, <1>8, <1>9

\* The reset of active: the timer that was due is now about to be called.
LEMMA FireKeeps == Inv /\ fire_timer => Inv'
<1> SUFFICES ASSUME Inv, fire_timer PROVE Inv' OBVIOUS
<1> USE DEF Inv, tick_vars
<1>0. /\ handlers # <<>> /\ Top.at = "fire"
      /\ UNCHANGED <<tick_vars, pc, call, promise, spoiled, enabled>>
      /\ g_timers' = [g_timers EXCEPT ![Top.i].active = FALSE]
  BY DEF fire_timer, Handling
<1>1. Top \in Frames /\ FrameOk(Top)
  BY <1>0, TopIsFrame DEF Nested, Top
<1>2. PICK f \in Frames : f = [Top EXCEPT !.at = "call"] BY <1>1 DEF Frames
<1>3. /\ f.at = "call" /\ f.i = Top.i /\ f.now = Top.now /\ f.stale = Top.stale
      /\ f.torn = Top.torn
  BY <1>1, <1>2 DEF Frames
<1>4. handlers' = [handlers EXCEPT ![Len(handlers)] = f]
  BY <1>2 DEF fire_timer, SetTop
<1>5. f.i \in TimerIds BY <1>0, <1>1, <1>3 DEF FrameOk
<1>6. /\ g_timers' \in [TimerIds -> Timers] /\ ~g_timers'[f.i].active
      /\ \A i \in TimerIds :
           /\ g_timers'[i].delay = g_timers[i].delay
           /\ g_timers'[i].callback = g_timers[i].callback
           /\ g_timers'[i].active => g_timers[i].active
  BY <1>0, <1>3, <1>5 DEF Held, Timers
<1>7. Stacked'
  <2>1. handlers' \in Seq(Frames) /\ Len(handlers') = Len(handlers) /\ handlers' # <<>>
    BY <1>0, <1>4, TopIsFrame
  <2> QED BY <1>0, <2>1 DEF Stacked
<1>8. Nested'
  <2>1. \A i \in TimerIds : Right(i) => Right(i)'
    BY <1>0, <1>6 DEF Right, Filling
  <2>2. \A x \in Frames : FrameOk(x) => FrameOk(x)'
    BY <1>0, <1>6, <2>1 DEF FrameOk, Right, Filling
  <2>3. Len(handlers) \in Nat BY DEF Stacked
  <2>4. \A x \in Frames : (\E k \in 1 .. Len(handlers) - 1 : x = handlers[k]) => FrameOk(x)
    BY <2>3 DEF Nested
  <2>5. \A x \in Frames : (\E k \in 1 .. Len(handlers) - 1 : x = handlers[k]) => FrameOk(x)'
    BY <2>2, <2>4
  <2>6. \A k \in 1 .. Len(handlers) - 1 : handlers[k].at = "call" => handlers[k].i # f.i
    BY <1>0, <1>3, <2>3 DEF Nested, Top
  <2>7. FrameOk(f)'
    <3>1. ~f.stale /\ ~f.torn => Right(f.i) BY <1>0, <1>1, <1>3 DEF FrameOk
    <3>2. ~f.torn => f.now <= g_ticks BY <1>0, <1>1, <1>3 DEF FrameOk
    <3> QED BY <1>0, <1>3, <1>5, <1>6, <2>1, <3>1, <3>2 DEF FrameOk, Right, Filling
  <2> QED BY <1>0, <1>4, <2>5, <2>6, <2>7, TopNested
<1>9. Counted' BY <1>0 DEF Counted
<1>10. Held' BY <1>0, <1>6 DEF Held
<1>11. Sleeping' BY <1>0 DEF Sleeping, SameHigh
<1>12. Storing' BY <1>0, <1>6 DEF Storing, SameHigh
<1>13. Promised' BY <1>0, <1>6 DEF Promised, Filling
<1> QED BY <1>7, <1>8, <1>9, <1>10, <1>11, <1>12, <1>13

\* The call: the promise is kept, and nobody below is calling that timer.
LEMMA CallKeeps == Inv /\ call_timer => Inv'
<1> SUFFICES ASSUME Inv, call_timer PROVE Inv' OBVIOUS
<1> USE DEF Inv, tick_vars
<1>0. /\ handlers # <<>> /\ Top.at = "call"
      /\ UNCHANGED <<tick_vars, pc, call, g_timers, spoiled>>
      /\ promise' = [promise EXCEPT ![Top.i] = NoPromise]
  BY DEF call_timer, Handling
<1>1. Top \in Frames /\ FrameOk(Top)
  BY <1>0, TopIsFrame DEF Nested, Top
<1>2. Top.i \in TimerIds /\ Top.i + 1 \in 0 .. MAX_TIMERS /\ ~g_timers[Top.i].active
  BY <1>0, <1>1, ClockAssumption DEF FrameOk, TimerIds
<1>3. PICK j \in 0 .. MAX_TIMERS : j = Top.i + 1 BY <1>2
<1>4. PICK f \in Frames : f = [Top EXCEPT !.at = "scan", !.i = j, !.stale = FALSE]
  BY <1>1 DEF Frames
<1>5. f.at = "scan" /\ f.now = Top.now /\ f.torn = Top.torn
  BY <1>1, <1>4 DEF Frames
<1>6. handlers' = [handlers EXCEPT ![Len(handlers)] = f]
  BY <1>3, <1>4 DEF call_timer, SetTop
<1>7. NoPromise \in Promises /\ NoPromise.state = "none" BY DEF NoPromise, Promises
<1>8. /\ promise' \in [TimerIds -> Promises] /\ promise'[Top.i].state = "none"
      /\ \A i \in TimerIds : i # Top.i => promise'[i] = promise[i]
  BY <1>0, <1>2, <1>7 DEF Held
<1>9. Stacked'
  <2>1. handlers' \in Seq(Frames) /\ Len(handlers') = Len(handlers) /\ handlers' # <<>>
    BY <1>0, <1>6, TopIsFrame
  <2>2. enabled' \in BOOLEAN BY DEF Stacked, call_timer, Call
  <2> QED BY <1>0, <2>1, <2>2 DEF Stacked
<1>10. Nested'
  <2>1. Len(handlers) \in Nat BY DEF Stacked
  <2>2. ASSUME NEW x \in Frames, NEW k \in 1 .. Len(handlers) - 1, x = handlers[k]
        PROVE  FrameOk(x)'
    <3>1. FrameOk(x) /\ (x.at = "fire" => x.stale) /\ (x.at = "call" => x.i # Top.i)
      BY <1>0, <2>1, <2>2 DEF Nested, Top
    <3>2. x.at \in {"fire", "call"} /\ ~x.stale => promise'[x.i] = promise[x.i]
      BY <1>8, <3>1 DEF FrameOk
    <3> QED BY <1>0, <3>1, <3>2 DEF FrameOk, Right, Filling
  <2>3. FrameOk(f)' BY <1>0, <1>1, <1>5 DEF FrameOk
  <2>4. f.at \notin {"fire", "call"} BY <1>5
  <2> QED BY <1>0, <1>6, <2>2, <2>3, <2>4, TopNested
<1>11. Counted' BY <1>0 DEF Counted
<1>12. Held' BY <1>0, <1>8 DEF Held
<1>13. Sleeping' /\ Storing' BY <1>0 DEF Sleeping, Storing, SameHigh
<1>14. Promised' BY <1>0, <1>2, <1>8 DEF Promised, Filling
<1> QED BY <1>9, <1>10, <1>11, <1>12, <1>13, <1>14

\* The return from a handler.
LEMMA ReturnKeeps == Inv /\ handler_return => Inv'
<1> SUFFICES ASSUME Inv, handler_return PROVE Inv' OBVIOUS
<1> USE DEF Inv, tick_vars
<1>0. /\ handlers # <<>> /\ handlers' = SubSeq(handlers, 1, Len(handlers) - 1) /\ enabled'
      /\ UNCHANGED <<tick_vars, g_timers, pc, call, spoiled, promise>>
  BY DEF handler_return, Handling
<1>1. PICK n \in Nat : n = Len(handlers) - 1 /\ n + 1 = Len(handlers)
  <2>1. Len(handlers) \in 1 .. Len(handlers) /\ handlers \in Seq(Frames)
    BY <1>0, TopIsFrame DEF Stacked
  <2> QED BY <2>1
<1>2. /\ handlers' \in Seq(Frames) /\ Len(handlers') = n
      /\ \A k \in 1 .. n : handlers'[k] = handlers[k]
  <2>1. \A k \in 1 .. n : handlers[k] \in Frames
    BY <1>1, ElementOfSeq DEF Stacked
  <2>2. /\ SubSeq(handlers, 1, n) \in Seq(Frames)
        /\ Len(SubSeq(handlers, 1, n)) = IF 1 <= n THEN n - 1 + 1 ELSE 0
        /\ \A k \in 1 .. n - 1 + 1 : SubSeq(handlers, 1, n)[k] = handlers[1 + k - 1]
    BY <2>1, SubSeqProperties
  <2>3. \A k \in 1 .. n : 1 + k - 1 = k /\ k \in 1 .. n - 1 + 1 OBVIOUS
  <2>4. (IF 1 <= n THEN n - 1 + 1 ELSE 0) = n OBVIOUS
  <2> QED BY <1>0, <1>1, <2>2, <2>3, <2>4
<1>3. Stacked'
  <2>1. n <= MaxNested BY <1>1, ClockAssumption DEF Stacked
  <2>2. enabled' \in BOOLEAN BY DEF handler_return
  <2> QED BY <1>0, <1>2, <2>1, <2>2 DEF Stacked
<1>4. Nested'
  <2>1. \A k \in 1 .. n : FrameOk(handlers[k]) BY <1>1 DEF Nested
  <2>2. ASSUME NEW k \in 1 .. n PROVE FrameOk(handlers[k])'
    BY <1>0, <1>2, <2>1 DEF FrameOk, Right, Filling
  <2>3. \A k, m \in 1 .. n :
          k < m => /\ handlers'[k].at = "fire" => handlers'[k].stale
                   /\ (handlers'[k].at = "call" /\ handlers'[m].at \in {"fire", "call"})
                        => handlers'[k].i # handlers'[m].i
    BY <1>1, <1>2 DEF Nested
  <2> QED BY <1>2, <2>2, <2>3 DEF Nested
<1>5. Counted' BY <1>0 DEF Counted
<1>6. Held' BY <1>0 DEF Held
<1>7. Sleeping' /\ Storing' BY <1>0 DEF Sleeping, Storing, SameHigh
<1>8. Promised' BY <1>0 DEF Promised, Filling
<1> QED BY <1>3, <1>4, <1>5, <1>6, <1>7, <1>8
-----------------------------------------------------------------------------
(* The thread *)

\* The thread runs when no handler does and leaves the clock alone.
LEMMA ThreadKeeps ==
    ASSUME Inv, handlers = <<>>, UNCHANGED <<tick_vars, enabled, handlers>>
    PROVE  Counted' /\ Stacked' /\ Nested'
BY NoneNested DEF Inv, tick_vars, Counted, Stacked

\* clock_set_handler and clock_destroy_timer, which have no call in hand.
LEMMA IdleKeeps ==
    ASSUME Inv,
           \/ \E c \in Callbacks \cup {NULL} : clock_set_handler(c)
           \/ \E i \in TimerIds : clock_destroy_timer(i)
    PROVE  Inv'
<1> USE DEF Inv
<1>0. /\ handlers = <<>> /\ pc = "idle"
      /\ UNCHANGED <<tick_vars, enabled, handlers, pc, call, spoiled>>
  BY DEF clock_set_handler, clock_destroy_timer, Thread
<1>1. Counted' /\ Stacked' /\ Nested' BY <1>0, ThreadKeeps
<1>2. Sleeping' /\ Storing' BY <1>0 DEF Sleeping, Storing
<1>3. CASE \E c \in Callbacks \cup {NULL} : clock_set_handler(c)
  <2>1. UNCHANGED <<g_timers, promise>> BY <1>3 DEF clock_set_handler
  <2> QED BY <1>0, <1>1, <1>2, <2>1 DEF Held, Promised, Filling
<1>4. CASE \E i \in TimerIds : clock_destroy_timer(i)
  <2>1. PICK i \in TimerIds :
          /\ g_timers' = [g_timers EXCEPT ![i].active = FALSE]
          /\ promise' = [promise EXCEPT ![i] = NoPromise]
    BY <1>4 DEF clock_destroy_timer
  <2>2. NoPromise \in Promises /\ NoPromise.state = "none" BY DEF NoPromise, Promises
  <2>3. Held' BY <1>0, <2>1, <2>2 DEF Held, Timers
  <2>4. Promised'
    <3>1. /\ ~g_timers'[i].active /\ promise'[i].state = "none"
          /\ \A j \in TimerIds : j # i => g_timers'[j] = g_timers[j] /\ promise'[j] = promise[j]
      BY <2>1, <2>2 DEF Held, Timers
    <3> QED BY <1>0, <3>1 DEF Promised, Filling
  <2> QED BY <1>1, <1>2, <2>3, <2>4
<1> QED BY <1>3, <1>4

\* A call begins with the low half of g_ticks.
LEMMA BeginKeeps ==
    ASSUME Inv, NEW ms \in Nat, NEW c \in Callbacks \cup {NULL},
           NEW fields \in {{}, Fields}, begin(ms, c, fields)
    PROVE  Inv'
<1> USE DEF Inv
<1>0. /\ handlers = <<>> /\ pc = "idle" /\ pc' = "high"
      /\ UNCHANGED <<tick_vars, enabled, handlers, g_timers, promise, spoiled>>
      /\ g_ticks' = g_ticks
  BY DEF begin, Thread, tick_vars
<1>1. PICK l \in Nat : l = Low(g_ticks) BY Halves DEF Counted
<1>2. g_ticks \in Nat /\ 0 \in 0 .. MAX_TIMERS BY ClockAssumption DEF Counted
<1>3. call' = [ms |-> ms, callback |-> c, low |-> l, current_ms |-> 0, slot |-> 0,
               to_store |-> fields, start |-> g_ticks]
  BY <1>1 DEF begin, NoCall
<1>4. call' \in Calls BY <1>2, <1>3 DEF Calls, Fields
<1>5. Counted' /\ Stacked' /\ Nested' BY <1>0, ThreadKeeps
<1>6. Held' BY <1>0, <1>4 DEF Held, Points
<1>7. Sleeping' BY <1>0, <1>1, <1>2, <1>3 DEF Sleeping
<1>8. Storing' BY <1>0, <1>3 DEF Storing, SameHigh
<1>9. Promised' BY <1>0 DEF Promised, Filling
<1> QED BY <1>5, <1>6, <1>7, <1>8, <1>9

\* The high half joins the low one: the start of the call, if no carry came between.
LEMMA ReadKeeps == Inv /\ read_high => Inv'
<1> SUFFICES ASSUME Inv, read_high PROVE Inv' OBVIOUS
<1> USE DEF Inv
<1>0. /\ handlers = <<>> /\ pc = "high"
      /\ pc' = (IF call.to_store = {} THEN "sleep" ELSE "find")
      /\ UNCHANGED <<tick_vars, enabled, handlers, g_timers, promise, spoiled>>
      /\ g_ticks' = g_ticks
  BY DEF read_high, Thread, tick_vars
<1>1. call \in Calls /\ call.start \in Nat /\ call.low \in Nat /\ g_ticks \in Nat
  BY DEF Counted, Held, Calls
<1>2. PICK r \in Nat : r = call.low + High(g_ticks) BY <1>1, Halves
<1>3. call' = [call EXCEPT !.current_ms = r] BY <1>2 DEF read_high
<1>4. /\ call' \in Calls /\ call'.start = call.start /\ call'.current_ms = r
      /\ call'.to_store = call.to_store
  BY <1>1, <1>3 DEF Calls
<1>5. SameHigh => r = call.start
  <2>1. call.low = Low(call.start) BY <1>0 DEF Sleeping
  <2>2. Low(call.start) + High(call.start) = call.start BY <1>1, Halves
  <2> QED BY <1>2, <2>1, <2>2 DEF SameHigh
<1>6. Counted' /\ Stacked' /\ Nested' BY <1>0, ThreadKeeps
<1>7. Held' BY <1>0, <1>4 DEF Held, Points
<1>8. Sleeping' BY <1>0, <1>4, <1>5 DEF Sleeping, SameHigh
<1>9. Storing' BY <1>0, <1>4, <1>5 DEF Storing
<1>10. Promised' BY <1>0 DEF Promised, Filling
<1> QED BY <1>6, <1>7, <1>8, <1>9, <1>10

\* Looking for a slot: one that is not active is taken.
LEMMA FindKeeps == Inv /\ find_slot => Inv'
<1> SUFFICES ASSUME Inv, find_slot PROVE Inv' OBVIOUS
<1> USE DEF Inv
<1>0. /\ handlers = <<>> /\ pc = "find" /\ call.slot < MAX_TIMERS
      /\ \/ call' = [call EXCEPT !.slot = call.slot + 1] /\ pc' = "find"
         \/ call' = call /\ pc' = "store"
      /\ UNCHANGED <<tick_vars, enabled, handlers, g_timers, promise, spoiled>>
      /\ g_ticks' = g_ticks
  BY DEF find_slot, Thread, tick_vars
<1>1. call \in Calls /\ call.slot \in 0 .. MAX_TIMERS /\ call.slot + 1 \in 0 .. MAX_TIMERS
      /\ call.slot \in TimerIds
  BY <1>0, ClockAssumption DEF Held, Calls, TimerIds
<1>2. /\ call' \in Calls /\ call'.start = call.start /\ call'.current_ms = call.current_ms
      /\ call'.to_store = call.to_store
  BY <1>0, <1>1 DEF Calls
<1>3. Counted' /\ Stacked' /\ Nested' BY <1>0, ThreadKeeps
<1>4. Held' BY <1>0, <1>2 DEF Held, Points
<1>5. Sleeping' BY <1>0, <1>2 DEF Sleeping
<1>6. Storing' BY <1>0, <1>1, <1>2 DEF Storing, Fields
<1>7. Promised' BY <1>0 DEF Promised, Filling
<1> QED BY <1>3, <1>4, <1>5, <1>6, <1>7

\* What a store of one field makes of a timer.
LEMMA StoredIs ==
    ASSUME call \in Calls, NEW old \in Timers, NEW field \in Fields
    PROVE  /\ Stored(old, field) \in Timers
           /\ Stored(old, field).delay
                = IF field = "delay" THEN call.current_ms + call.ms ELSE old.delay
           /\ Stored(old, field).callback
                = IF field = "callback" THEN call.callback ELSE old.callback
<1>1. call.current_ms + call.ms \in Nat /\ call.callback \in Callbacks \cup {NULL}
  BY DEF Calls
<1>2. CASE field = "delay" BY <1>1, <1>2 DEF Stored, Timers
<1>3. CASE field = "active" BY <1>3 DEF Stored, Timers
<1>4. CASE field = "callback" BY <1>1, <1>4 DEF Stored, Timers
<1> QED BY <1>2, <1>3, <1>4 DEF Fields

\* A field is stored in the slot; after the last one the timer is promised.
LEMMA StoreKeeps ==
    ASSUME Inv, NEW field \in call.to_store, store(field) \/ store_last(field)
    PROVE  Inv'
<1> USE DEF Inv
<1>0. /\ handlers = <<>> /\ pc = "store"
      /\ UNCHANGED <<tick_vars, enabled, handlers>> /\ g_ticks' = g_ticks
      /\ g_timers' = [g_timers EXCEPT ![call.slot] = Stored(g_timers[call.slot], field)]
  BY DEF store, store_last, Thread, tick_vars
<1>1. /\ call \in Calls /\ field \in Fields /\ call.slot \in TimerIds
      /\ g_timers[call.slot] \in Timers /\ call.ms \in Nat /\ call.start \in Nat
      /\ call.callback \in Callbacks \cup {NULL}
  BY <1>0 DEF Held, Calls, Storing
<1>2. PICK t \in Timers :
        /\ t = Stored(g_timers[call.slot], field)
        /\ t.delay = IF field = "delay" THEN call.current_ms + call.ms
                                        ELSE g_timers[call.slot].delay
        /\ t.callback = IF field = "callback" THEN call.callback
                                              ELSE g_timers[call.slot].callback
  BY <1>1, StoredIs
<1>3. /\ g_timers' \in [TimerIds -> Timers] /\ g_timers'[call.slot] = t
      /\ \A i \in TimerIds : i # call.slot => g_timers'[i] = g_timers[i]
  BY <1>0, <1>1, <1>2 DEF Held
<1>4. Counted' /\ Stacked' /\ Nested' BY <1>0, ThreadKeeps
<1>5. CASE store(field)
  <2>1. /\ call' = [call EXCEPT !.to_store = call.to_store \ {field}] /\ pc' = "store"
        /\ promise' = [promise EXCEPT ![call.slot] = NoPromise] /\ spoiled' = spoiled
    BY <1>0, <1>5 DEF store
  <2>2. /\ call' \in Calls /\ call'.start = call.start /\ call'.current_ms = call.current_ms
        /\ call'.to_store = call.to_store \ {field} /\ call'.slot = call.slot
        /\ call'.ms = call.ms /\ call'.callback = call.callback
    BY <1>1, <2>1 DEF Calls
  <2>3. NoPromise \in Promises /\ NoPromise.state = "none" BY DEF NoPromise, Promises
  <2>4. /\ promise' \in [TimerIds -> Promises] /\ promise'[call.slot].state = "none"
        /\ \A i \in TimerIds : i # call.slot => promise'[i] = promise[i]
    BY <1>1, <2>1, <2>3 DEF Held
  <2>5. Held' BY <1>3, <2>1, <2>2, <2>4 DEF Held, Points
  <2>6. Sleeping' BY <1>0, <2>1, <2>2 DEF Sleeping
  <2>7. Storing' BY <1>0, <1>1, <1>2, <1>3, <2>1, <2>2 DEF Storing
  <2>8. Promised'
    <3>1. ASSUME NEW i \in TimerIds, i # call.slot
          PROVE  /\ g_timers'[i].active => promise'[i].state # "none"
                 /\ promise'[i].state = "set" => /\ g_timers'[i].delay = promise'[i].due
                                                 /\ g_timers'[i].callback = promise'[i].callback
      BY <1>3, <2>4, <3>1 DEF Promised, Filling
    <3>2. Filling(call.slot)' BY <2>1, <2>2 DEF Filling
    <3> QED BY <2>1, <2>2, <2>4, <3>1 DEF Promised, Filling
  <2> QED BY <1>4, <2>5, <2>6, <2>7, <2>8
<1>6. CASE store_last(field)
  <2>1. PICK p : /\ p = [state |-> IF spoiled THEN "spoiled" ELSE "set",
                         due |-> call.start + call.ms, made |-> g_ticks,
                         callback |-> call.callback]
                 /\ promise' = [promise EXCEPT ![call.slot] = p]
    BY <1>6 DEF store_last
  <2>2. p \in Promises
    <3>1. call.start + call.ms \in Nat /\ g_ticks \in Nat BY <1>1 DEF Counted
    <3> QED BY <1>1, <2>1, <3>1 DEF Promises
  <2>3. call.to_store = {field} /\ pc' = "idle" /\ call' \in Calls /\ spoiled' = FALSE
    BY <1>6, ClockAssumption DEF store_last, Return, NoCall, Calls, Fields
  <2>4. /\ promise' \in [TimerIds -> Promises] /\ promise'[call.slot] = p
        /\ \A i \in TimerIds : i # call.slot => promise'[i] = promise[i]
    BY <1>1, <2>1, <2>2 DEF Held
  <2>5. Held' BY <1>3, <2>3, <2>4 DEF Held, Points
  <2>6. Sleeping' /\ Storing' BY <2>3 DEF Sleeping, Storing
  <2>7. p.state # "none" /\ (p.state = "set" => t.delay = p.due /\ t.callback = p.callback)
    BY <1>0, <1>2, <2>1, <2>3 DEF Storing
  <2>8. Promised'
    BY <1>0, <1>3, <2>3, <2>4, <2>7 DEF Promised, Filling
  <2> QED BY <1>4, <2>5, <2>6, <2>8
<1> QED BY <1>5, <1>6

\* The loop of a sleep ends only when a reading is late enough, and no reading of
\* one high half is later than the clock.
LEMMA SleepKeeps == Inv /\ (sleep_low \/ sleep_high) => Inv'
<1> SUFFICES ASSUME Inv, sleep_low \/ sleep_high PROVE Inv' OBVIOUS
<1> USE DEF Inv
<1>0. /\ handlers = <<>> /\ g_ticks' = g_ticks
      /\ UNCHANGED <<tick_vars, enabled, handlers, g_timers, promise, spoiled>>
  BY DEF sleep_low, sleep_high, Thread, tick_vars
<1>1. call \in Calls /\ call.start \in Nat /\ call.low \in Nat /\ call.ms \in Nat
      /\ call.current_ms \in Nat /\ g_ticks \in Nat
  BY DEF Counted, Held, Calls
<1>2. PICK l \in Nat, h \in Nat : l = Low(g_ticks) /\ h = High(g_ticks) /\ l + h = g_ticks
  BY <1>1, Halves
<1>3. Counted' /\ Stacked' /\ Nested' BY <1>0, ThreadKeeps
<1>4. CASE sleep_low
  <2>1. pc = "sleep" /\ pc' = "sleep_high" /\ call' = [call EXCEPT !.low = l]
    BY <1>2, <1>4 DEF sleep_low, Thread
  <2>2. call' \in Calls /\ call'.low = l /\ call'.start = call.start
        /\ call'.current_ms = call.current_ms /\ call'.ms = call.ms
    BY <1>1, <2>1 DEF Calls
  <2>3. Held' BY <1>0, <2>1, <2>2 DEF Held, Points
  <2>4. Sleeping' BY <1>0, <1>1, <1>2, <2>1, <2>2 DEF Sleeping, SameHigh
  <2>5. Storing' /\ Promised' BY <1>0, <2>1 DEF Storing, Promised, Filling
  <2> QED BY <1>3, <2>3, <2>4, <2>5
<1>5. CASE sleep_high
  <2>1. pc = "sleep_high" /\ pc' = (IF Slept THEN "slept" ELSE "sleep") /\ call' = call
    BY <1>5 DEF Thread, sleep_high
  <2>2. Held' BY <1>0, <2>1 DEF Held, Points
  <2>3. Slept /\ SameHigh => g_ticks - call.start >= call.ms
    BY <1>1, <1>2, <2>1 DEF Slept, Sleeping
  <2>4. Sleeping' BY <1>0, <2>1, <2>3 DEF Sleeping, SameHigh
  <2>5. Storing' /\ Promised' BY <1>0, <2>1 DEF Storing, Promised, Filling
  <2> QED BY <1>3, <2>2, <2>4, <2>5
<1> QED BY <1>4, <1>5

\* A call that returns leaves nothing behind.
LEMMA ReturnsKeep == Inv /\ (no_slot \/ sleep_return) => Inv'
<1> SUFFICES ASSUME Inv, no_slot \/ sleep_return PROVE Inv' OBVIOUS
<1> USE DEF Inv
<1>0. /\ handlers = <<>> /\ pc # "store" /\ pc' = "idle" /\ call' = NoCall /\ ~spoiled'
      /\ spoiled' \in BOOLEAN
      /\ UNCHANGED <<tick_vars, enabled, handlers, g_timers, promise>>
  BY DEF no_slot, sleep_return, Thread, Return
<1>1. call' \in Calls BY <1>0, ClockAssumption DEF NoCall, Calls, Fields
<1>2. Counted' /\ Stacked' /\ Nested' BY <1>0, ThreadKeeps
<1>3. Held' BY <1>0, <1>1 DEF Held, Points
<1>4. Sleeping' /\ Storing' BY <1>0 DEF Sleeping, Storing
<1>5. Promised' BY <1>0 DEF Promised, Filling
<1> QED BY <1>2, <1>3, <1>4, <1>5
-----------------------------------------------------------------------------
(* Theorems *)

\* Every step keeps the invariant.
LEMMA StepKeeps == Inv /\ [Next]_vars => Inv'
<1> SUFFICES ASSUME Inv, [Next]_vars PROVE Inv' OBVIOUS
<1>1. CASE UNCHANGED vars
  BY <1>1 DEF vars, tick_vars, Inv, Counted, Stacked, Held, Sleeping, Storing, SameHigh,
     Promised, Filling, Nested, FrameOk, Right
<1>2. CASE Handler
  BY <1>2, TickKeeps, ScanKeeps, FireKeeps, CallKeeps, ReturnKeeps DEF Handler
<1>3. CASE \E d \in Delays, c \in Callbacks : begin(d, c, {"delay", "active", "callback"})
  BY <1>3, BeginKeeps, ClockAssumption DEF Fields
<1>4. CASE \E d \in Delays : begin(d, NULL, {})
  BY <1>4, BeginKeeps, ClockAssumption
<1>5. CASE \E field \in call.to_store : store(field) \/ store_last(field)
  BY <1>5, StoreKeeps
<1>6. CASE \/ \E c \in Callbacks \cup {NULL} : clock_set_handler(c)
           \/ \E i \in TimerIds : clock_destroy_timer(i)
  BY <1>6, IdleKeeps
<1>7. CASE read_high \/ find_slot \/ no_slot \/ sleep_low \/ sleep_high \/ sleep_return
  BY <1>7, ReadKeeps, FindKeeps, ReturnsKeep, SleepKeeps
<1> QED BY <1>1, <1>2, <1>3, <1>4, <1>5, <1>6, <1>7 DEF Next

\* The invariant holds in every state of every behaviour.
THEOREM Invariance == Spec => []Inv
<1>1. Inv /\ [Next]_vars => Inv' BY StepKeeps
<1> QED BY <1>1, Initially, PTL DEF Spec

\* g_seconds and the divider always make up g_ticks (clock.cpp:27-32), the stack of
\* handlers keeps its bound, and with no handler running interrupts are enabled.
THEOREM TypeCorrect == Spec => []TypeOK
<1>1. Inv => TypeOK
  <2>1. ASSUME Held, NEW i \in TimerIds
        PROVE  g_timers[i].delay \in Nat /\ g_timers[i].active \in BOOLEAN
               /\ g_timers[i].callback \in Callbacks \cup {NULL}
    BY <2>1 DEF Held, Timers
  <2> QED BY <2>1 DEF Inv, Counted, Stacked, TypeOK
<1> QED BY <1>1, Invariance, PTL

\* But for its three windows a timer calls the callback it was created with, once,
\* not early and not after it was destroyed (clock.cpp:40-45 with 76-94), with any
\* number of timers and however deep the ticks nest.
THEOREM CallsAreRight == Spec => []CallbacksRight
<1>1. Inv => CallbacksRight
  <2> SUFFICES ASSUME Inv, Handling("call"), ~Top.stale, ~Top.torn, ~Filling(Top.i),
                      promise[Top.i].state # "spoiled"
               PROVE  /\ promise[Top.i].state = "set" /\ g_ticks >= promise[Top.i].due
                      /\ g_timers[Top.i].callback = promise[Top.i].callback
    BY DEF CallbacksRight, Filling
  <2>1. FrameOk(Top) BY TopIsFrame DEF Inv, Handling, Nested, Top
  <2> QED BY <2>1 DEF FrameOk, Right, Handling
<1> QED BY <1>1, Invariance, PTL

\* clock_sleep_ms, which compares two readings of a word it reads in halves
\* (clock.cpp:96-103), never returns early unless the low half overflows meanwhile.
THEOREM SleepsAreLong == Spec => []SleepsLongEnough
<1>1. Inv => SleepsLongEnough
  BY DEF Inv, Sleeping, SameHigh, SleepsLongEnough
<1> QED BY <1>1, Invariance, PTL
-----------------------------------------------------------------------------
(* No timer is forgotten *)

\* A step of the handler on top changes the top frame only.
LEMMA TopSet ==
    ASSUME Stacked, handlers # <<>>, NEW f \in Frames,
           handlers' = [handlers EXCEPT ![Len(handlers)] = f]
    PROVE  /\ Top \in Frames /\ handlers' # <<>>
           /\ \E n \in Nat :
                /\ n >= 1 /\ n = Len(handlers) /\ n = Len(handlers')
                /\ Top = handlers[n] /\ handlers'[n] = f
                /\ \A k \in 1 .. n : k # n => handlers'[k] = handlers[k]
<1>1. PICK n \in Nat : n = Len(handlers) /\ n >= 1 BY TopIsFrame DEF Stacked
<1>2. Top = handlers[n] BY <1>1 DEF Top
<1>3. n \in 1 .. n BY <1>1
<1>4. Len(handlers') = n /\ handlers'[n] = f /\ (\A k \in 1 .. n : k # n => handlers'[k] = handlers[k])
  BY <1>1, <1>3, TopIsFrame
<1> QED BY <1>1, <1>2, <1>4, TopIsFrame

\* A tick: the new handler will come to every slot.
LEMMA TickCovers == Inv /\ Inv2 /\ tick => Inv2'
<1> SUFFICES ASSUME Inv, Inv2, tick PROVE Inv2' OBVIOUS
<1> USE DEF Inv, Inv2
<1>0. /\ UNCHANGED <<g_timers, pc, call, promise>>
      /\ spoiled' = (spoiled \/ pc = "store" \/ (pc = "high" /\ Carry))
  BY DEF tick
<1>1. PICK n \in Nat : n = Len(handlers) BY TickInterrupts
<1>2. /\ Len(handlers') = n + 1 /\ handlers'[n + 1] = Started
      /\ \A k \in 1 .. n :
           handlers'[k].at = handlers[k].at /\ handlers'[k].i = handlers[k].i
  BY <1>1, TickInterrupts
<1>3. Spoiling' BY <1>0 DEF Spoiling, Held
<1>4. Pending'
  <2> SUFFICES ASSUME NEW i \in TimerIds, promise'[i].state = "set", ~g_timers'[i].active
               PROVE  \E k \in 1 .. Len(handlers') : handlers'[k].at = "call" /\ handlers'[k].i = i
    BY DEF Pending
  <2>1. PICK k \in 1 .. n : handlers[k].at = "call" /\ handlers[k].i = i
    BY <1>0, <1>1 DEF Pending
  <2>2. k \in 1 .. Len(handlers') BY <1>2
  <2> QED BY <1>2, <2>1, <2>2
<1>5. Covered'
  <2>1. n + 1 \in 1 .. Len(handlers') /\ handlers'[n + 1].at = "low" BY <1>2 DEF Started
  <2> QED BY <2>1 DEF Covered, Covers
<1>6. FromFirst'
  <2> SUFFICES ASSUME NEW k \in 1 .. Len(handlers'), handlers'[k].at \in {"low", "high"}
               PROVE  handlers'[k].i = 0
    BY DEF FromFirst
  <2>1. CASE k = n + 1 BY <1>2, <2>1 DEF Started
  <2>2. CASE k \in 1 .. n BY <1>1, <1>2, <2>2 DEF FromFirst
  <2>3. k = n + 1 \/ k \in 1 .. n BY <1>2
  <2> QED BY <2>1, <2>2, <2>3
<1> QED BY <1>3, <1>4, <1>5, <1>6

\* The two readings: what is due now is due by what they read.
LEMMA ReadCovers == Inv /\ Inv2 /\ (read_now_low \/ read_now_high) => Inv2'
<1> SUFFICES ASSUME Inv, Inv2, read_now_low \/ read_now_high PROVE Inv2' OBVIOUS
<1> USE DEF Inv, Inv2
<1>0. /\ handlers # <<>> /\ g_ticks' = g_ticks
      /\ UNCHANGED <<g_timers, pc, call, promise, spoiled>>
      /\ Top.at \in {"low", "high"}
  BY DEF read_now_low, read_now_high, Handling, tick_vars
<1>1. Top \in Frames /\ Top.i = 0
  <2>1. Top \in Frames /\ Len(handlers) \in 1 .. Len(handlers) BY <1>0, TopIsFrame
  <2> QED BY <1>0, <2>1 DEF FromFirst, Top
<1>2. g_ticks \in Nat /\ Low(g_ticks) + High(g_ticks) = g_ticks /\ Low(g_ticks) \in Nat
      /\ High(g_ticks) \in Nat
  BY Halves DEF Counted
<1>3. \E f \in Frames :
        /\ handlers' = [handlers EXCEPT ![Len(handlers)] = f]
        /\ f.i = 0
        /\ \/ Top.at = "low" /\ f.at = "high" /\ f.now + High(g_ticks) = g_ticks
           \/ Top.at = "high" /\ f.at = "scan" /\ f.now = Top.now + High(g_ticks)
  <2>1. CASE read_now_low
    <3>1. PICK l \in Nat : l = Low(g_ticks) BY <1>2
    <3>2. PICK f \in Frames : f = [Top EXCEPT !.at = "high", !.now = l]
      BY <1>1 DEF Frames
    <3>3. f.at = "high" /\ f.now = l /\ f.i = Top.i BY <1>1, <3>2 DEF Frames
    <3> QED BY <1>1, <1>2, <2>1, <3>1, <3>2, <3>3 DEF read_now_low, SetTop, Handling
  <2>2. CASE read_now_high
    <3>1. PICK h \in Nat : h = Top.now + High(g_ticks) BY <1>1, <1>2 DEF Frames
    <3>2. PICK f \in Frames : f = [Top EXCEPT !.at = "scan", !.now = h]
      BY <1>1 DEF Frames
    <3>3. f.at = "scan" /\ f.now = h /\ f.i = Top.i BY <1>1, <3>2 DEF Frames
    <3> QED BY <1>1, <2>2, <3>1, <3>2, <3>3 DEF read_now_high, SetTop, Handling
  <2> QED BY <2>1, <2>2
<1>4. PICK f \in Frames :
        /\ handlers' = [handlers EXCEPT ![Len(handlers)] = f]
        /\ f.i = 0
        /\ \/ Top.at = "low" /\ f.at = "high" /\ f.now + High(g_ticks) = g_ticks
           \/ Top.at = "high" /\ f.at = "scan" /\ f.now = Top.now + High(g_ticks)
  BY <1>3
<1>5. handlers' # <<>> BY <1>0, <1>4, TopSet
<1>6. PICK n \in Nat :
        /\ n >= 1 /\ n = Len(handlers) /\ n = Len(handlers')
        /\ Top = handlers[n] /\ handlers'[n] = f
        /\ \A k \in 1 .. n : k # n => handlers'[k] = handlers[k]
  BY <1>0, <1>4, TopSet
<1>7. Spoiling' BY <1>0 DEF Spoiling
<1>8. Pending' BY <1>0, <1>6 DEF Pending
<1>9. Covered'
  <2> SUFFICES ASSUME NEW i \in TimerIds, promise[i].state = "set", promise[i].due <= g_ticks
               PROVE  (\E k \in 1 .. Len(handlers) : Covers(handlers[k], i, promise[i].due))'
    BY <1>0 DEF Covered
  <2>1. PICK k \in 1 .. n : Covers(handlers[k], i, promise[i].due)
    BY <1>0, <1>6 DEF Covered
  <2>2. promise[i].due \in Nat /\ i >= 0 BY ClockAssumption DEF Held, Promises, TimerIds
  <2>3. CASE k = n
    <3>1. Covers(f, i, promise[i].due)'
      BY <1>0, <1>1, <1>2, <1>4, <1>6, <2>1, <2>2, <2>3 DEF Covers
    <3>2. n \in 1 .. Len(handlers') BY <1>6
    <3> QED BY <1>0, <1>6, <3>1, <3>2 DEF Covers
  <2>4. CASE k # n
    <3>1. handlers'[k] = handlers[k] /\ k \in 1 .. Len(handlers') BY <1>6, <2>4
    <3> QED BY <1>0, <2>1, <3>1 DEF Covers
  <2> QED BY <2>3, <2>4
<1>10. FromFirst' BY <1>4, <1>6 DEF FromFirst
<1> QED BY <1>7, <1>8, <1>9, <1>10

\* A slot is passed over only if it is not due, or about to be called by another.
LEMMA ScanCovers == Inv /\ Inv2 /\ scan_timer => Inv2'
<1> SUFFICES ASSUME Inv, Inv2, scan_timer PROVE Inv2' OBVIOUS
<1> USE DEF Inv, Inv2
<1>0. /\ handlers # <<>> /\ g_ticks' = g_ticks
      /\ UNCHANGED <<g_timers, pc, call, promise, spoiled>>
      /\ Top.at = "scan" /\ Top.i < MAX_TIMERS
  BY DEF scan_timer, Handling, tick_vars
<1>1. Top \in Frames BY <1>0, TopIsFrame
<1>2. Top.i \in TimerIds /\ Top.i + 1 \in 0 .. MAX_TIMERS
  BY <1>0, <1>1, ClockAssumption DEF TimerIds, Frames
<1>3. \E f \in Frames :
        /\ handlers' = [handlers EXCEPT ![Len(handlers)] = f]
        /\ f.now = Top.now
        /\ \/ ~Due(Top.i, Top.now) /\ f.at = "scan" /\ f.i = Top.i + 1
           \/ f.at = "fire" /\ f.i = Top.i
  <2>1. CASE ~Due(Top.i, Top.now)
    <3>1. PICK j \in 0 .. MAX_TIMERS : j = Top.i + 1 BY <1>2
    <3>2. PICK f \in Frames : f = [Top EXCEPT !.i = j] BY <1>1 DEF Frames
    <3>3. f.at = "scan" /\ f.now = Top.now /\ f.i = j BY <1>0, <1>1, <3>2 DEF Frames
    <3> QED BY <2>1, <3>1, <3>2, <3>3 DEF scan_timer, SetTop
  <2>2. CASE Due(Top.i, Top.now)
    <3>1. PICK f \in Frames : f = [Top EXCEPT !.at = "fire"] BY <1>1 DEF Frames
    <3>2. f.at = "fire" /\ f.now = Top.now /\ f.i = Top.i BY <1>1, <3>1 DEF Frames
    <3> QED BY <2>2, <3>1, <3>2 DEF scan_timer, SetTop
  <2> QED BY <2>1, <2>2
<1>4. PICK f \in Frames :
        /\ handlers' = [handlers EXCEPT ![Len(handlers)] = f]
        /\ f.now = Top.now
        /\ \/ ~Due(Top.i, Top.now) /\ f.at = "scan" /\ f.i = Top.i + 1
           \/ f.at = "fire" /\ f.i = Top.i
  BY <1>3
<1>5. handlers' # <<>> BY <1>0, <1>4, TopSet
<1>6. PICK n \in Nat :
        /\ n >= 1 /\ n = Len(handlers) /\ n = Len(handlers')
        /\ Top = handlers[n] /\ handlers'[n] = f
        /\ \A k \in 1 .. n : k # n => handlers'[k] = handlers[k]
  BY <1>0, <1>4, TopSet
<1>7. Spoiling' BY <1>0 DEF Spoiling
<1>8. Pending' BY <1>0, <1>6 DEF Pending
<1>9. Covered'
  <2> SUFFICES ASSUME NEW i \in TimerIds, promise[i].state = "set", promise[i].due <= g_ticks
               PROVE  (\E k \in 1 .. Len(handlers) : Covers(handlers[k], i, promise[i].due))'
    BY <1>0 DEF Covered
  <2>1. PICK k \in 1 .. n : Covers(handlers[k], i, promise[i].due)
    BY <1>0, <1>6 DEF Covered
  <2>2. promise[i].due \in Nat /\ i \in Int /\ g_timers[i].delay = promise[i].due
        /\ Top.i \in Int /\ Top.now \in Nat
    BY <1>1, <1>2, ClockAssumption DEF Held, Promises, TimerIds, Promised, Frames
  <2>3. ASSUME NEW m \in 1 .. n, m # n, Covers(handlers[m], i, promise[i].due)
        PROVE  (\E x \in 1 .. Len(handlers) : Covers(handlers[x], i, promise[i].due))'
    <3>1. handlers'[m] = handlers[m] /\ m \in 1 .. Len(handlers') BY <1>6, <2>3
    <3> QED BY <1>0, <2>3, <3>1 DEF Covers
  <2>4. CASE k # n BY <2>1, <2>3, <2>4
  <2>5. CASE k = n
    <3>1. Top.i <= i /\ Top.now >= promise[i].due
      BY <1>0, <1>6, <2>1, <2>5 DEF Covers
    <3>2. CASE f.at = "fire" \/ Top.i # i
      <4>1. Covers(f, i, promise[i].due)'
        BY <1>0, <1>4, <2>2, <3>1, <3>2 DEF Covers
      <4>2. n \in 1 .. Len(handlers') BY <1>6
      <4> QED BY <1>0, <1>6, <4>1, <4>2 DEF Covers
    <3>3. CASE f.at # "fire" /\ Top.i = i
      <4>1. ~g_timers[i].active BY <1>4, <2>2, <3>1, <3>3 DEF Due
      <4>2. PICK m \in 1 .. n : handlers[m].at = "call" /\ handlers[m].i = i
        BY <1>6, <4>1 DEF Pending
      <4>3. m # n BY <1>0, <1>6, <4>2
      <4>4. Covers(handlers[m], i, promise[i].due) BY <4>2 DEF Covers
      <4> QED BY <2>3, <4>3, <4>4
    <3> QED BY <3>2, <3>3
  <2> QED BY <2>4, <2>5
<1>10. FromFirst' BY <1>4, <1>6 DEF FromFirst
<1> QED BY <1>7, <1>8, <1>9, <1>10

\* The reset of active, with the call still to come.
LEMMA FireCovers == Inv /\ Inv2 /\ fire_timer => Inv2'
<1> SUFFICES ASSUME Inv, Inv2, fire_timer PROVE Inv2' OBVIOUS
<1> USE DEF Inv, Inv2
<1>0. /\ handlers # <<>> /\ g_ticks' = g_ticks
      /\ UNCHANGED <<pc, call, promise, spoiled>>
      /\ Top.at = "fire"
      /\ g_timers' = [g_timers EXCEPT ![Top.i].active = FALSE]
  BY DEF fire_timer, Handling, tick_vars
<1>1. Top \in Frames BY <1>0, TopIsFrame
<1>2. PICK f \in Frames : f = [Top EXCEPT !.at = "call"] BY <1>1 DEF Frames
<1>3. f.at = "call" /\ f.i = Top.i /\ f.now = Top.now BY <1>1, <1>2 DEF Frames
<1>4. handlers' = [handlers EXCEPT ![Len(handlers)] = f]
  BY <1>2 DEF fire_timer, SetTop
<1>5. handlers' # <<>> BY <1>0, <1>4, TopSet
<1>6. PICK n \in Nat :
        /\ n >= 1 /\ n = Len(handlers) /\ n = Len(handlers')
        /\ Top = handlers[n] /\ handlers'[n] = f
        /\ \A k \in 1 .. n : k # n => handlers'[k] = handlers[k]
  BY <1>0, <1>4, TopSet
<1>7. \A i \in TimerIds : i # Top.i => g_timers'[i].active = g_timers[i].active
  BY <1>0 DEF Held
<1>8. Spoiling' BY <1>0 DEF Spoiling
<1>9. Pending'
  <2> SUFFICES ASSUME NEW i \in TimerIds, promise[i].state = "set", ~g_timers'[i].active
               PROVE  \E k \in 1 .. Len(handlers') : handlers'[k].at = "call" /\ handlers'[k].i = i
    BY <1>0 DEF Pending
  <2>1. CASE i = Top.i
    <3>1. n \in 1 .. Len(handlers') BY <1>6
    <3> QED BY <1>3, <1>6, <2>1, <3>1
  <2>2. CASE i # Top.i
    <3>1. PICK k \in 1 .. n : handlers[k].at = "call" /\ handlers[k].i = i
      BY <1>6, <1>7, <2>2 DEF Pending
    <3>2. k # n BY <1>0, <1>6, <3>1
    <3> QED BY <1>6, <3>1, <3>2
  <2> QED BY <2>1, <2>2
<1>10. Covered'
  <2> SUFFICES ASSUME NEW i \in TimerIds, promise[i].state = "set", promise[i].due <= g_ticks
               PROVE  (\E k \in 1 .. Len(handlers) : Covers(handlers[k], i, promise[i].due))'
    BY <1>0 DEF Covered
  <2>1. PICK k \in 1 .. n : Covers(handlers[k], i, promise[i].due)
    BY <1>0, <1>6 DEF Covered
  <2>2. k \in 1 .. Len(handlers') BY <1>6
  <2>3. Covers(handlers[k], i, promise[i].due)'
    <3>1. CASE k = n BY <1>0, <1>3, <1>6, <2>1, <3>1 DEF Covers
    <3>2. CASE k # n BY <1>0, <1>6, <2>1, <3>2 DEF Covers
    <3> QED BY <3>1, <3>2
  <2> QED BY <2>2, <2>3
<1>11. FromFirst' BY <1>3, <1>6 DEF FromFirst
<1> QED BY <1>8, <1>9, <1>10, <1>11

\* The call: the timer is no longer promised, the slots after it are still to come.
LEMMA CallCovers == Inv /\ Inv2 /\ call_timer => Inv2'
<1> SUFFICES ASSUME Inv, Inv2, call_timer PROVE Inv2' OBVIOUS
<1> USE DEF Inv, Inv2
<1>0. /\ handlers # <<>> /\ g_ticks' = g_ticks
      /\ UNCHANGED <<pc, call, g_timers, spoiled>>
      /\ Top.at = "call"
      /\ promise' = [promise EXCEPT ![Top.i] = NoPromise]
  BY DEF call_timer, Handling, tick_vars
<1>1. Top \in Frames /\ FrameOk(Top) BY <1>0, TopIsFrame DEF Nested, Top
<1>2. Top.i \in TimerIds /\ Top.i + 1 \in 0 .. MAX_TIMERS
  BY <1>0, <1>1, ClockAssumption DEF TimerIds, FrameOk
<1>3. PICK j \in 0 .. MAX_TIMERS : j = Top.i + 1 BY <1>2
<1>4. PICK f \in Frames : f = [Top EXCEPT !.at = "scan", !.i = j, !.stale = FALSE]
  BY <1>1 DEF Frames
<1>5. f.at = "scan" /\ f.i = j /\ f.now = Top.now BY <1>1, <1>4 DEF Frames
<1>6. handlers' = [handlers EXCEPT ![Len(handlers)] = f]
  BY <1>3, <1>4 DEF call_timer, SetTop
<1>7. handlers' # <<>> BY <1>0, <1>6, TopSet
<1>8. PICK n \in Nat :
        /\ n >= 1 /\ n = Len(handlers) /\ n = Len(handlers')
        /\ Top = handlers[n] /\ handlers'[n] = f
        /\ \A k \in 1 .. n : k # n => handlers'[k] = handlers[k]
  BY <1>0, <1>6, TopSet
<1>9. /\ promise'[Top.i].state # "set"
      /\ \A i \in TimerIds : i # Top.i => promise'[i] = promise[i]
  BY <1>0, <1>2 DEF NoPromise, Held
<1>10. Spoiling' BY <1>0 DEF Spoiling
<1>11. Pending'
  <2> SUFFICES ASSUME NEW i \in TimerIds, promise'[i].state = "set", ~g_timers'[i].active
               PROVE  \E k \in 1 .. Len(handlers') : handlers'[k].at = "call" /\ handlers'[k].i = i
    BY DEF Pending
  <2>1. i # Top.i /\ promise'[i] = promise[i] BY <1>9
  <2>2. PICK k \in 1 .. n : handlers[k].at = "call" /\ handlers[k].i = i
    BY <1>0, <1>8, <2>1 DEF Pending
  <2>3. k # n BY <1>8, <2>1, <2>2
  <2> QED BY <1>8, <2>2, <2>3
<1>12. Covered'
  <2> SUFFICES ASSUME NEW i \in TimerIds, promise'[i].state = "set",
                      promise'[i].due <= g_ticks
               PROVE  (\E k \in 1 .. Len(handlers) : Covers(handlers[k], i, promise[i].due))'
    BY <1>0 DEF Covered
  <2>1. i # Top.i /\ promise'[i] = promise[i] BY <1>9
  <2>2. PICK k \in 1 .. n : Covers(handlers[k], i, promise[i].due)
    BY <1>0, <1>8, <2>1 DEF Covered
  <2>3. i \in Int /\ Top.i \in Int BY <1>2, ClockAssumption DEF TimerIds
  <2>4. k \in 1 .. Len(handlers') BY <1>8
  <2>5. Covers(handlers[k], i, promise[i].due)'
    <3>1. CASE k = n
      BY <1>0, <1>3, <1>5, <1>8, <2>1, <2>2, <2>3, <3>1 DEF Covers
    <3>2. CASE k # n BY <1>0, <1>8, <2>1, <2>2, <3>2 DEF Covers
    <3> QED BY <3>1, <3>2
  <2> QED BY <2>4, <2>5
<1>13. FromFirst' BY <1>5, <1>8 DEF FromFirst
<1> QED BY <1>10, <1>11, <1>12, <1>13

\* A handler that returns has come to every slot.
LEMMA ReturnCovers == Inv /\ Inv2 /\ handler_return => Inv2'
<1> SUFFICES ASSUME Inv, Inv2, handler_return PROVE Inv2' OBVIOUS
<1> USE DEF Inv, Inv2
<1>0. /\ handlers # <<>> /\ g_ticks' = g_ticks
      /\ UNCHANGED <<pc, call, g_timers, spoiled, promise>>
      /\ Top.at = "scan" /\ Top.i = MAX_TIMERS
      /\ handlers' = SubSeq(handlers, 1, Len(handlers) - 1)
  BY DEF handler_return, Handling, tick_vars
<1>1. PICK n \in Nat : n = Len(handlers) - 1 /\ n + 1 = Len(handlers) /\ Top = handlers[n + 1]
  <2>1. Len(handlers) \in 1 .. Len(handlers) /\ handlers \in Seq(Frames)
    BY <1>0, TopIsFrame DEF Stacked
  <2> QED BY <2>1 DEF Top
<1>2. /\ Len(handlers') = n
      /\ \A k \in 1 .. n : handlers'[k] = handlers[k]
  <2>1. \A k \in 1 .. n : handlers[k] \in Frames
    BY <1>1, ElementOfSeq DEF Stacked
  <2>2. /\ Len(SubSeq(handlers, 1, n)) = IF 1 <= n THEN n - 1 + 1 ELSE 0
        /\ \A k \in 1 .. n - 1 + 1 : SubSeq(handlers, 1, n)[k] = handlers[1 + k - 1]
    BY <2>1, SubSeqProperties
  <2>3. \A k \in 1 .. n : 1 + k - 1 = k /\ k \in 1 .. n - 1 + 1 OBVIOUS
  <2>4. (IF 1 <= n THEN n - 1 + 1 ELSE 0) = n OBVIOUS
  <2> QED BY <1>0, <1>1, <2>2, <2>3, <2>4
<1>3. Spoiling' BY <1>0 DEF Spoiling
<1>4. Pending'
  <2> SUFFICES ASSUME NEW i \in TimerIds, promise[i].state = "set", ~g_timers[i].active
               PROVE  \E k \in 1 .. Len(handlers') : handlers'[k].at = "call" /\ handlers'[k].i = i
    BY <1>0 DEF Pending
  <2>1. PICK k \in 1 .. n + 1 : handlers[k].at = "call" /\ handlers[k].i = i
    BY <1>1 DEF Pending
  <2>2. k # n + 1 BY <1>0, <1>1, <2>1
  <2>3. k \in 1 .. n BY <2>2
  <2> QED BY <1>2, <2>1, <2>3
<1>5. Covered'
  <2> SUFFICES ASSUME NEW i \in TimerIds, promise[i].state = "set", promise[i].due <= g_ticks
               PROVE  (\E k \in 1 .. Len(handlers) : Covers(handlers[k], i, promise[i].due))'
    BY <1>0 DEF Covered
  <2>1. PICK k \in 1 .. n + 1 : Covers(handlers[k], i, promise[i].due)
    BY <1>0, <1>1 DEF Covered
  <2>2. ~(MAX_TIMERS <= i) BY ClockAssumption DEF TimerIds
  <2>3. k # n + 1 BY <1>0, <1>1, <2>1, <2>2 DEF Covers
  <2>4. k \in 1 .. n BY <2>3
  <2> QED BY <1>0, <1>2, <2>1, <2>4 DEF Covers
<1>6. FromFirst' BY <1>1, <1>2 DEF FromFirst
<1> QED BY <1>3, <1>4, <1>5, <1>6

\* With no handler, Pending and Covered speak of the timers and the clock only.
LEMMA NoneCovers ==
    ASSUME handlers = <<>>
    PROVE  /\ Pending <=> \A i \in TimerIds :
                            promise[i].state = "set" => g_timers[i].active
           /\ Covered <=> \A i \in TimerIds :
                            (promise[i].state = "set" /\ promise[i].due <= g_ticks)
                              => g_ticks = promise[i].made
           /\ FromFirst
<1>1. Len(handlers) = 0 BY EmptySeq
<1>2. \A k \in 1 .. Len(handlers) : FALSE BY <1>1
<1> QED BY <1>2 DEF Pending, Covered, FromFirst

\* The same of the next state.
LEMMA NoneCoversNext ==
    ASSUME handlers' = <<>>,
           \A i \in TimerIds : promise'[i].state = "set" => g_timers'[i].active,
           \A i \in TimerIds : (promise'[i].state = "set" /\ promise'[i].due <= g_ticks')
                                  => g_ticks' = promise'[i].made
    PROVE  Pending' /\ Covered' /\ FromFirst'
<1>1. Len(handlers') = 0 BY EmptySeq
<1>2. \A k \in 1 .. Len(handlers') : FALSE BY <1>1
<1>3. Pending' BY DEF Pending
<1>4. Covered' BY DEF Covered
<1>5. FromFirst' BY <1>2 DEF FromFirst
<1> QED BY <1>3, <1>4, <1>5

\* The thread's steps that touch neither timers nor promises.
LEMMA ReadsCover ==
    ASSUME Inv, Inv2, handlers = <<>>,
           UNCHANGED <<tick_vars, handlers, g_timers, promise>>, Spoiling'
    PROVE  Inv2'
BY DEF Inv2, Pending, Covered, Covers, FromFirst, tick_vars

\* What a store makes of active.
LEMMA StoredActive ==
    ASSUME NEW old \in Timers, NEW field \in Fields
    PROVE  Stored(old, field).active = (field = "active" \/ old.active)
<1>1. CASE field = "delay" BY <1>1 DEF Stored, Timers
<1>2. CASE field = "active" BY <1>2 DEF Stored, Timers
<1>3. CASE field = "callback" BY <1>3 DEF Stored, Timers
<1> QED BY <1>1, <1>2, <1>3 DEF Fields

\* The stores of a new timer: what is promised in the end is active.
LEMMA StoreCovers ==
    ASSUME Inv, Inv2, NEW field \in call.to_store, store(field) \/ store_last(field)
    PROVE  Inv2'
<1> USE DEF Inv, Inv2
<1>0. /\ handlers = <<>> /\ handlers' = <<>> /\ pc = "store" /\ g_ticks' = g_ticks
      /\ g_timers' = [g_timers EXCEPT ![call.slot] = Stored(g_timers[call.slot], field)]
  BY DEF store, store_last, Thread, tick_vars
<1>1. /\ call \in Calls /\ field \in Fields /\ call.slot \in TimerIds
      /\ g_timers[call.slot] \in Timers
  BY <1>0 DEF Held, Calls, Storing
<1>2. /\ g_timers'[call.slot].active = (field = "active" \/ g_timers[call.slot].active)
      /\ \A i \in TimerIds : i # call.slot => g_timers'[i] = g_timers[i]
  BY <1>0, <1>1, StoredActive DEF Held
<1>4. /\ \A i \in TimerIds : promise[i].state = "set" => g_timers[i].active
      /\ \A i \in TimerIds : (promise[i].state = "set" /\ promise[i].due <= g_ticks)
                               => g_ticks = promise[i].made
  BY <1>0, NoneCovers
<1>5. (~spoiled /\ "active" \notin call.to_store \ {field}) => g_timers'[call.slot].active
  BY <1>0, <1>2 DEF Spoiling
<1>6. \A i \in TimerIds : i # call.slot => promise'[i] = promise[i]
  BY <1>1 DEF Held, store, store_last
<1>7. \/ pc' = "store" /\ store(field) /\ promise'[call.slot].state # "set"
      \/ /\ pc' = "idle" /\ promise'[call.slot].made = g_ticks
         /\ promise'[call.slot].state = "set" => ~spoiled
         /\ call.to_store = {field}
  <2>1. CASE store(field) BY <1>0, <1>1, <2>1 DEF store, Held, NoPromise
  <2>2. CASE store_last(field)
    <3>1. promise'[call.slot] =
            [state |-> IF spoiled THEN "spoiled" ELSE "set", due |-> call.start + call.ms,
             made |-> g_ticks, callback |-> call.callback]
      BY <1>1, <2>2 DEF store_last, Held
    <3> QED BY <2>2, <3>1 DEF store_last, Return, Held
  <2> QED BY <2>1, <2>2
<1>8. Spoiling'
  <2>1. CASE store(field)
    <3>1. call' = [call EXCEPT !.to_store = call.to_store \ {field}] /\ spoiled' = spoiled
      BY <2>1 DEF store
    <3>2. call'.slot = call.slot /\ call'.to_store = call.to_store \ {field}
      BY <1>1, <3>1 DEF Calls
    <3> QED BY <1>0, <1>5, <3>1, <3>2 DEF Spoiling
  <2>2. CASE store_last(field) BY <2>2 DEF Spoiling, store_last, Return
  <2> QED BY <2>1, <2>2
<1>9. \A i \in TimerIds : promise'[i].state = "set" => g_timers'[i].active
  BY <1>2, <1>4, <1>5, <1>6, <1>7
<1>10. \A i \in TimerIds : (promise'[i].state = "set" /\ promise'[i].due <= g_ticks')
                             => g_ticks' = promise'[i].made
  BY <1>0, <1>4, <1>6, <1>7
<1>11. Pending' /\ Covered' /\ FromFirst' BY <1>0, <1>9, <1>10, NoneCoversNext
<1> QED BY <1>8, <1>11

\* A destroyed timer is promised to nobody.
LEMMA DestroyCovers == Inv /\ Inv2 /\ (\E i \in TimerIds : clock_destroy_timer(i)) => Inv2'
<1> SUFFICES ASSUME Inv, Inv2, NEW i \in TimerIds, clock_destroy_timer(i) PROVE Inv2'
  OBVIOUS
<1> USE DEF Inv, Inv2
<1>0. /\ handlers = <<>> /\ handlers' = <<>> /\ pc' = "idle" /\ g_ticks' = g_ticks
      /\ g_timers' = [g_timers EXCEPT ![i].active = FALSE]
      /\ promise' = [promise EXCEPT ![i] = NoPromise]
  BY DEF clock_destroy_timer, Thread, tick_vars
<1>1. /\ promise'[i].state # "set"
      /\ \A j \in TimerIds : j # i => promise'[j] = promise[j] /\ g_timers'[j] = g_timers[j]
  BY <1>0 DEF Held, NoPromise
<1>3. Spoiling' BY <1>0 DEF Spoiling
<1>4. /\ \A j \in TimerIds : promise[j].state = "set" => g_timers[j].active
      /\ \A j \in TimerIds : (promise[j].state = "set" /\ promise[j].due <= g_ticks)
                               => g_ticks = promise[j].made
  BY <1>0, NoneCovers
<1>5. Pending' /\ Covered' /\ FromFirst' BY <1>0, <1>1, <1>4, NoneCoversNext
<1> QED BY <1>3, <1>5

\* Every step of the clock keeps the second invariant.
LEMMA StepCovers == Inv /\ Inv2 /\ [Next]_vars => Inv2'
<1> SUFFICES ASSUME Inv, Inv2, [Next]_vars PROVE Inv2' OBVIOUS
<1>1. CASE UNCHANGED vars
  BY <1>1 DEF vars, tick_vars, Inv2, Spoiling, Pending, Covered, Covers, FromFirst
<1>2. CASE Handler
  BY <1>2, TickCovers, ReadCovers, ScanCovers, FireCovers, CallCovers, ReturnCovers DEF Handler
<1>3. CASE \E field \in call.to_store : store(field) \/ store_last(field)
  BY <1>3, StoreCovers
<1>4. CASE \E i \in TimerIds : clock_destroy_timer(i)
  BY <1>4, DestroyCovers
<1>5. CASE find_slot
  <2>1. handlers = <<>> /\ UNCHANGED <<tick_vars, handlers, g_timers, promise>>
    BY <1>5 DEF find_slot, Thread
  <2>2. pc = "find" /\ (pc' = "store" => call' = call) /\ handlers' = <<>>
    BY <1>5 DEF find_slot, Thread
  <2>3. Spoiling' BY <2>2 DEF Spoiling, Inv, Storing, Fields
  <2> QED BY <2>1, <2>3, ReadsCover
<1>6. CASE \/ \E c \in Callbacks \cup {NULL} : clock_set_handler(c)
           \/ \E d \in Delays, c \in Callbacks : begin(d, c, {"delay", "active", "callback"})
           \/ \E d \in Delays : begin(d, NULL, {})
           \/ read_high \/ no_slot \/ sleep_low \/ sleep_high \/ sleep_return
  <2>1. handlers = <<>> /\ UNCHANGED <<tick_vars, handlers, g_timers, promise>> /\ pc' # "store"
    BY <1>6 DEF clock_set_handler, begin, read_high, no_slot, sleep_low, sleep_high,
       sleep_return, Thread, Return
  <2>2. Spoiling' BY <2>1 DEF Spoiling
  <2> QED BY <2>1, <2>2, ReadsCover
<1> QED BY <1>1, <1>2, <1>3, <1>4, <1>5, <1>6 DEF Next

\* When ticks interrupt each other's handlers, whose readings are then old, some
\* handler still comes to each timer that is due: with all of them returned none is
\* overdue (clock.cpp:39-46), for any number of timers and any depth of nesting.
THEOREM NoneOverdue == Spec => []Punctual
<1>1. Init => Inv2
  <2> SUFFICES ASSUME Init PROVE Inv2 OBVIOUS
  <2>1. handlers = <<>> /\ pc = "idle" /\ \A i \in TimerIds : promise[i].state = "none"
    BY DEF Init, NoPromise
  <2> QED BY <2>1, NoneCovers DEF Inv2, Spoiling
<1>2. Inv /\ Inv2 => Punctual
  <2> SUFFICES ASSUME Inv, Inv2, handlers = <<>>, NEW i \in TimerIds, promise[i].state = "set"
               PROVE  g_ticks < promise[i].due \/ g_ticks = promise[i].made
    BY DEF Punctual
  <2>1. g_ticks \in Nat /\ promise[i].due \in Nat BY DEF Inv, Counted, Held, Promises
  <2>2. promise[i].due <= g_ticks => g_ticks = promise[i].made
    BY NoneCovers DEF Inv2
  <2> QED BY <2>1, <2>2
<1>3. Inv /\ Inv2 /\ [Next]_vars => Inv2' BY StepCovers
<1> QED BY <1>1, <1>2, <1>3, Invariance, PTL DEF Spec
=============================================================================
