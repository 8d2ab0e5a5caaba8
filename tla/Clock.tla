------------------------------- MODULE Clock -------------------------------
(***************************************************************************)
(* The clock, drivers/clock/clock.cpp: the timer's interrupt handler, and  *)
(* the thread that creates and destroys timers, sets the user callback and *)
(* sleeps.                                                                 *)
(*                                                                         *)
(* The thread can be interrupted between any two of its accesses.  g_ticks *)
(* is a 64-bit word that the build reads in two halves, the low one first. *)
(* g_timers is not volatile: the build stores the fields of a new timer in *)
(* any order (gcc -O2 marks the slot active first).                        *)
(*                                                                         *)
(* A callback that prints enables interrupts (console_put_char ends with   *)
(* sti), and irq_handler has acknowledged the tick before: from then on    *)
(* the handler itself is interrupted by the next tick.  handlers is the    *)
(* stack of the handlers that have started.                                *)
(***************************************************************************)
EXTENDS Integers, Sequences

CONSTANTS MAX_TIMERS, \* 10
          Frequency,  \* g_frequency, 1000
          Radix,      \* 2^32, of the low half of g_ticks
          Callbacks, Printing,
          Delays,     \* milliseconds asked for
          MaxTicks, MaxNested   \* bounds of the model

ASSUME ClockAssumption ==
    /\ MAX_TIMERS \in Nat \ {0} /\ Frequency \in Nat \ {0} /\ Radix \in Nat \ {0}
    /\ Printing \subseteq Callbacks /\ Delays \subseteq Nat
    /\ MaxTicks \in Nat /\ MaxNested \in Nat \ {0}

VARIABLES g_ticks, g_seconds, tick_divider, g_user_callback, g_timers,
          enabled, handlers,
          pc, call,   \* of the thread, and the locals of the call it is in
          spoiled,    \* ghost: a carry or a tick got into the call
          promise     \* ghost: per slot, the timer its creator was promised

tick_vars == <<g_ticks, g_seconds, tick_divider>>
vars == <<tick_vars, g_user_callback, g_timers, enabled, handlers, pc, call,
          spoiled, promise>>

TimerIds == 0 .. MAX_TIMERS - 1
NULL == "NULL"
NoPromise == [state |-> "none", due |-> 0, made |-> 0, callback |-> NULL]

\* to_store: fields of the new timer still to be stored; start: g_ticks when
\* the call began, kept for the properties only.
NoCall == [ms |-> 0, callback |-> NULL, low |-> 0, current_ms |-> 0, slot |-> 0,
           to_store |-> {}, start |-> 0]

Low(t) == t % Radix
High(t) == (t \div Radix) * Radix

Init ==
    /\ g_ticks = 0 /\ g_seconds = 0 /\ tick_divider = 0
    /\ g_user_callback = NULL
    /\ g_timers = [i \in TimerIds |-> [delay |-> 0, active |-> FALSE, callback |-> NULL]]
    /\ enabled = TRUE /\ handlers = <<>>
    /\ pc = "idle" /\ call = NoCall /\ spoiled = FALSE
    /\ promise = [i \in TimerIds |-> NoPromise]
-----------------------------------------------------------------------------
(* generic_timer_handler *)

Top == handlers[Len(handlers)]
SetTop(f) == handlers' = [handlers EXCEPT ![Len(handlers)] = f]
Handling(at) == handlers # <<>> /\ Top.at = at

\* A handler that has begun.  Two ghosts say how a nested tick has got in its way:
\* stale between the test of active and its reset, torn between the halves of
\* g_ticks, with a carry.
Started == [at |-> "low", i |-> 0, now |-> 0, stale |-> FALSE, torn |-> FALSE]
Carry == High(g_ticks + 1) # High(g_ticks)
Interrupted ==
    [k \in DOMAIN handlers |->
       [handlers[k] EXCEPT !.stale = @ \/ handlers[k].at = "fire",
                           !.torn = @ \/ (handlers[k].at = "high" /\ Carry)]]

\* What a call enables: the callbacks the model is given return at once.
Call(c) == enabled' = (enabled \/ c \in Printing)

\* Variant: the divider is compared before it is advanced.
tick_compared_first ==
    /\ enabled /\ g_ticks < MaxTicks /\ Len(handlers) < MaxNested
    /\ g_ticks' = g_ticks + 1
    /\ tick_divider' = IF tick_divider = Frequency THEN 0 ELSE tick_divider + 1
    /\ g_seconds' = IF tick_divider = Frequency THEN g_seconds + 1 ELSE g_seconds
    /\ handlers' = Append(Interrupted, Started)
    /\ enabled' = (g_user_callback \in Printing)
    /\ UNCHANGED <<g_user_callback, g_timers, pc, call, spoiled, promise>>
\* The tick is counted, the user's callback called.
tick ==
    /\ enabled /\ g_ticks < MaxTicks /\ Len(handlers) < MaxNested
    /\ g_ticks' = g_ticks + 1
    /\ tick_divider' = IF tick_divider + 1 = Frequency THEN 0 ELSE tick_divider + 1
    /\ g_seconds' = IF tick_divider + 1 = Frequency THEN g_seconds + 1 ELSE g_seconds
    /\ handlers' = Append(Interrupted, Started)
    /\ enabled' = (g_user_callback \in Printing)
    /\ spoiled' = (spoiled \/ pc = "store"
                   \/ (pc = "high" /\ Carry))
    /\ UNCHANGED <<g_user_callback, g_timers, pc, call, promise>>

read_now_low ==
    /\ Handling("low")
    /\ SetTop([Top EXCEPT !.at = "high", !.now = Low(g_ticks)])
    /\ UNCHANGED <<tick_vars, g_user_callback, g_timers, enabled, pc, call, spoiled, promise>>

read_now_high ==
    /\ Handling("high")
    /\ SetTop([Top EXCEPT !.at = "scan", !.now = Top.now + High(g_ticks)])
    /\ UNCHANGED <<tick_vars, g_user_callback, g_timers, enabled, pc, call, spoiled, promise>>

\* Variant: a timer that is due now is not.
Due_late(i, now) == g_timers[i].active /\ now > g_timers[i].delay
Due(i, now) == g_timers[i].active /\ now >= g_timers[i].delay

scan_timer ==
    /\ Handling("scan") /\ Top.i < MAX_TIMERS
    /\ SetTop(IF Due(Top.i, Top.now) THEN [Top EXCEPT !.at = "fire"]
                                     ELSE [Top EXCEPT !.i = Top.i + 1])
    /\ UNCHANGED <<tick_vars, g_user_callback, g_timers, enabled, pc, call, spoiled, promise>>

fire_timer ==
    /\ Handling("fire")
    /\ g_timers' = [g_timers EXCEPT ![Top.i].active = FALSE]
    /\ SetTop([Top EXCEPT !.at = "call"])
    /\ UNCHANGED <<tick_vars, g_user_callback, enabled, pc, call, spoiled, promise>>

\* The callback; the promise for the slot, if there is one, is kept.
call_timer ==
    /\ Handling("call")
    /\ Call(g_timers[Top.i].callback)
    /\ promise' = [promise EXCEPT ![Top.i] = NoPromise]
    /\ SetTop([Top EXCEPT !.at = "scan", !.i = Top.i + 1, !.stale = FALSE])
    /\ UNCHANGED <<tick_vars, g_user_callback, g_timers, pc, call, spoiled>>

\* The end of the interrupt: what it interrupted had interrupts enabled.
handler_return ==
    /\ Handling("scan") /\ Top.i = MAX_TIMERS
    /\ handlers' = SubSeq(handlers, 1, Len(handlers) - 1)
    /\ enabled' = TRUE
    /\ UNCHANGED <<tick_vars, g_user_callback, g_timers, pc, call, spoiled, promise>>
-----------------------------------------------------------------------------
(* The thread *)

Thread(at) == handlers = <<>> /\ pc = at

clock_set_handler(c) ==
    /\ Thread("idle")
    /\ g_user_callback' = c
    /\ UNCHANGED <<tick_vars, g_timers, enabled, handlers, pc, call, spoiled, promise>>

Return == pc' = "idle" /\ call' = NoCall /\ spoiled' = FALSE

\* clock_create_timer or clock_sleep_ms, up to the low half of g_ticks.
begin(ms, callback, fields) ==
    /\ Thread("idle")
    /\ pc' = "high"
    /\ call' = [NoCall EXCEPT !.ms = ms, !.callback = callback,
                              !.low = Low(g_ticks), !.to_store = fields,
                              !.start = g_ticks]
    /\ UNCHANGED <<tick_vars, g_user_callback, g_timers, enabled, handlers, spoiled, promise>>

read_high ==
    /\ Thread("high")
    /\ call' = [call EXCEPT !.current_ms = call.low + High(g_ticks)]
    /\ pc' = IF call.to_store = {} THEN "sleep" ELSE "find"
    /\ UNCHANGED <<tick_vars, g_user_callback, g_timers, enabled, handlers, spoiled, promise>>

find_slot ==
    /\ Thread("find") /\ call.slot < MAX_TIMERS
    /\ IF g_timers[call.slot].active
       THEN call' = [call EXCEPT !.slot = call.slot + 1] /\ UNCHANGED pc
       ELSE pc' = "store" /\ UNCHANGED call
    /\ UNCHANGED <<tick_vars, g_user_callback, g_timers, enabled, handlers, spoiled, promise>>

no_slot ==
    /\ Thread("find") /\ call.slot = MAX_TIMERS
    /\ Return
    /\ UNCHANGED <<tick_vars, g_user_callback, g_timers, enabled, handlers, promise>>

\* Variant: the callback of the timer before stays in the slot.
Stored_kept(old, field) ==
    CASE field = "delay"    -> [old EXCEPT !.delay = call.current_ms + call.ms]
      [] field = "active"   -> [old EXCEPT !.active = TRUE]
      [] field = "callback" -> old
Stored(old, field) ==
    CASE field = "delay"    -> [old EXCEPT !.delay = call.current_ms + call.ms]
      [] field = "active"   -> [old EXCEPT !.active = TRUE]
      [] field = "callback" -> [old EXCEPT !.callback = call.callback]

store(field) ==
    /\ Thread("store") /\ field \in call.to_store /\ call.to_store # {field}
    /\ g_timers' = [g_timers EXCEPT ![call.slot] = Stored(@, field)]
    /\ call' = [call EXCEPT !.to_store = call.to_store \ {field}]
    /\ promise' = [promise EXCEPT ![call.slot] = NoPromise]
    /\ UNCHANGED <<tick_vars, g_user_callback, enabled, handlers, pc, spoiled>>

\* The last of the three stores; the timer's id is returned.
store_last(field) ==
    /\ Thread("store") /\ call.to_store = {field}
    /\ g_timers' = [g_timers EXCEPT ![call.slot] = Stored(@, field)]
    /\ Return
    /\ promise' = [promise EXCEPT ![call.slot] =
                     [state |-> IF spoiled THEN "spoiled" ELSE "set",
                      due |-> call.start + call.ms, made |-> g_ticks,
                      callback |-> call.callback]]
    /\ UNCHANGED <<tick_vars, g_user_callback, enabled, handlers>>

clock_destroy_timer(i) ==
    /\ Thread("idle")
    /\ g_timers' = [g_timers EXCEPT ![i].active = FALSE]
    /\ promise' = [promise EXCEPT ![i] = NoPromise]
    /\ UNCHANGED <<tick_vars, g_user_callback, enabled, handlers, pc, call, spoiled>>

\* The loop of clock_sleep_ms: current_ms holds start_ms, a new reading is made.
sleep_low ==
    /\ Thread("sleep")
    /\ call' = [call EXCEPT !.low = Low(g_ticks)]
    /\ pc' = "sleep_high"
    /\ UNCHANGED <<tick_vars, g_user_callback, g_timers, enabled, handlers, spoiled, promise>>

\* Variant: a tick too few is enough.
Slept_short == call.low + High(g_ticks) + 1 >= call.current_ms + call.ms
Slept == call.low + High(g_ticks) >= call.current_ms + call.ms

sleep_high ==
    /\ Thread("sleep_high")
    /\ pc' = IF Slept THEN "slept" ELSE "sleep"
    /\ UNCHANGED <<tick_vars, g_user_callback, g_timers, enabled, handlers, call, spoiled, promise>>

sleep_return ==
    /\ Thread("slept")
    /\ Return
    /\ UNCHANGED <<tick_vars, g_user_callback, g_timers, enabled, handlers, promise>>

Handler == tick \/ read_now_low \/ read_now_high \/ scan_timer \/ fire_timer
           \/ call_timer \/ handler_return

Next == \/ Handler
        \/ \E c \in Callbacks \cup {NULL} : clock_set_handler(c)
        \/ \E d \in Delays, c \in Callbacks : begin(d, c, {"delay", "active", "callback"})
        \/ \E d \in Delays : begin(d, NULL, {})
        \/ \E i \in TimerIds : clock_destroy_timer(i)
        \/ \E field \in call.to_store : store(field) \/ store_last(field)
        \/ read_high \/ find_slot \/ no_slot
        \/ sleep_low \/ sleep_high \/ sleep_return

Spec == Init /\ [][Next]_vars
-----------------------------------------------------------------------------
(* Properties *)

TypeOK ==
    /\ g_ticks \in 0 .. MaxTicks /\ tick_divider \in 0 .. Frequency - 1
    /\ g_seconds * Frequency + tick_divider = g_ticks
    /\ \A i \in TimerIds : g_timers[i].delay \in Nat
                           /\ g_timers[i].active \in BOOLEAN
                           /\ g_timers[i].callback \in Callbacks \cup {NULL}
    /\ enabled \in BOOLEAN /\ Len(handlers) <= MaxNested
    /\ handlers = <<>> => enabled

\* A timer calls the callback it was created with, once, not before its time,
\* and never after it was destroyed (clock.cpp:40-45 with 76-94).  There are three
\* windows in which that fails, and no others: a tick between the stores of a
\* new timer; one that interrupts a handler between the test of active and its
\* reset, which then calls the timer a second time; and one that interrupts a
\* handler between its reads of the halves of g_ticks and carries, so that timers
\* are called up to 2^32 ms early.
CallbacksRight ==
    Handling("call") =>
      LET p == promise[Top.i] IN
      \/ p.state = "spoiled" \/ Top.stale \/ Top.torn
      \/ pc = "store" /\ call.slot = Top.i
      \/ p.state = "set" /\ g_ticks >= p.due /\ g_timers[Top.i].callback = p.callback

\* No timer is overdue when all handlers have returned: a tick that arrives
\* inside of another tick's handler, whose current_ms is then old, leaves none
\* behind.
Punctual ==
    handlers = <<>> =>
      \A i \in TimerIds : promise[i].state = "set" =>
        g_ticks < promise[i].due \/ g_ticks = promise[i].made

\* clock_sleep_ms sleeps as long as it was asked to, unless the low half of
\* g_ticks overflows meanwhile: then a reading can mix two values.
SleepsLongEnough ==
    (pc = "slept" /\ High(call.start) = High(g_ticks)) =>
        g_ticks - call.start >= call.ms
=============================================================================
