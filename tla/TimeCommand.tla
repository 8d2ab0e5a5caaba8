---------------------------- MODULE TimeCommand ----------------------------
(***************************************************************************)
(* The time command (kernel.cpp:72-77): the clock chip is read, and hour,  *)
(* minute and second are printed, while handlers run at any moment and     *)
(* print numbers of their own.                                             *)
(***************************************************************************)
EXTENDS Rtc, Printk

VARIABLES printed,  \* ghost: the numbers shown for this command
          clean     \* ghost: no handler printed into one of them

command_vars == <<printed, clean>>
vars == <<chip_vars, read_vars, printk_vars, command_vars>>

Init ==
    /\ RtcInit /\ PrintkInit
    /\ printed = <<>> /\ clean = TRUE
-----------------------------------------------------------------------------
\* The order of the arguments: time->hour, time->minute, time->second.
Arguments == <<3, 2, 1>>

time_command ==
    /\ rpc = "idle"
    /\ clock_get_date_time
    /\ UNCHANGED <<printk_vars, command_vars>>

\* The next %d of the format.
next_number ==
    /\ rpc = "done" /\ Len(printed) < Len(Arguments)
    /\ int2String(time[Arguments[Len(printed) + 1]])
    /\ UNCHANGED <<chip_vars, read_vars, command_vars>>

number_end ==
    /\ printk_end
    /\ clean' = (clean /\ spoilt = {})
    /\ printed' = Append(printed, IF clean' THEN shown ELSE <<>>)
    /\ UNCHANGED <<chip_vars, read_vars>>

\* kfree, and back to the loop of kernel_main.
command_end ==
    /\ rpc = "done" /\ Len(printed) = Len(Arguments)
    /\ rpc' = "idle" /\ time' = <<>> /\ passed' = {} /\ torn' = FALSE
    /\ printed' = <<>> /\ clean' = TRUE
    /\ UNCHANGED <<chip_vars, printk_vars>>

Thread ==
    \/ time_command \/ next_number \/ number_end \/ command_end
    \/ /\ arch_rtc_get_time
       /\ UNCHANGED <<printk_vars, command_vars>>
    \/ /\ int2String_digit \/ int2String_return \/ printk_char
       /\ UNCHANGED <<chip_vars, read_vars, command_vars>>

\* A handler takes time, and may print.
interrupt ==
    /\ rtc_interrupted
    /\ \/ \E n \in HandlerNumbers : printk_interrupted(n)
       \/ UNCHANGED printk_vars
    /\ UNCHANGED command_vars

chip == Chip /\ UNCHANGED <<printk_vars, command_vars>>

Next == Thread \/ interrupt \/ chip

Spec == Init /\ [][Next]_vars
-----------------------------------------------------------------------------
\* What the command shows is a time the chip has had since its flag was seen
\* clear, whatever came before, after or between reading and printing: only
\* a handler inside the six reads, or one that prints inside a number, can spoil
\* it (rtc.cpp:43-63, string.cpp:44-63).
TimeShown ==
    Len(printed) = Len(Arguments) /\ clean /\ ~torn =>
      \E t \in passed : printed = [i \in 1 .. 3 |-> Digits(t[Arguments[i]])]
=============================================================================
