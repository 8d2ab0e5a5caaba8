-------------------------------- MODULE Rtc --------------------------------
(***************************************************************************)
(* arch_rtc_get_time (arch/x86/time/rtc.cpp) against the clock chip.       *)
(*                                                                         *)
(* The chip (external: MC146818 in 24-hour mode; all months have as many   *)
(* days) announces an update with                                          *)
(* its flag before it begins, and its registers are undefined during it.   *)
(* The code tests the flag once and then reads six registers one by one.   *)
(***************************************************************************)
EXTENDS Integers, Sequences

CONSTANTS First, Last, \* the first and the last value of each field
          Start,       \* times at boot
          Lead,        \* register reads that fit between the flag and the update
          MaxUpdates   \* seconds that pass, a bound of the model

Fields == <<"second", "minute", "hour", "day", "month", "year">>

Times == {t \in [1 .. Len(Fields) -> 0 .. 99] :
            \A f \in DOMAIN t : t[f] \in First[f] .. Last[f]}

\* The chip leaves 244 microseconds, and six reads take a tenth of that.
ASSUME RtcAssumption ==
    /\ First \in [1 .. Len(Fields) -> 0 .. 99] /\ Last \in [1 .. Len(Fields) -> 0 .. 99]
    /\ \A f \in 1 .. Len(Fields) : First[f] <= Last[f]
    /\ \A t \in Start : /\ t \in [1 .. Len(Fields) -> 0 .. 99]
                        /\ \A f \in DOMAIN t : t[f] \in First[f] .. Last[f]
    /\ Lead \in Nat /\ Lead >= Len(Fields)
    /\ MaxUpdates \in Nat

VARIABLES now, phase, lead, binary, \* of the chip; reads since the flag
          updates,                  \* seconds that have passed
          rpc, time,                \* where arch_rtc_get_time is; what it has read
          passed, torn              \* ghosts: times since the flag was seen clear;
                                    \* whether a handler ran since

chip_vars == <<now, phase, lead, binary, updates>>
read_vars == <<rpc, time, passed, torn>>

RtcInit ==
    /\ now \in Start /\ updates = 0
    /\ phase = "idle" /\ lead = 0 /\ binary \in BOOLEAN
    /\ rpc = "idle" /\ time = <<>> /\ passed = {} /\ torn = FALSE
-----------------------------------------------------------------------------
(* The chip *)

\* A second later: a field changes when all before it are at their last value.
Later(t) ==
    [f \in DOMAIN t |->
       IF \E g \in 1 .. f - 1 : t[g] # Last[g] THEN t[f]
       ELSE IF t[f] = Last[f] THEN First[f] ELSE t[f] + 1]

Reading == rpc = "read"

announce ==
    /\ phase = "idle" /\ updates < MaxUpdates
    /\ phase' = "announced"
    /\ UNCHANGED <<now, lead, binary, updates, read_vars>>

update_begins ==
    /\ phase = "announced" /\ lead = Lead
    /\ phase' = "updating" /\ lead' = 0
    /\ UNCHANGED <<now, binary, updates, read_vars>>

update_ends ==
    /\ phase = "updating"
    /\ phase' = "idle" /\ now' = Later(now) /\ updates' = updates + 1
    /\ passed' = IF Reading /\ ~torn THEN passed \cup {now'} ELSE passed
    /\ UNCHANGED <<lead, binary, rpc, time, torn>>

Chip == announce \/ update_begins \/ update_ends

BCD(v) == 16 * (v \div 10) + (v % 10)
Register(v) == IF binary THEN v ELSE BCD(v)

\* rtc_read_register: during an update, the old or the new value or all ones.
rtc_read_register(f) ==
    IF phase = "updating" THEN {Register(now[f]), Register(Later(now)[f]), 255}
    ELSE {Register(now[f])}
-----------------------------------------------------------------------------
(* The code *)

\* An access uses up some of the notice.
Accessed == lead' = IF phase = "announced" /\ lead < Lead THEN lead + 1 ELSE lead

BCD_TO_BINARY(b) == 10 * (b \div 16) + (b % 16)

\* Variant: the flag is not waited for.
arch_rtc_is_updating_never == FALSE
arch_rtc_is_updating == phase # "idle"

rtc_wait ==
    /\ rpc = "wait"
    /\ IF arch_rtc_is_updating THEN UNCHANGED read_vars
       ELSE /\ rpc' = "read"
            /\ time' = <<>> /\ passed' = {now} /\ torn' = FALSE
    /\ Accessed
    /\ UNCHANGED <<now, phase, binary, updates>>

rtc_read ==
    /\ rpc = "read"
    /\ \E v \in rtc_read_register(Len(time) + 1) : time' = Append(time, v)
    /\ rpc' = IF Len(time') = Len(Fields) THEN "convert" ELSE "read"
    /\ Accessed
    /\ UNCHANGED <<now, phase, binary, updates, passed, torn>>

\* Variant: the test of status register B is the other way round.
Converted_binary(t) == IF binary THEN [f \in DOMAIN t |-> BCD_TO_BINARY(t[f])] ELSE t
Converted(t) == IF binary THEN t ELSE [f \in DOMAIN t |-> BCD_TO_BINARY(t[f])]

\* year is a uint16_t, the others uint8_t; 255 becomes 165, which fits.
rtc_convert ==
    /\ rpc = "convert"
    /\ time' = Converted(time)
    /\ rpc' = "done"
    /\ Accessed
    /\ UNCHANGED <<now, phase, binary, updates, passed, torn>>

arch_rtc_get_time == rtc_wait \/ rtc_read \/ rtc_convert

clock_get_date_time ==
    /\ rpc \in {"idle", "done"}
    /\ rpc' = "wait"
    /\ UNCHANGED <<chip_vars, time, passed, torn>>

\* A handler may take longer than the chip's notice.
rtc_interrupted ==
    /\ lead' = (IF phase = "announced" THEN Lead ELSE lead)
    /\ torn' = (torn \/ Reading)
    /\ passed' = IF torn' THEN {} ELSE passed
    /\ UNCHANGED <<now, phase, binary, updates, rpc, time>>

RtcNext == Chip \/ clock_get_date_time \/ arch_rtc_get_time \/ rtc_interrupted

RtcSpec == RtcInit /\ [][RtcNext]_<<chip_vars, read_vars>>
-----------------------------------------------------------------------------
(* Properties *)

RtcTypeOK ==
    /\ now \in Times /\ updates \in 0 .. MaxUpdates
    /\ phase \in {"idle", "announced", "updating"} /\ lead \in 0 .. Lead
    /\ binary \in BOOLEAN /\ torn \in BOOLEAN
    /\ rpc \in {"idle", "wait", "read", "convert", "done"}
    /\ time \in Seq(0 .. 255)
    /\ rpc = "read" => Len(time) < Len(Fields)
    /\ rpc \in {"convert", "done"} => Len(time) = Len(Fields)
    /\ passed \subseteq Times

\* Six separate reads give one time that the chip has shown since its flag was
\* seen clear, not digits of two, unless a handler ran in between: the flag is not
\* tested again (rtc.cpp:43-63).
TimeExisted == rpc = "done" /\ ~torn => time \in passed
=============================================================================
