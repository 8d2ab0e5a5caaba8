------------------------------- MODULE MCClock -------------------------------
(***************************************************************************)
(* Two timers, a clock of two ticks a second whose low half holds four     *)
(* values, four ticks, two callbacks one of which prints. A delay of three *)
(* lets a timer be due after the carry that makes a reading too late.      *)
(***************************************************************************)
EXTENDS Clock

Both == {"f", "g"}
OnePrints == {"g"}
MCDelays == {0, 3}
=============================================================================
