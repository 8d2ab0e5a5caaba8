---------------------------- MODULE MCInterrupts ----------------------------
(***************************************************************************)
(* The clock, the keyboard, a line nobody handles that is less urgent than *)
(* the second controller, and the first disk channel; three handlers       *)
(* nested.  The boot loader leaves all lines open, or all of the first     *)
(* controller's masked, or the second controller cut off.                  *)
(***************************************************************************)
EXTENDS Interrupts

MCLines == {0, 1, 3, 14}
MCMasks == {{}, {0, 1, 3}, {1, 2}}
=============================================================================
