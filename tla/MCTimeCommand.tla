--------------------------- MODULE MCTimeCommand ---------------------------
(***************************************************************************)
(* The last second of a year and the last second of one digit; two seconds *)
(* pass.  Handlers print a line number of ata_pio.c.                        *)
(***************************************************************************)
EXTENDS TimeCommand

MCFirst == <<0, 0, 0, 1, 1, 0>>
MCLast == <<59, 59, 23, 31, 12, 99>>
MCStart == {<<59, 59, 23, 31, 12, 24>>, <<9, 0, 7, 1, 1, 25>>}
MCNumbers == {381}
=============================================================================
