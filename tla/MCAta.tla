-------------------------------- MODULE MCAta --------------------------------
(***************************************************************************)
(* A count register that wraps at three, requests of one to three sectors  *)
(* at two addresses, every attachment of the four slots, each channel      *)
(* masked or open.                                                         *)
(***************************************************************************)
EXTENDS Ata

MCLbas == {0, 5}
=============================================================================
