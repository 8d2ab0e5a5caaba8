----------------------------- MODULE MCLineInput -----------------------------
(***************************************************************************)
(* Two characters, a buffer of four places, six keys, handlers nested      *)
(* twice.                                                                  *)
(***************************************************************************)
EXTENDS LineInput
CONSTANTS a, b
MCChars == {a, b}
=============================================================================
