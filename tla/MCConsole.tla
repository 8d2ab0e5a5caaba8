------------------------------ MODULE MCConsole ------------------------------
(***************************************************************************)
(* Five columns, so that a tab may or may not wrap, and two lines before   *)
(* the first scroll: 54 by 31 pixels.  A blank, a letter of seven rows, a  *)
(* letter of eight.                                                        *)
(***************************************************************************)
EXTENDS Console

MCGlyphs == {Blank, 6, 7}
=============================================================================
