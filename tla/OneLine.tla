------------------------------ MODULE OneLine ------------------------------
(***************************************************************************)
(* What the keyboard promises the main loop: a place for one line.  Keys   *)
(* edit it, Enter completes it, and from then until it is taken no         *)
(* character gets into it; the reader gets it whole, as it stood when it   *)
(* was opened.  Any key may be ignored.                                    *)
(***************************************************************************)
EXTENDS Naturals, Sequences

CONSTANTS Characters, Places

VARIABLES text,      \* the line
          complete,  \* Enter was pressed and the line not yet taken
          opened,    \* the reader has begun to take it
          taken      \* what the reader took last

line_vars == <<text, complete, opened, taken>>

Init == text = <<>> /\ ~complete /\ ~opened /\ taken = <<>>

Type(c) ==
    /\ ~complete /\ Len(text) < Places
    /\ text' = Append(text, c)
    /\ UNCHANGED <<complete, opened, taken>>

\* A line can be shortened after Enter, but not once it is opened.
Erase ==
    /\ ~opened /\ text # <<>>
    /\ text' = SubSeq(text, 1, Len(text) - 1)
    /\ UNCHANGED <<complete, opened, taken>>

Enter ==
    /\ ~complete /\ complete' = TRUE
    /\ UNCHANGED <<text, opened, taken>>

Open ==
    /\ complete /\ ~opened
    /\ opened' = TRUE /\ taken' = <<>>
    /\ UNCHANGED <<text, complete>>

Take ==
    /\ complete /\ opened
    /\ taken' = text /\ text' = <<>>
    /\ complete' = FALSE /\ opened' = FALSE

Next == (\E c \in Characters : Type(c)) \/ Erase \/ Enter \/ Open \/ Take

Spec == Init /\ [][Next]_line_vars
=============================================================================
