------------------------------- MODULE Printk -------------------------------
(***************************************************************************)
(* A number printed by printk (libc/string.cpp).  int2String builds it in  *)
(* a static buffer, which every caller shares: a handler that prints a     *)
(* number between two steps of the thread leaves its own digits there.     *)
(*                                                                         *)
(* Handlers have returned when the thread goes on, so what they do to the  *)
(* buffer is one step.  The same holds for a handler that is interrupted.  *)
(***************************************************************************)
EXTENDS Integers, Sequences, FiniteSets

CONSTANTS HandlerNumbers  \* numbers that handlers print: line numbers of LOG

ASSUME PrintkAssumption == HandlerNumbers \subseteq Int

BufferSize == 16
NUL == -1

VARIABLES buffer,         \* of int2String
          number, rest,   \* the argument; what is left of it
          reader,         \* index of the next character to print, -1: not yet
          shown,          \* ghost: characters printed for this number
          spoilt          \* ghost: numbers converted by handlers meanwhile

printk_vars == <<buffer, number, rest, reader, shown, spoilt>>

NotPrinting == reader = -1 /\ rest = -1

PrintkInit ==
    /\ buffer = [i \in 0 .. BufferSize - 1 |-> NUL]
    /\ number = 0 /\ rest = -1 /\ reader = -1 /\ shown = <<>> /\ spoilt = {}
-----------------------------------------------------------------------------
\* Of an int: at most ten digits; a negative number has none.
Power == <<1, 10, 100, 1000, 10000, 100000, 1000000, 10000000, 100000000, 1000000000>>
nb_digits(n) == IF n = 0 THEN 1 ELSE Cardinality({k \in 1 .. 10 : Power[k] <= n})
Digit(n, k) == (n \div Power[k + 1]) % 10

\* The digits of a number that is not negative, as they are to appear.
Digits(n) == [i \in 1 .. nb_digits(n) |-> Digit(n, nb_digits(n) - i)]

\* The buffer after a whole call.
Written(b, n) ==
    [i \in DOMAIN b |-> IF i < nb_digits(n) THEN Digits(n)[i + 1]
                        ELSE IF i = nb_digits(n) THEN NUL ELSE b[i]]

\* Variant: the buffer was zeroed at boot, so no terminator is stored.
int2String_unterminated(n) ==
    /\ NotPrinting
    /\ number' = n /\ rest' = nb_digits(n) /\ UNCHANGED buffer
    /\ shown' = <<>> /\ spoilt' = {}
    /\ UNCHANGED reader
\* The terminator comes first; for 0, both bytes are one store.
int2String(n) ==
    /\ NotPrinting
    /\ number' = n
    /\ rest' = IF n = 0 THEN 0 ELSE nb_digits(n)
    /\ buffer' = IF n = 0 THEN Written(buffer, 0) ELSE [buffer EXCEPT ![nb_digits(n)] = NUL]
    /\ shown' = <<>> /\ spoilt' = {}
    /\ UNCHANGED reader

\* Then the digits, the last one first; then the loop of printk begins.
int2String_digit ==
    /\ rest > 0
    /\ buffer' = [buffer EXCEPT ![rest - 1] = Digit(number, nb_digits(number) - rest)]
    /\ rest' = rest - 1
    /\ UNCHANGED <<number, reader, shown, spoilt>>

int2String_return ==
    /\ rest = 0
    /\ reader' = 0 /\ rest' = -1
    /\ UNCHANGED <<buffer, number, shown, spoilt>>

\* A character is read once, for the test of the loop and for the call.
printk_char ==
    /\ reader >= 0 /\ buffer[reader] # NUL
    /\ shown' = Append(shown, buffer[reader])
    /\ reader' = reader + 1
    /\ UNCHANGED <<buffer, number, rest, spoilt>>

printk_end ==
    /\ reader >= 0 /\ buffer[reader] = NUL
    /\ reader' = -1
    /\ number' = 0 /\ shown' = <<>> /\ spoilt' = {}
    /\ UNCHANGED <<buffer, rest>>

Printing == int2String_digit \/ int2String_return \/ printk_char \/ printk_end

\* A handler prints a number, by the same two functions.
printk_interrupted(n) ==
    /\ buffer' = Written(buffer, n)
    /\ spoilt' = IF NotPrinting THEN spoilt ELSE spoilt \cup {n}
    /\ UNCHANGED <<number, rest, reader, shown>>
-----------------------------------------------------------------------------
(* Properties *)

PrintkTypeOK ==
    /\ buffer \in [0 .. BufferSize - 1 -> {NUL} \cup 0 .. 9]
    /\ number \in Int
    /\ rest \in -1 .. 10 /\ reader \in -1 .. BufferSize - 1
    /\ rest = -1 \/ reader = -1
    /\ shown \in Seq(0 .. 9) /\ spoilt \subseteq HandlerNumbers

\* A number is shown by its own digits, unless a handler printed one meanwhile
\* (string.cpp:44-63, 99-106).
NumberShown ==
    spoilt = {} /\ reader >= 0 =>
      /\ shown = SubSeq(Digits(number), 1, reader)
      /\ buffer[reader] = NUL => reader = Len(Digits(number))

\* A shared buffer may show wrong digits; but the loop stops, at the latest where
\* the longest of the numbers ends that were written since the conversion began:
\* no digits of earlier numbers follow.
NumberBounded == \E n \in {number} \cup spoilt : Len(shown) <= nb_digits(n)
=============================================================================
