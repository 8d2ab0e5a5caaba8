----------------------------- MODULE LineInput -----------------------------
(***************************************************************************)
(* Line input: the keyboard's interrupt handler, drivers/keyboard.cpp, and *)
(* the main loop of kernel_main that takes the lines, get_input_buffer.    *)
(*                                                                         *)
(* The handler starts with interrupts disabled, and irq_handler has then   *)
(* already acknowledged the interrupt.  The echo, console_put_char, enables *)
(* interrupts again, so from there on the handler can itself be            *)
(* interrupted by the next key.  Only for Enter anything is left to do     *)
(* then: line_ready is set after the echo.  entering counts the handlers   *)
(* that stand between the two.  The main loop goes on when all of them     *)
(* have returned, and can be interrupted between any two of its steps.     *)
(*                                                                         *)
(* The statics of keyboard.cpp are not volatile: the build (-O2) reads     *)
(* buffer_pos once before the copy and may swap the two last stores.       *)
(***************************************************************************)
EXTENDS Naturals, Sequences

CONSTANTS Chars,       \* the characters keys give
          BufferSize,  \* 256: the last place is never filled
          Keys,        \* keys typed, a bound of the model
          MaxNested    \* handlers that interrupt each other, a bound

ASSUME LineInputAssumption ==
    /\ Chars # {} /\ BufferSize \in Nat \ {0, 1}
    /\ Keys \in Nat /\ MaxNested \in Nat \ {0}

VARIABLES key_buffer, buffer_pos, line_ready,
          entering,    \* Enter handlers between the echo and line_ready = true
          pc, n, buffer, \* of get_input_buffer and of its caller
          keys,        \* keys still to be typed
          lines,       \* ghost: lines taken
          line         \* ghost: the line as it was when Enter completed it

input_vars == <<key_buffer, buffer_pos, line_ready, entering>>
loop_vars  == <<pc, n, buffer>>
ghost_vars == <<lines, line>>
vars == <<input_vars, loop_vars, keys, ghost_vars>>

Typed == SubSeq(key_buffer, 1, buffer_pos)

Init ==
    /\ key_buffer = <<>> /\ buffer_pos = 0 /\ line_ready = FALSE
    /\ entering = 0
    /\ pc = "poll" /\ n = 0 /\ buffer = <<>>
    /\ keys = Keys
    /\ lines = 0 /\ line = <<>>
-----------------------------------------------------------------------------
(* keyboard_handler *)

Key == keys > 0 /\ keys' = keys - 1

\* key_buffer as a sequence: what lies behind buffer_pos stays in it.
Put(s, i, c) == [k \in 1 .. IF i > Len(s) THEN i ELSE Len(s) |->
                   IF k = i THEN c ELSE s[k]]

\* Variant: characters are taken while a line waits.
key_char_always(c) ==
    /\ Key
    /\ IF buffer_pos < BufferSize - 1
       THEN /\ key_buffer' = Put(key_buffer, buffer_pos + 1, c)
            /\ buffer_pos' = buffer_pos + 1
       ELSE UNCHANGED <<key_buffer, buffer_pos>>
    /\ UNCHANGED <<line_ready, entering, loop_vars, ghost_vars>>
\* Variant: the end of the buffer is off by one.
key_char_last(c) ==
    /\ Key
    /\ IF buffer_pos <= BufferSize - 1 /\ ~line_ready
       THEN /\ key_buffer' = Put(key_buffer, buffer_pos + 1, c)
            /\ buffer_pos' = buffer_pos + 1
       ELSE UNCHANGED <<key_buffer, buffer_pos>>
    /\ UNCHANGED <<line_ready, entering, loop_vars, ghost_vars>>
key_char(c) ==
    /\ Key
    /\ IF buffer_pos < BufferSize - 1 /\ ~line_ready
       THEN /\ key_buffer' = Put(key_buffer, buffer_pos + 1, c)
            /\ buffer_pos' = buffer_pos + 1
       ELSE UNCHANGED <<key_buffer, buffer_pos>>
    /\ UNCHANGED <<line_ready, entering, loop_vars, ghost_vars>>

key_backspace ==
    /\ Key
    /\ buffer_pos' = IF buffer_pos > 0 THEN buffer_pos - 1 ELSE 0
    /\ UNCHANGED <<key_buffer, line_ready, entering, loop_vars, ghost_vars>>

\* Enter up to the end of its echo.
key_enter ==
    /\ Key /\ entering < MaxNested
    /\ entering' = entering + 1
    /\ line' = IF line_ready \/ entering > 0 THEN line ELSE Typed
    /\ UNCHANGED <<key_buffer, buffer_pos, line_ready, loop_vars, lines>>

key_enter_ready ==
    /\ entering > 0
    /\ entering' = entering - 1
    /\ line_ready' = TRUE
    /\ UNCHANGED <<key_buffer, buffer_pos, loop_vars, keys, ghost_vars>>
-----------------------------------------------------------------------------
(* get_input_buffer, called in the loop of kernel_main *)

Main == entering = 0

\* Variant: an empty line is not worth a return.
poll_nonempty ==
    /\ Main /\ pc = "poll" /\ line_ready /\ buffer_pos > 0
    /\ pc' = "count"
    /\ UNCHANGED <<input_vars, n, buffer, keys, ghost_vars>>
poll ==
    /\ Main /\ pc = "poll" /\ line_ready
    /\ pc' = "count"
    /\ UNCHANGED <<input_vars, n, buffer, keys, ghost_vars>>

count ==
    /\ Main /\ pc = "count"
    /\ n' = buffer_pos
    /\ buffer' = <<>>
    /\ pc' = "copy"
    /\ UNCHANGED <<input_vars, keys, ghost_vars>>

copy ==
    /\ Main /\ pc = "copy" /\ Len(buffer) < n
    /\ buffer' = Append(buffer, key_buffer[Len(buffer) + 1])
    /\ UNCHANGED <<input_vars, pc, n, keys, ghost_vars>>

copied ==
    /\ Main /\ pc = "copy" /\ Len(buffer) = n
    /\ pc' = "clear"
    /\ UNCHANGED <<input_vars, n, buffer, keys, ghost_vars>>

\* The first of the two stores, in the order of the source or swapped.
clear_pos ==
    /\ Main /\ pc = "clear"
    /\ buffer_pos' = 0
    /\ pc' = "clear_ready"
    /\ UNCHANGED <<key_buffer, line_ready, entering, n, buffer, keys, ghost_vars>>

clear_ready ==
    /\ Main /\ pc = "clear"
    /\ line_ready' = FALSE
    /\ pc' = "clear_pos"
    /\ UNCHANGED <<key_buffer, buffer_pos, entering, n, buffer, keys, ghost_vars>>

\* The second store; kernel_main has the line now and polls again.
take ==
    /\ Main /\ pc \in {"clear_pos", "clear_ready"}
    /\ buffer_pos' = IF pc = "clear_pos" THEN 0 ELSE buffer_pos
    /\ line_ready' = IF pc = "clear_ready" THEN FALSE ELSE line_ready
    /\ pc' = "poll"
    /\ lines' = lines + 1
    /\ UNCHANGED <<key_buffer, entering, n, buffer, keys, line>>

MainLoop == poll \/ count \/ copy \/ copied \/ clear_pos \/ clear_ready \/ take

Next == \/ \E c \in Chars : key_char(c)
        \/ key_backspace \/ key_enter
        \/ key_enter_ready
        \/ MainLoop

\* A handler that has started returns, and the processor then goes on with
\* the main loop: keys are much rarer than instructions.
Spec == Init /\ [][Next]_vars /\ WF_vars(key_enter_ready) /\ WF_vars(MainLoop)
-----------------------------------------------------------------------------
(* Properties *)

TypeOK ==
    /\ key_buffer \in Seq(Chars) /\ Len(key_buffer) <= BufferSize - 1
    /\ buffer_pos \in 0 .. Len(key_buffer)
    /\ line_ready \in BOOLEAN
    /\ entering \in 0 .. MaxNested
    /\ pc \in {"poll", "count", "copy", "clear", "clear_pos", "clear_ready"}
    /\ n \in 0 .. Len(key_buffer)
    /\ buffer \in Seq(Chars) /\ Len(buffer) <= BufferSize - 1

\* The characters copied are those of one line: nothing typed while a line
\* waits or is being copied gets into the middle of it, though backspaces move
\* buffer_pos meanwhile (keyboard.cpp:55-67 against 79-89).
NotTorn ==
    pc \in {"copy", "clear"} => buffer = SubSeq(key_buffer, 1, Len(buffer))

\* For the main loop the shared buffer is a place for one line: what it gets is a line
\* that Enter completed, whole and as it stood when n was read.  The line is gone with
\* the first store that lets characters in again, in whichever order the two come
\* (keyboard.cpp:55-67, 77-94).
Opened == pc \in {"copy", "clear", "clear_ready"}
Text   == CASE Opened           -> SubSeq(key_buffer, 1, n)
            [] pc = "clear_pos" -> <<>>
            [] OTHER            -> Typed
L == INSTANCE OneLine WITH Characters <- Chars, Places <- BufferSize - 1,
                           text <- Text, complete <- line_ready, opened <- Opened,
                           taken <- IF Opened THEN <<>> ELSE buffer
LineSpec == L!Spec

\* A line that is ready is taken, whatever is typed meanwhile.
ReadyIsTaken == \A k \in 0 .. Keys :
    (line_ready /\ lines = k) ~> (lines > k)

\* get_input_buffer "copies the line to the provided buffer" (keyboard.h:14-15):
\* the characters that were in the buffer when Enter was pressed.
LineCopied == pc \in {"clear_pos", "clear_ready"} => buffer = line
=============================================================================
