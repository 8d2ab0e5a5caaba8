--------------------------- MODULE LineInputProofs ---------------------------
(***************************************************************************)
(* The line buffer is safe without a lock: for every size of the buffer,   *)
(* any keys, and handlers that interrupt the copy of a line at any point    *)
(* and each other to any depth.  First nothing is overrun and no line is   *)
(* torn; then the whole is shown to be the place for one line of OneLine.  *)
(***************************************************************************)
EXTENDS LineInput, SequenceTheorems, TLAPS

\* While a line is copied it is ready, which is what keeps characters out.
Copying ==
    /\ pc \in {"count", "copy", "clear"} => line_ready
    /\ pc = "copy" => Len(buffer) <= n

\* What has been copied, character by character.
Copied ==
    pc \in {"copy", "clear"} =>
      \A k \in 1 .. Len(buffer) : k <= Len(key_buffer) /\ buffer[k] = key_buffer[k]

Inv == TypeOK /\ Copying /\ Copied

\* What key_buffer is after a character has been stored in it.
LEMMA PutKeeps ==
  ASSUME NEW s \in Seq(Chars), NEW i \in 1 .. Len(s) + 1, NEW c \in Chars
  PROVE  /\ Put(s, i, c) \in Seq(Chars)
         /\ Len(Put(s, i, c)) = IF i > Len(s) THEN i ELSE Len(s)
<1> DEFINE m == IF i > Len(s) THEN i ELSE Len(s)
<1>1. m \in Nat /\ \A k \in 1 .. m : k # i => k \in 1 .. Len(s)
  OBVIOUS
<1>2. \A k \in 1 .. m : (IF k = i THEN c ELSE s[k]) \in Chars
  BY <1>1, ElementOfSeq
<1>3. Put(s, i, c) = [k \in 1 .. m |-> IF k = i THEN c ELSE s[k]]
  BY DEF Put
<1> HIDE DEF m
<1>4. Put(s, i, c) \in Seq(Chars) /\ Len(Put(s, i, c)) = m
  BY <1>1, <1>2, <1>3
<1> QED BY <1>4 DEF m

\* The beginning of a sequence, place by place.
LEMMA PrefixFacts ==
  ASSUME NEW s \in Seq(Chars), NEW m \in 0 .. Len(s)
  PROVE  /\ SubSeq(s, 1, m) \in Seq(Chars)
         /\ Len(SubSeq(s, 1, m)) = m
         /\ \A i \in 1 .. m : SubSeq(s, 1, m)[i] = s[i]
<1>1. \A i \in 1 .. m : s[i] \in Chars
  BY ElementOfSeq
<1>2. PICK t : t = SubSeq(s, 1, m)
  OBVIOUS
<1>3. /\ t \in Seq(Chars)
      /\ Len(t) = IF 1 <= m THEN m - 1 + 1 ELSE 0
      /\ \A i \in 1 .. m - 1 + 1 : t[i] = s[1 + i - 1]
  BY <1>1, <1>2, SubSeqProperties
<1>4. m - 1 + 1 = m /\ \A i \in 1 .. m : 1 + i - 1 = i
  OBVIOUS
<1>5. Len(t) = m /\ \A i \in 1 .. m : t[i] = s[i]
  BY <1>3, <1>4
<1> QED BY <1>2, <1>3, <1>5

\* Copied says the same as NotTorn.
LEMMA CopiedIsPrefix ==
  ASSUME TypeOK, Copied
  PROVE  NotTorn
<1> SUFFICES ASSUME pc \in {"copy", "clear"}
             PROVE  buffer = SubSeq(key_buffer, 1, Len(buffer))
  BY DEF NotTorn
<1>1. PICK m \in Nat : m = Len(buffer)
  BY DEF TypeOK
<1>2. PICK s : s = SubSeq(key_buffer, 1, m)
  OBVIOUS
<1>3. m \in 0 .. Len(key_buffer) /\ key_buffer \in Seq(Chars)
  BY <1>1 DEF Copied, TypeOK
<1>4. s \in Seq(Chars) /\ Len(s) = m /\ \A i \in 1 .. m : s[i] = key_buffer[i]
  BY <1>2, <1>3, PrefixFacts
<1>5. \A i \in 1 .. Len(s) : s[i] = buffer[i]
  BY <1>1, <1>4 DEF Copied
<1>6. s = buffer
  BY <1>1, <1>4, <1>5, SeqEqual DEF TypeOK
<1> QED BY <1>1, <1>2, <1>6

\* At boot the buffer is empty.
LEMMA Initially == Init => Inv
<1>1. <<>> \in Seq(Chars) /\ Len(<<>>) = 0
  BY EmptySeq
<1>2. 0 <= BufferSize - 1 /\ 0 \in 0 .. MaxNested /\ 0 \in 0 .. 0
  BY LineInputAssumption
<1> QED BY <1>1, <1>2 DEF Init, Inv, TypeOK, Copying, Copied

\* A character: refused while a line is ready, stored before the last place.
LEMMA CharKeeps ==
  ASSUME Inv, NEW c \in Chars, key_char(c)
  PROVE  Inv'
<1> USE DEF Inv, key_char, loop_vars, ghost_vars
<1>1. CASE buffer_pos < BufferSize - 1 /\ ~line_ready
  <2>1. pc \notin {"count", "copy", "clear"}
    BY <1>1 DEF Copying
  <2>2. buffer_pos + 1 \in 1 .. Len(key_buffer) + 1 /\ key_buffer \in Seq(Chars)
    BY DEF TypeOK
  <2>3. /\ key_buffer' \in Seq(Chars)
        /\ Len(key_buffer') = IF buffer_pos + 1 > Len(key_buffer) THEN buffer_pos + 1 ELSE Len(key_buffer)
    BY <1>1, <2>2, PutKeeps
  <2>4. /\ buffer_pos' = buffer_pos + 1 /\ buffer_pos \in Nat /\ Len(key_buffer) \in Nat
        /\ Len(key_buffer) <= BufferSize - 1 /\ BufferSize \in Nat
    BY <1>1, <2>2, LineInputAssumption DEF TypeOK
  <2>5. Len(key_buffer') <= BufferSize - 1 /\ buffer_pos' \in 0 .. Len(key_buffer')
        /\ Len(key_buffer) <= Len(key_buffer')
    BY <1>1, <2>3, <2>4
  <2>6. n' \in 0 .. Len(key_buffer')
    BY <2>3, <2>4, <2>5 DEF TypeOK
  <2>7. TypeOK'
    BY <2>3, <2>5, <2>6 DEF TypeOK
  <2> QED BY <2>1, <2>7 DEF Copying, Copied
<1>2. CASE ~(buffer_pos < BufferSize - 1 /\ ~line_ready)
  BY <1>2 DEF TypeOK, Copying, Copied
<1> QED BY <1>1, <1>2

\* The other keys store no character.
LEMMA OtherKeysKeep ==
  ASSUME Inv, key_backspace \/ key_enter \/ key_enter_ready
  PROVE  Inv'
<1> USE LineInputAssumption DEF Inv, TypeOK, Copying, Copied, loop_vars, ghost_vars
<1>1. CASE key_backspace
  BY <1>1 DEF key_backspace
<1>2. CASE key_enter
  BY <1>2 DEF key_enter
<1>3. CASE key_enter_ready
  BY <1>3 DEF key_enter_ready
<1> QED BY <1>1, <1>2, <1>3

\* One character is copied: there is one, and it is the next.
LEMMA CopyKeeps ==
  ASSUME Inv, copy
  PROVE  Inv'
<1> USE DEF Inv, copy, input_vars
<1>1. /\ pc = "copy" /\ Len(buffer) < n /\ n <= Len(key_buffer)
      /\ Len(buffer) \in Nat /\ n \in Nat /\ Len(key_buffer) \in Nat
      /\ buffer \in Seq(Chars) /\ key_buffer \in Seq(Chars)
      /\ Len(key_buffer) <= BufferSize - 1 /\ BufferSize \in Nat
  BY LineInputAssumption DEF TypeOK
<1>2. key_buffer[Len(buffer) + 1] \in Chars
  BY <1>1, ElementOfSeq
<1>3. /\ buffer' \in Seq(Chars) /\ Len(buffer') = Len(buffer) + 1
      /\ buffer'[Len(buffer) + 1] = key_buffer[Len(buffer) + 1]
      /\ \A k \in 1 .. Len(buffer) : buffer'[k] = buffer[k]
  BY <1>1, <1>2
<1>4. TypeOK'
  BY <1>1, <1>3 DEF TypeOK
<1>5. Copied'
  BY <1>1, <1>3 DEF Copied
<1> QED BY <1>1, <1>3, <1>4, <1>5 DEF Copying

\* The rest of get_input_buffer.
LEMMA LoopKeeps ==
  ASSUME Inv, poll \/ count \/ copied \/ clear_pos \/ clear_ready \/ take
  PROVE  Inv'
<1> USE LineInputAssumption DEF Inv, TypeOK, Copying, Copied, input_vars
<1>1. CASE poll
  BY <1>1 DEF poll
<1>2. CASE count
  BY <1>2 DEF count
<1>3. CASE copied
  BY <1>3 DEF copied
<1>4. CASE clear_pos
  BY <1>4 DEF clear_pos
<1>5. CASE clear_ready
  BY <1>5 DEF clear_ready
<1>6. CASE take
  <2>1. buffer_pos' \in 0 .. Len(key_buffer) /\ pc' = "poll"
    BY <1>6 DEF take
  <2>2. line_ready \in BOOLEAN /\ line_ready' = IF pc = "clear_ready" THEN FALSE ELSE line_ready
    BY <1>6 DEF take
  <2>3. line_ready' \in BOOLEAN
    BY <2>2, Zenon
  <2>4. UNCHANGED <<key_buffer, entering, n, buffer>>
    BY <1>6 DEF take
  <2> QED BY <2>1, <2>3, <2>4
<1> QED BY <1>1, <1>2, <1>3, <1>4, <1>5, <1>6

\* Every step keeps the invariant.
LEMMA Inductive == Inv /\ [Next]_vars => Inv'
<1> SUFFICES ASSUME Inv, [Next]_vars PROVE Inv'
  OBVIOUS
<1>1. CASE UNCHANGED vars
  BY <1>1 DEF vars, input_vars, loop_vars, Inv, TypeOK, Copying, Copied
<1> QED BY <1>1, CharKeeps, OtherKeysKeep, CopyKeeps, LoopKeeps DEF Next, MainLoop

\* key_buffer is never overrun, whatever is typed when: neither by characters nor by
\* the terminator of the copy (keyboard.cpp:61, 85).
THEOREM TypeCorrect == Spec => []TypeOK
<1>1. Inv => TypeOK
  BY DEF Inv
<1> QED BY <1>1, Initially, Inductive, PTL DEF Spec

\* A line that is copied is never mixed with characters typed meanwhile, in either
\* order of the two stores at the end and however handlers nest (keyboard.cpp:55-89).
THEOREM NeverTorn == Spec => []NotTorn
<1>1. Inv => NotTorn
  BY CopiedIsPrefix DEF Inv
<1> QED BY <1>1, Initially, Inductive, PTL DEF Spec

(***************************************************************************)
(* The place for one line.                                                 *)
(***************************************************************************)

\* The end of get_input_buffer: the copy is whole, and if buffer_pos is the first
\* that is reset it stays so, since the line is still ready.
Closing ==
    /\ pc \in {"clear", "clear_ready"} => buffer = SubSeq(key_buffer, 1, n)
    /\ pc = "clear_ready" => line_ready /\ buffer_pos = 0

\* Storing a character behind the line makes it one longer.
LEMMA PrefixGrows ==
  ASSUME NEW s \in Seq(Chars), NEW m \in 0 .. Len(s), NEW c \in Chars
  PROVE  SubSeq(Put(s, m + 1, c), 1, m + 1) = Append(SubSeq(s, 1, m), c)
<1>1. PICK t : t = Put(s, m + 1, c)
  OBVIOUS
<1>2. t \in Seq(Chars) /\ m + 1 \in 1 .. Len(s) + 1 /\ Len(t) = IF m + 1 > Len(s) THEN m + 1 ELSE Len(s)
  <2>1. m + 1 \in 1 .. Len(s) + 1
    OBVIOUS
  <2> QED BY <1>1, <2>1, PutKeeps
<1>3. m + 1 \in 0 .. Len(t)
  BY <1>2
<1>4. \A i \in 1 .. m + 1 : t[i] = IF i = m + 1 THEN c ELSE s[i]
  BY <1>1, <1>2 DEF Put
<1>5. PICK u : u = SubSeq(t, 1, m + 1)
  OBVIOUS
<1>6. PICK v : v = SubSeq(s, 1, m)
  OBVIOUS
<1>7. u \in Seq(Chars) /\ Len(u) = m + 1 /\ \A i \in 1 .. m + 1 : u[i] = t[i]
  BY <1>2, <1>3, <1>5, PrefixFacts
<1>8. v \in Seq(Chars) /\ Len(v) = m /\ \A i \in 1 .. m : v[i] = s[i]
  BY <1>6, PrefixFacts
<1>9. /\ Append(v, c) \in Seq(Chars) /\ Len(Append(v, c)) = m + 1
      /\ \A i \in 1 .. m : Append(v, c)[i] = v[i]
      /\ Append(v, c)[m + 1] = c
  BY <1>8, AppendProperties
<1>10. \A i \in 1 .. Len(u) : u[i] = Append(v, c)[i]
  <2> SUFFICES ASSUME NEW i \in 1 .. Len(u) PROVE u[i] = Append(v, c)[i]
    OBVIOUS
  <2>1. CASE i = m + 1
    BY <2>1, <1>4, <1>7, <1>9
  <2>2. CASE i # m + 1
    <3>1. i \in 1 .. m /\ i \in 1 .. m + 1
      BY <2>2, <1>7
    <3> QED BY <2>2, <3>1, <1>4, <1>7, <1>8, <1>9
  <2> QED BY <2>1, <2>2
<1>11. u = Append(v, c)
  BY <1>7, <1>9, <1>10, SeqEqual
<1> QED BY <1>1, <1>5, <1>6, <1>11

\* Backspace takes the last character from the line.
LEMMA PrefixShrinks ==
  ASSUME NEW s \in Seq(Chars), NEW m \in 1 .. Len(s)
  PROVE  SubSeq(s, 1, m - 1) = SubSeq(SubSeq(s, 1, m), 1, m - 1)
<1>1. PICK t : t = SubSeq(s, 1, m)
  OBVIOUS
<1>2. t \in Seq(Chars) /\ Len(t) = m /\ \A i \in 1 .. m : t[i] = s[i]
  BY <1>1, PrefixFacts
<1>3. PICK u : u = SubSeq(t, 1, m - 1)
  OBVIOUS
<1>4. PICK v : v = SubSeq(s, 1, m - 1)
  OBVIOUS
<1>5. m - 1 \in 0 .. Len(s) /\ m - 1 \in 0 .. Len(t)
  BY <1>2
<1>6. u \in Seq(Chars) /\ Len(u) = m - 1 /\ \A i \in 1 .. m - 1 : u[i] = t[i]
  BY <1>2, <1>3, <1>5, PrefixFacts
<1>7. v \in Seq(Chars) /\ Len(v) = m - 1 /\ \A i \in 1 .. m - 1 : v[i] = s[i]
  BY <1>4, <1>5, PrefixFacts
<1>8. u = v
  BY <1>2, <1>6, <1>7, SeqEqual
<1> QED BY <1>1, <1>3, <1>4, <1>8

\* Closing is kept by every step.
LEMMA ClosingKept == Inv /\ Closing /\ [Next]_vars => Closing'
<1> SUFFICES ASSUME Inv, Closing, [Next]_vars PROVE Closing'
  OBVIOUS
<1> USE DEF Closing, input_vars, loop_vars, ghost_vars
<1>1. ASSUME NEW c \in Chars, key_char(c) PROVE Closing'
  <2>1. CASE line_ready
    BY <1>1, <2>1 DEF key_char
  <2>2. CASE ~line_ready
    BY <1>1, <2>2 DEF key_char, Inv, Copying
  <2> QED BY <2>1, <2>2
<1>2. CASE key_backspace
  BY <1>2 DEF key_backspace
<1>3. CASE key_enter \/ key_enter_ready
  BY <1>3 DEF key_enter, key_enter_ready
<1>4. CASE copied
  <2>1. pc = "copy" /\ Len(buffer) = n /\ buffer = SubSeq(key_buffer, 1, Len(buffer))
    BY <1>4, CopiedIsPrefix DEF copied, Inv, NotTorn
  <2> QED BY <1>4, <2>1 DEF copied
<1>5. CASE clear_pos
  BY <1>5 DEF clear_pos, Inv, Copying
<1>6. CASE poll \/ count \/ copy \/ clear_ready \/ take
  BY <1>6 DEF poll, count, copy, clear_ready, take
<1>7. CASE UNCHANGED vars
  BY <1>7 DEF vars
<1> QED BY <1>1, <1>2, <1>3, <1>4, <1>5, <1>6, <1>7 DEF Next, MainLoop

\* What the line is for the main loop, at each point of it.
LEMMA TextIs ==
  /\ Opened => Text = SubSeq(key_buffer, 1, n)
  /\ pc = "clear_pos" => Text = <<>>
  /\ ~Opened /\ pc # "clear_pos" => Text = Typed
  BY DEF Text, Opened

\* A character goes to the end of a line that is not complete, or nowhere.
LEMMA CharTypes ==
  ASSUME Inv, Closing, NEW c \in Chars, key_char(c)
  PROVE  L!Type(c) \/ UNCHANGED <<Text, line_ready, Opened, buffer>>
<1> USE DEF Inv
<1>1. UNCHANGED <<line_ready, pc, n, buffer, Opened>>
  BY DEF key_char, loop_vars, Opened
<1>2. CASE pc = "clear_pos"
  BY <1>1, <1>2, TextIs DEF Text, Opened
<1>3. CASE UNCHANGED <<key_buffer, buffer_pos>>
  BY <1>1, <1>3 DEF Text, Opened, Typed
<1>4. CASE pc # "clear_pos" /\ ~UNCHANGED <<key_buffer, buffer_pos>>
  <2>1. /\ buffer_pos < BufferSize - 1 /\ ~line_ready
        /\ key_buffer' = Put(key_buffer, buffer_pos + 1, c)
        /\ buffer_pos' = buffer_pos + 1
    BY <1>4 DEF key_char
  <2>2. buffer_pos \in 0 .. Len(key_buffer) /\ key_buffer \in Seq(Chars)
    BY DEF TypeOK
  <2>3. CASE Opened
    BY <1>1, <2>1, <2>3 DEF Opened, Copying, Closing
  <2>4. CASE ~Opened
    <3>1. Text = SubSeq(key_buffer, 1, buffer_pos)
      BY <1>4, <2>4, TextIs DEF Typed
    <3>2. Text' = SubSeq(key_buffer', 1, buffer_pos + 1)
      BY <1>1, <1>4, <2>1, <2>4 DEF Text, Opened, Typed
    <3>3. Text' = Append(Text, c)
      BY <2>1, <2>2, <3>1, <3>2, PrefixGrows
    <3>4. Len(Text) = buffer_pos
      BY <2>2, <3>1, PrefixFacts
    <3> QED BY <1>1, <2>1, <3>3, <3>4 DEF L!Type
  <2> QED BY <2>3, <2>4
<1> QED BY <1>2, <1>3, <1>4

\* Backspace shortens a line that is not opened, or nothing.
LEMMA BackspaceErases ==
  ASSUME Inv, Closing, key_backspace
  PROVE  L!Erase \/ UNCHANGED <<Text, line_ready, Opened, buffer>>
<1> USE DEF Inv
<1>1. UNCHANGED <<key_buffer, line_ready, pc, n, buffer, Opened>>
  BY DEF key_backspace, loop_vars, Opened
<1>2. CASE Opened \/ pc = "clear_pos" \/ buffer_pos = 0
  BY <1>1, <1>2 DEF Text, Opened, Typed, key_backspace
<1>3. CASE ~Opened /\ pc # "clear_pos" /\ buffer_pos # 0
  <2>1. buffer_pos \in 1 .. Len(key_buffer) /\ key_buffer \in Seq(Chars)
    BY <1>3 DEF TypeOK
  <2>2. buffer_pos' = buffer_pos - 1
    BY <2>1 DEF key_backspace
  <2>3. Text = SubSeq(key_buffer, 1, buffer_pos)
    BY <1>3, TextIs DEF Typed
  <2>4. Text' = SubSeq(key_buffer, 1, buffer_pos - 1)
    BY <1>1, <1>3, <2>2 DEF Text, Opened, Typed
  <2>5. Len(Text) = buffer_pos
    BY <2>1, <2>3, PrefixFacts
  <2>6. Text' = SubSeq(Text, 1, Len(Text) - 1)
    BY <2>1, <2>3, <2>4, <2>5, PrefixShrinks
  <2>7. Text # <<>>
    BY <2>1, <2>5
  <2> QED BY <1>1, <1>3, <2>6, <2>7 DEF L!Erase
<1> QED BY <1>2, <1>3

\* The steps of get_input_buffer: two of them open and take the line, the others are
\* nothing that a user of it sees.
LEMMA LoopTakes ==
  ASSUME Inv, Closing, MainLoop
  PROVE  L!Open \/ L!Take \/ UNCHANGED L!line_vars
<1> USE DEF Inv
<1> DEFINE Got == IF Opened THEN <<>> ELSE buffer
<1>1. CASE poll
  <2>1. ~Opened /\ ~Opened' /\ UNCHANGED <<key_buffer, buffer_pos, line_ready, buffer>>
    BY <1>1 DEF poll, input_vars, Opened
  <2>2. Text = Typed /\ Text' = Typed'
    BY <1>1 DEF poll, Text, Opened
  <2>3. Text' = Text /\ Got' = Got /\ Opened' = Opened
    BY <2>1, <2>2 DEF Typed, Opened
  <2> QED BY <2>1, <2>3 DEF L!line_vars
<1>2. CASE count
  <2>1. /\ line_ready /\ line_ready' = line_ready /\ ~Opened /\ Opened'
        /\ pc = "count" /\ n' = buffer_pos /\ key_buffer' = key_buffer
    BY <1>2 DEF count, input_vars, Opened, Copying
  <2>2. Text' = Text
    BY <2>1 DEF Text, Opened, Typed
  <2>3. Got' = <<>>
    BY <2>1
  <2> QED BY <2>1, <2>2, <2>3 DEF L!Open
<1>3. CASE copy \/ copied \/ clear_pos
  <2>1. /\ UNCHANGED <<key_buffer, line_ready, n>> /\ Opened /\ Opened'
    BY <1>3 DEF copy, copied, clear_pos, input_vars, Opened
  <2>2. Text' = Text /\ Got' = Got
    BY <2>1 DEF Text, Opened
  <2> QED BY <2>1, <2>2 DEF L!line_vars
<1>4. CASE clear_ready
  <2>1. /\ pc = "clear" /\ pc' = "clear_pos" /\ line_ready /\ line_ready' = FALSE
        /\ buffer' = buffer /\ buffer = SubSeq(key_buffer, 1, n)
    BY <1>4 DEF clear_ready, Copying, Closing
  <2>2. Opened /\ ~Opened' /\ Text = buffer /\ Text' = <<>>
    BY <2>1 DEF Text, Opened
  <2>3. Got' = Text /\ Opened' = FALSE
    <3>1. Got' = Text BY <2>1, <2>2
    <3>2. Opened' = FALSE BY <2>1 DEF Opened
    <3> QED BY <3>1, <3>2
  <2> QED BY <2>1, <2>2, <2>3 DEF L!Take
<1>5. CASE take /\ pc = "clear_ready"
  <2>1. /\ pc' = "poll" /\ line_ready /\ line_ready' = FALSE /\ buffer_pos' = 0
        /\ UNCHANGED <<key_buffer, buffer>> /\ buffer = SubSeq(key_buffer, 1, n)
    BY <1>5 DEF take, Closing
  <2>2. Opened /\ ~Opened' /\ Text = buffer /\ Text' = SubSeq(key_buffer, 1, 0)
    BY <1>5, <2>1 DEF Text, Opened, Typed
  <2>3. SubSeq(key_buffer, 1, 0) = <<>>
    BY SubSeqEmpty DEF TypeOK
  <2>4. Got' = Text /\ Opened' = FALSE
    <3>1. Got' = Text BY <2>1, <2>2
    <3>2. Opened' = FALSE BY <2>1 DEF Opened
    <3> QED BY <3>1, <3>2
  <2> QED BY <2>1, <2>2, <2>3, <2>4 DEF L!Take
<1>6. CASE take /\ pc = "clear_pos"
  <2>1. /\ pc' = "poll" /\ line_ready' = line_ready /\ buffer_pos' = 0
        /\ UNCHANGED <<key_buffer, buffer>>
    BY <1>6 DEF take
  <2>2. ~Opened /\ ~Opened' /\ Text = <<>> /\ Text' = SubSeq(key_buffer, 1, 0)
    BY <1>6, <2>1 DEF Text, Opened, Typed
  <2>3. SubSeq(key_buffer, 1, 0) = <<>>
    BY SubSeqEmpty DEF TypeOK
  <2>4. Got' = Got /\ Opened' = Opened
    BY <2>1, <2>2 DEF Opened
  <2> QED BY <2>1, <2>2, <2>3, <2>4 DEF L!line_vars
<1>7. take => pc \in {"clear_pos", "clear_ready"}
  BY DEF take
<1> QED BY <1>1, <1>2, <1>3, <1>4, <1>5, <1>6, <1>7 DEF MainLoop

\* The shared buffer, with no lock, is a place for one line: every line the main loop
\* gets is one that Enter completed, with exactly the characters that were in it when
\* the copy began, in order; nothing typed before, meanwhile or between the two last
\* stores is in it or in the next (keyboard.cpp:55-95).
THEOREM BufferIsOneLine == Spec => LineSpec
<1>1. Init => L!Init /\ Closing
  <2> SUFFICES ASSUME Init PROVE L!Init /\ Closing
    OBVIOUS
  <2>1. Text = SubSeq(<<>>, 1, 0) /\ ~Opened
    BY DEF Init, Text, Opened, Typed
  <2>2. <<>> \in Seq(Chars) /\ Len(<<>>) = 0
    BY EmptySeq
  <2>3. Text = <<>>
    BY <2>1, <2>2, SubSeqEmpty
  <2> QED BY <2>1, <2>3 DEF Init, L!Init, Closing
<1>2. Inv /\ Closing /\ [Next]_vars => [L!Next]_L!line_vars
  <2> SUFFICES ASSUME Inv, Closing, [Next]_vars
               PROVE  L!Next \/ UNCHANGED L!line_vars
    OBVIOUS
  <2>1. ASSUME NEW c \in Chars, key_char(c)
        PROVE  L!Next \/ UNCHANGED L!line_vars
    BY <2>1, CharTypes DEF L!Next, L!line_vars
  <2>2. CASE key_backspace
    BY <2>2, BackspaceErases DEF L!Next, L!line_vars
  <2>3. CASE key_enter
    BY <2>3 DEF key_enter, loop_vars, L!line_vars, Text, Opened, Typed
  <2>4. CASE key_enter_ready
    <3>1. UNCHANGED <<Text, Opened, buffer>> /\ line_ready' = TRUE
      BY <2>4 DEF key_enter_ready, loop_vars, Text, Opened, Typed
    <3>2. CASE line_ready = TRUE
      BY <3>1, <3>2 DEF L!line_vars
    <3>3. CASE ~line_ready
      BY <3>1, <3>3 DEF L!Enter, L!Next
    <3> QED BY <3>2, <3>3 DEF Inv, TypeOK
  <2>5. CASE MainLoop
    BY <2>5, LoopTakes DEF L!Next
  <2>6. CASE UNCHANGED vars
    BY <2>6 DEF vars, input_vars, loop_vars, L!line_vars, Text, Opened, Typed
  <2> QED BY <2>1, <2>2, <2>3, <2>4, <2>5, <2>6 DEF Next
<1> QED
  BY <1>1, <1>2, Initially, Inductive, ClosingKept, PTL DEF Spec, LineSpec, L!Spec
=============================================================================
