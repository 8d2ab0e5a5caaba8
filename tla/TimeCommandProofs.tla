------------------------- MODULE TimeCommandProofs -------------------------
(***************************************************************************)
(* The time command shows a time that existed, for every chip that gives   *)
(* at least six reads of notice, every time at boot and all numbers that   *)
(* handlers print.                                                         *)
(***************************************************************************)
EXTENDS TimeCommand, FiniteSetTheorems, SequenceTheorems, TLAPS

\* What a loop over the fields ranges over.
F == 1 .. Len(Fields)

\* There are six fields.
LEMMA SixFields == Len(Fields) = 6 /\ F = 1 .. 6
  BY DEF Fields, F

\* The next second is a time.
LEMMA LaterIsTime ==
  ASSUME NEW t \in Times
  PROVE  Later(t) \in Times
<1>1. t \in [F -> 0 .. 99] /\ \A f \in F : t[f] \in First[f] .. Last[f]
  BY DEF Times, F
<1>2. \A f \in F : First[f] \in 0 .. 99 /\ Last[f] \in 0 .. 99 /\ First[f] <= Last[f]
  BY RtcAssumption DEF F
<1>3. DOMAIN t = F
  BY <1>1
<1>4. ASSUME NEW f \in F
      PROVE  /\ Later(t)[f] \in {t[f], First[f]} \cup (IF t[f] = Last[f] THEN {} ELSE {t[f] + 1})
  BY <1>3 DEF Later
<1>5. \A f \in F : Later(t)[f] \in 0 .. 99 /\ Later(t)[f] \in First[f] .. Last[f]
  BY <1>1, <1>2, <1>4
<1>6. Later(t) \in [F -> 0 .. 99]
  BY <1>3, <1>5, Zenon DEF Later
<1> QED BY <1>5, <1>6 DEF Times, F

\* The code's conversion undoes the chip's (rtc.cpp:26).
LEMMA ConversionUndone ==
  ASSUME NEW v \in 0 .. 99
  PROVE  BCD_TO_BINARY(BCD(v)) = v /\ BCD(v) \in 0 .. 255
<1>1. v % 10 \in 0 .. 9 /\ v \div 10 \in 0 .. 9 /\ v = 10 * (v \div 10) + (v % 10)
  BY SMT
<1>2. BCD(v) \div 16 = v \div 10 /\ BCD(v) % 16 = v % 10
  BY <1>1, SMT DEF BCD
<1> QED BY <1>1, <1>2 DEF BCD_TO_BINARY, BCD

\* The types of what the six reads touch.
RtcTypes ==
    /\ now \in Times
    /\ phase \in {"idle", "announced", "updating"}
    /\ lead \in 0 .. Lead /\ (phase # "announced" => lead = 0)
    /\ binary \in BOOLEAN /\ torn \in BOOLEAN
    /\ rpc \in {"idle", "wait", "read", "convert", "done"}
    /\ time \in Seq(Int)
    /\ rpc = "read" => Len(time) < Len(Fields)
    /\ rpc \in {"convert", "done"} => Len(time) = Len(Fields)
    /\ passed \subseteq Times

\* While the registers are read without a handler in between, no update begins: the
\* reads cannot use up the notice.  So what has been read is the chip's time.
Coherent ==
    /\ rpc = "read" /\ ~torn =>
         /\ phase # "updating" /\ passed = {now}
         /\ phase = "announced" => lead <= Len(time)
         /\ \A f \in 1 .. Len(time) : time[f] = Register(now[f])
    /\ rpc = "convert" /\ ~torn =>
         \E t \in passed : time = [f \in F |-> Register(t[f])]
    /\ TimeExisted

RtcInv == RtcTypes /\ Coherent
-----------------------------------------------------------------------------
\* At boot nothing has been read.
LEMMA RtcInitially == RtcInit => RtcInv
<1>1. \A t \in Start : t \in Times
  BY RtcAssumption DEF Times
<1> SUFFICES ASSUME RtcInit PROVE RtcInv
  OBVIOUS
<1>2. RtcTypes
  <2>1. now \in Times /\ lead \in 0 .. Lead
    BY <1>1, RtcAssumption DEF RtcInit
  <2>2. time \in Seq(Int) /\ passed \subseteq Times
    BY DEF RtcInit
  <2> QED BY <2>1, <2>2 DEF RtcInit, RtcTypes
<1>3. Coherent
  BY DEF RtcInit, Coherent, TimeExisted
<1> QED BY <1>2, <1>3 DEF RtcInv

\* The chip's own steps.
LEMMA ChipKeeps == RtcInv /\ Chip => RtcInv'
<1> SUFFICES ASSUME RtcInv, Chip PROVE RtcInv'
  OBVIOUS
<1> USE DEF RtcInv, RtcTypes, Coherent, TimeExisted, Register
<1>1. CASE announce
  <2>1. /\ phase = "idle" /\ phase' = "announced"
        /\ UNCHANGED <<now, lead, binary, updates, rpc, time, passed, torn>>
    BY <1>1 DEF announce, read_vars
  <2> QED BY <2>1, SixFields, RtcAssumption
<1>2. CASE update_begins
  BY <1>2, SixFields, RtcAssumption DEF update_begins, read_vars
<1>3. CASE update_ends
  <2>1. now' \in Times
    BY <1>3, LaterIsTime DEF update_ends
  <2>2. RtcTypes'
    BY <1>3, <2>1, SixFields, RtcAssumption DEF update_ends
  <2> QED BY <1>3, <2>2 DEF update_ends, Reading
<1> QED BY <1>1, <1>2, <1>3 DEF Chip

\* The steps of arch_rtc_get_time.
LEMMA ReadKeeps == RtcInv /\ arch_rtc_get_time => RtcInv'
<1> SUFFICES ASSUME RtcInv, arch_rtc_get_time PROVE RtcInv'
  OBVIOUS
<1> USE DEF RtcInv, RtcTypes, Coherent, TimeExisted
<1>l. lead' \in 0 .. Lead /\ (phase' # "announced" => lead' = 0)
  BY RtcAssumption DEF arch_rtc_get_time, rtc_wait, rtc_read, rtc_convert, Accessed
<1>1. CASE rtc_wait
  <2>0. UNCHANGED <<now, phase, binary>> /\ rpc = "wait"
    BY <1>1 DEF rtc_wait
  <2>1. CASE phase # "idle"
    <3>1. UNCHANGED <<rpc, time, passed, torn>>
      BY <1>1, <2>1 DEF rtc_wait, arch_rtc_is_updating, read_vars
    <3> QED BY <1>l, <2>0, <3>1, SixFields
  <2>2. CASE phase = "idle"
    <3>1. rpc' = "read" /\ time' = <<>> /\ passed' = {now} /\ torn' = FALSE
      BY <1>1, <2>2 DEF rtc_wait, arch_rtc_is_updating
    <3>2. time' \in Seq(Int) /\ Len(time') = 0 /\ passed' \subseteq Times
      BY <3>1
    <3>3. RtcTypes'
      <4>1. now' \in Times /\ phase' \in {"idle", "announced", "updating"} /\ binary' \in BOOLEAN
        BY <2>0
      <4>2. rpc' = "read" /\ torn' \in BOOLEAN
        BY <3>1
      <4>3. Len(time') < Len(Fields)
        BY <3>2, SixFields
      <4> QED BY <1>l, <3>2, <4>1, <4>2, <4>3
    <3>4. Coherent'
      BY <2>0, <2>2, <3>1, <3>2
    <3> QED BY <3>3, <3>4
  <2> QED BY <2>1, <2>2
<1>2. CASE rtc_read
  <2>1. PICK v \in rtc_read_register(Len(time) + 1) : time' = Append(time, v)
    BY <1>2 DEF rtc_read
  <2>2. Len(time) + 1 \in F /\ Later(now) \in Times
    BY <1>2, SixFields, LaterIsTime DEF rtc_read, F
  <2>3. \A t \in Times, f \in F : Register(t[f]) \in Int
    BY SixFields DEF Times, Register, BCD, F
  <2>4. v \in Int
    BY <2>2, <2>3 DEF rtc_read_register
  <2>5. RtcTypes'
    BY <1>2, <1>l, <2>1, <2>4, SixFields DEF rtc_read
  <2>6. ASSUME ~torn
        PROVE  /\ phase # "updating" /\ passed = {now}
               /\ phase = "announced" => lead' <= Len(time')
               /\ \A f \in 1 .. Len(time') : time'[f] = Register(now[f])
    BY <1>2, <2>1, <2>4, <2>6, RtcAssumption DEF rtc_read, rtc_read_register, Accessed
  <2>7. ASSUME ~torn, rpc' = "convert"
        PROVE  time' = [f \in F |-> Register(now[f])]
    <3>1. Len(time') = 6
      BY <1>2, <2>5, <2>7, SixFields
    <3>2. time' \in Seq(Int) /\ DOMAIN time' = F
      BY <2>5, <3>1, SixFields
    <3>3. time' = [f \in F |-> time'[f]]
      BY <3>2
    <3> QED BY <2>6, <2>7, <3>1, <3>3, SixFields
  <2>8. Register(now[1])' = Register(now[1]) /\ \A t \in Times, f \in F : Register(t[f])' = Register(t[f])
    BY <1>2 DEF rtc_read, Register
  <2>9. rpc' \in {"read", "convert"} /\ torn' = torn /\ now' = now /\ phase' = phase
        /\ passed' = passed /\ binary' = binary
    BY <1>2 DEF rtc_read
  <2> QED BY <2>5, <2>6, <2>7, <2>9 DEF Register
<1>3. CASE rtc_convert
  <2>1. time' = Converted(time) /\ rpc = "convert" /\ rpc' = "done"
        /\ UNCHANGED <<now, phase, binary, passed, torn>>
    BY <1>3 DEF rtc_convert
  <2>a. time \in Seq(Int) /\ Len(time) = 6
    BY <2>1, SixFields
  <2>2. time \in [1 .. 6 -> Int]
    BY <2>a, LenProperties
  <2>b. \A f \in 1 .. 6 : BCD_TO_BINARY(time[f]) \in Int
    <3>1. \A b \in Int : BCD_TO_BINARY(b) \in Int
      BY SMT DEF BCD_TO_BINARY
    <3> QED BY <2>2, <3>1
  <2>c. time' \in [1 .. 6 -> Int]
    BY <2>1, <2>2, <2>b DEF Converted
  <2>3. time' \in Seq(Int) /\ Len(time') = 6
    <3>1. CASE binary
      BY <2>1, <2>a, <3>1 DEF Converted
    <3>2. CASE ~binary
      <4>1. time' = [f \in 1 .. 6 |-> BCD_TO_BINARY(time[f])]
        BY <2>1, <2>2, <3>2 DEF Converted
      <4> QED BY <2>b, <4>1
    <3> QED BY <3>1, <3>2
  <2>4. ASSUME ~torn PROVE time' \in passed
    <3>1. PICK t \in passed : time = [f \in F |-> Register(t[f])]
      BY <2>1, <2>4
    <3>2. t \in [F -> 0 .. 99]
      BY <3>1 DEF Times, F
    <3>3. \A f \in F : BCD_TO_BINARY(BCD(t[f])) = t[f]
      BY <3>2, ConversionUndone
    <3>4. Converted(time) = [f \in F |-> t[f]]
      BY <3>1, <3>2, <3>3 DEF Converted, Register
    <3> QED BY <2>1, <3>1, <3>2, <3>4
  <2> QED BY <1>l, <2>1, <2>3, <2>4, SixFields
<1> QED BY <1>1, <1>2, <1>3 DEF arch_rtc_get_time

\* A handler between two reads makes the reading torn and changes no register.
LEMMA InterruptKeeps == RtcInv /\ rtc_interrupted => RtcInv'
<1> SUFFICES ASSUME RtcInv, rtc_interrupted PROVE RtcInv'
  OBVIOUS
<1>1. UNCHANGED <<now, phase, binary, rpc, time>> /\ torn' \in BOOLEAN
  BY DEF rtc_interrupted, RtcInv, RtcTypes
<1>2. lead' \in 0 .. Lead /\ (phase' # "announced" => lead' = 0)
  BY RtcAssumption DEF rtc_interrupted, RtcInv, RtcTypes
<1>3. torn' = (torn \/ rpc = "read") /\ passed' = IF torn' THEN {} ELSE passed
  BY DEF rtc_interrupted, Reading
<1> QED BY <1>1, <1>2, <1>3 DEF RtcInv, RtcTypes, Coherent, TimeExisted, Register

\* Steps of the command that leave the chip and the reading alone.
LEMMA OthersKeep == RtcInv /\ UNCHANGED <<chip_vars, read_vars>> => RtcInv'
  BY DEF RtcInv, RtcTypes, Coherent, TimeExisted, chip_vars, read_vars, Register

\* No step of the command disturbs the argument about the reading.
LEMMA RtcInductive == RtcInv /\ [Next]_vars => RtcInv'
<1> SUFFICES ASSUME RtcInv, [Next]_vars PROVE RtcInv'
  OBVIOUS
<1>1. CASE UNCHANGED vars
  BY <1>1, OthersKeep DEF vars
<1>2. CASE chip
  BY <1>2, ChipKeeps DEF chip
<1>3. CASE interrupt
  BY <1>3, InterruptKeeps DEF interrupt
<1>4. CASE Thread
  <2>1. CASE arch_rtc_get_time
    BY <2>1, ReadKeeps
  <2>2. CASE UNCHANGED <<chip_vars, read_vars>>
    BY <2>2, OthersKeep
  <2>3. CASE time_command
    BY <2>3 DEF time_command, clock_get_date_time, RtcInv, RtcTypes, Coherent,
                TimeExisted, chip_vars, Register
  <2>4. CASE command_end
    <3>1. time' = <<>> /\ time' \in Seq(Int) /\ rpc' = "idle" /\ passed' = {} /\ torn' = FALSE
      BY <2>4 DEF command_end
    <3> QED BY <2>4, <3>1 DEF command_end, RtcInv, RtcTypes, Coherent, TimeExisted, chip_vars
  <2>5. next_number \/ number_end => UNCHANGED <<chip_vars, read_vars>>
    BY DEF next_number, number_end
  <2> QED BY <1>4, <2>1, <2>2, <2>3, <2>4, <2>5 DEF Thread
<1> QED BY <1>1, <1>2, <1>3, <1>4 DEF Next

\* Six reads give one time that the chip has shown since its flag was seen clear,
\* unless a handler ran in between (rtc.cpp:43-63).
THEOREM TimeReadExisted == Spec => []TimeExisted
<1>1. Init => RtcInv
  BY RtcInitially DEF Init
<1>2. RtcInv => TimeExisted
  BY DEF RtcInv, Coherent
<1> QED BY <1>1, <1>2, RtcInductive, PTL DEF Spec
-----------------------------------------------------------------------------
(* The static buffer *)

\* A number has at most ten digits.
LEMMA AtMostTen ==
  ASSUME NEW n \in Int
  PROVE  nb_digits(n) \in 0 .. 10
<1> DEFINE S == {k \in 1 .. 10 : Power[k] <= n}
<1>1. IsFiniteSet(1 .. 10) /\ Cardinality(1 .. 10) = 10
  <2>1. 1 \in Int /\ 10 \in Int /\ ~(1 > 10) /\ 10 - 1 + 1 = 10
    OBVIOUS
  <2>2. IsFiniteSet(1 .. 10) /\ Cardinality(1 .. 10) = IF 1 > 10 THEN 0 ELSE 10 - 1 + 1
    BY <2>1, FS_Interval, Zenon
  <2> QED BY <2>1, <2>2
<1>2. Cardinality(S) <= 10 /\ IsFiniteSet(S)
  BY <1>1, FS_Subset
<1>3. Cardinality(S) \in Nat
  BY <1>2, FS_CardinalityType
<1> QED BY <1>2, <1>3 DEF nb_digits

\* What is stored for a digit is one.
LEMMA DigitIsDigit ==
  ASSUME NEW n \in Int, NEW k \in 0 .. 9
  PROVE  Digit(n, k) \in 0 .. 9
<1>1. Power[k + 1] \in Int /\ Power[k + 1] > 0
  BY DEF Power
<1>2. n \div Power[k + 1] \in Int
  BY <1>1
<1> QED BY <1>2 DEF Digit

\* Digits is a sequence of digits.
LEMMA DigitsAreDigits ==
  ASSUME NEW n \in Int
  PROVE  /\ Digits(n) \in Seq(0 .. 9) /\ Len(Digits(n)) = nb_digits(n)
         /\ \A i \in 1 .. nb_digits(n) : /\ Digits(n)[i] = Digit(n, nb_digits(n) - i)
                                         /\ Digits(n)[i] \in 0 .. 9
<1>1. nb_digits(n) \in 0 .. 10
  BY AtMostTen
<1>2. \A i \in 1 .. nb_digits(n) : Digit(n, nb_digits(n) - i) \in 0 .. 9
  BY <1>1, DigitIsDigit
<1> QED BY <1>1, <1>2 DEF Digits

\* The types of printk's state; handlers print integers.
PrintkTypes ==
    /\ buffer \in [0 .. BufferSize - 1 -> {NUL} \cup 0 .. 9]
    /\ number \in Int /\ rest \in -1 .. 10 /\ reader \in -1 .. 10
    /\ rest = -1 \/ reader = -1
    /\ rest <= nb_digits(number)
    /\ shown \in Seq(0 .. 9) /\ spoilt \subseteq HandlerNumbers

\* There is a terminator where the longest of the numbers ends that were written
\* since the conversion began, and the loop has not passed it.
Bounded ==
    /\ NotPrinting => shown = <<>>
    /\ rest # -1 => shown = <<>>
    /\ reader >= 0 => Len(shown) = reader
    /\ ~NotPrinting =>
         \E n \in {number} \cup spoilt :
           /\ nb_digits(n) >= nb_digits(number)
           /\ buffer[nb_digits(n)] = NUL
           /\ reader <= nb_digits(n)

\* Undisturbed, the digits are stored from the right, and read from the left.
Right ==
    ~NotPrinting /\ spoilt = {} =>
      /\ buffer[nb_digits(number)] = NUL
      /\ \A i \in 0 .. nb_digits(number) - 1 : i >= rest => buffer[i] = Digits(number)[i + 1]
      /\ reader >= 0 => \A i \in 1 .. reader : shown[i] = Digits(number)[i]

PrintkInv == PrintkTypes /\ Bounded /\ Right

\* At boot nothing is being printed.
LEMMA PrintkInitially == PrintkInit => PrintkInv
<1> SUFFICES ASSUME PrintkInit PROVE PrintkInv
  OBVIOUS
<1>1. nb_digits(0) = 1
  BY DEF nb_digits
<1>2. PrintkTypes
  BY <1>1 DEF PrintkInit, PrintkTypes, BufferSize
<1>3. NotPrinting /\ shown = <<>> /\ reader = -1 /\ rest = -1
  BY DEF PrintkInit, NotPrinting
<1> QED BY <1>2, <1>3 DEF PrintkInv, Bounded, Right

\* A conversion begins.
LEMMA ConversionBegins ==
  ASSUME PrintkInv, NEW n \in Int, int2String(n)
  PROVE  PrintkInv'
<1> USE DEF PrintkInv, PrintkTypes, BufferSize
<1>1. nb_digits(n) \in 0 .. 10 /\ nb_digits(0) = 1
  BY AtMostTen DEF nb_digits
<1>2. /\ number' = n /\ shown' = <<>> /\ spoilt' = {} /\ reader' = -1 /\ NotPrinting
      /\ rest' = IF n = 0 THEN 0 ELSE nb_digits(n)
  BY DEF int2String, NotPrinting
<1>3. /\ buffer' \in [0 .. BufferSize - 1 -> {NUL} \cup 0 .. 9]
      /\ buffer'[nb_digits(n)] = NUL
      /\ n = 0 => buffer'[0] = Digits(0)[1]
  <2>1. CASE n = 0
    <3>1. buffer' = Written(buffer, 0)
      BY <2>1 DEF int2String
    <3>2. Digits(0)[1] \in 0 .. 9
      BY <1>1, DigitsAreDigits
    <3>3. buffer' = [i \in 0 .. 15 |-> IF i < 1 THEN Digits(0)[i + 1]
                                       ELSE IF i = 1 THEN NUL ELSE buffer[i]]
      BY <1>1, <3>1 DEF Written
    <3>4. \A i \in 0 .. 15 : i < 1 => Digits(0)[i + 1] \in 0 .. 9
      BY <3>2
    <3> QED BY <1>1, <2>1, <3>3, <3>4
  <2>2. CASE n # 0
    <3>1. buffer' = [buffer EXCEPT ![nb_digits(n)] = NUL]
      BY <2>2 DEF int2String
    <3>2. nb_digits(n) \in 0 .. 15 /\ buffer \in [0 .. 15 -> {NUL} \cup 0 .. 9]
      BY <1>1
    <3>3. buffer' \in [0 .. 15 -> {NUL} \cup 0 .. 9] /\ buffer'[nb_digits(n)] = NUL
      BY <3>1, <3>2
    <3> QED BY <2>2, <3>3
  <2> QED BY <2>1, <2>2
<1>4. PrintkTypes'
  <2>1. shown' \in Seq(0 .. 9) /\ spoilt' \subseteq HandlerNumbers
    BY <1>2
  <2>2. rest' \in -1 .. 10 /\ rest' <= nb_digits(number')
    BY <1>1, <1>2
  <2> QED BY <1>2, <1>3, <2>1, <2>2
<1>5. Bounded'
  BY <1>1, <1>2, <1>3 DEF Bounded, NotPrinting
<1>6. Right'
  <2>1. ASSUME NEW i \in 0 .. nb_digits(n) - 1, i >= rest'
        PROVE  buffer'[i] = Digits(n)[i + 1]
    BY <1>1, <1>2, <1>3, <2>1
  <2> QED BY <1>2, <1>3, <2>1 DEF Right
<1> QED BY <1>4, <1>5, <1>6

\* A digit is stored: below the terminator of the longest number.
LEMMA DigitStored ==
  ASSUME PrintkInv, int2String_digit
  PROVE  PrintkInv'
<1> USE DEF PrintkInv, PrintkTypes, BufferSize
<1> DEFINE d == Digit(number, nb_digits(number) - rest)
<1>1. nb_digits(number) \in 0 .. 10
  BY AtMostTen
<1>2. /\ rest > 0 /\ rest' = rest - 1 /\ UNCHANGED <<number, reader, shown, spoilt>>
      /\ buffer' = [buffer EXCEPT ![rest - 1] = d]
      /\ rest <= nb_digits(number) /\ rest - 1 \in 0 .. 9 /\ reader = -1
  BY <1>1 DEF int2String_digit
<1>3. d \in 0 .. 9 /\ Digits(number)[rest] = d
  <2>1. rest \in 1 .. nb_digits(number) /\ nb_digits(number) - rest \in 0 .. 9
    BY <1>1, <1>2
  <2>2. d \in 0 .. 9
    BY <2>1, DigitIsDigit
  <2> QED BY <2>1, <2>2, DigitsAreDigits
<1>4. PrintkTypes'
  <2>1. buffer' \in [0 .. 15 -> {NUL} \cup 0 .. 9]
    BY <1>2, <1>3
  <2>2. rest' \in -1 .. 10 /\ rest' <= nb_digits(number)
    BY <1>1, <1>2
  <2> QED BY <1>2, <2>1, <2>2
<1>5. Bounded'
  <2>1. PICK n \in {number} \cup spoilt :
          nb_digits(n) >= nb_digits(number) /\ buffer[nb_digits(n)] = NUL
    BY <1>2 DEF Bounded, NotPrinting
  <2>2. nb_digits(n) \in 0 .. 10
    BY PrintkAssumption, AtMostTen
  <2>3. buffer'[nb_digits(n)] = NUL /\ reader' <= nb_digits(n)
    BY <1>1, <1>2, <2>1, <2>2
  <2>4. shown' = <<>> /\ ~NotPrinting'
    BY <1>2 DEF Bounded, NotPrinting
  <2> QED BY <1>2, <2>1, <2>3, <2>4 DEF Bounded
<1>6. Right'
  <2>1. ASSUME spoilt = {}
        PROVE  /\ buffer'[nb_digits(number)] = NUL
               /\ \A i \in 0 .. nb_digits(number) - 1 :
                    i >= rest - 1 => buffer'[i] = Digits(number)[i + 1]
    BY <1>1, <1>2, <1>3, <2>1 DEF Right, NotPrinting
  <2> QED BY <1>2, <2>1 DEF Right
<1> QED BY <1>4, <1>5, <1>6

\* The loop of printk begins.
LEMMA ConversionReturns ==
  ASSUME PrintkInv, int2String_return
  PROVE  PrintkInv'
<1> USE DEF PrintkInv, PrintkTypes, BufferSize
<1>1. nb_digits(number) \in 0 .. 10
  BY AtMostTen
<1>2. rest = 0 /\ reader' = 0 /\ rest' = -1 /\ UNCHANGED <<buffer, number, shown, spoilt>>
  BY DEF int2String_return
<1>3. shown = <<>> /\ ~NotPrinting /\ ~NotPrinting'
  BY <1>2 DEF Bounded, NotPrinting
<1>4. \A n \in {number} \cup spoilt : nb_digits(n) \in 0 .. 10
  BY PrintkAssumption, AtMostTen
<1>5. PrintkTypes'
  BY <1>1, <1>2
<1>6. Bounded'
  BY <1>2, <1>3, <1>4 DEF Bounded
<1>7. Right'
  BY <1>2, <1>3 DEF Right
<1> QED BY <1>5, <1>6, <1>7

\* A character is printed: the loop has not reached the terminator of the longest
\* number, and undisturbed it is a digit of the thread's.
LEMMA CharPrinted ==
  ASSUME PrintkInv, printk_char
  PROVE  PrintkInv'
<1> USE DEF PrintkInv, PrintkTypes, BufferSize
<1> DEFINE c == buffer[reader]
<1>1. /\ reader >= 0 /\ c # NUL /\ shown' = Append(shown, c) /\ reader' = reader + 1
      /\ UNCHANGED <<buffer, number, rest, spoilt>> /\ rest = -1
  BY DEF printk_char
<1>2. c \in 0 .. 9 /\ ~NotPrinting /\ ~NotPrinting' /\ Len(shown) = reader
  BY <1>1 DEF Bounded, NotPrinting
<1>3. nb_digits(number) \in 0 .. 10
  BY AtMostTen
<1>4. PICK n \in {number} \cup spoilt :
        /\ nb_digits(n) >= nb_digits(number)
        /\ buffer[nb_digits(n)] = NUL
        /\ reader <= nb_digits(n)
  BY <1>2 DEF Bounded
<1>5. nb_digits(n) \in 0 .. 10
  BY PrintkAssumption, AtMostTen
<1>6. reader' <= nb_digits(n)
  BY <1>1, <1>4, <1>5
<1>7. shown' \in Seq(0 .. 9) /\ Len(shown') = reader'
  BY <1>1, <1>2
<1>8. PrintkTypes'
  BY <1>1, <1>5, <1>6, <1>7
<1>9. Bounded'
  BY <1>1, <1>2, <1>4, <1>6, <1>7 DEF Bounded
<1>10. Right'
  <2> SUFFICES ASSUME spoilt = {}
               PROVE  \A i \in 1 .. reader + 1 : shown'[i] = Digits(number)[i]
    BY <1>1, <1>2 DEF Right
  <2>1. reader < nb_digits(number)
    <3>1. n = number /\ reader # nb_digits(number)
      BY <1>1, <1>4
    <3> QED BY <1>1, <1>3, <1>4, <3>1
  <2>2. c = Digits(number)[reader + 1]
    <3>1. reader \in 0 .. nb_digits(number) - 1 /\ reader >= rest
      BY <1>1, <1>3, <2>1
    <3> QED BY <1>2, <3>1 DEF Right
  <2>3. \A i \in 1 .. reader : shown'[i] = Digits(number)[i]
    BY <1>1, <1>2 DEF Right
  <2> QED BY <1>1, <1>2, <2>2, <2>3
<1> QED BY <1>8, <1>9, <1>10

\* The loop ends.
LEMMA NumberEnds ==
  ASSUME PrintkInv, printk_end
  PROVE  PrintkInv'
<1> USE DEF PrintkInv, PrintkTypes, BufferSize
<1>1. /\ reader' = -1 /\ number' = 0 /\ shown' = <<>> /\ spoilt' = {}
      /\ UNCHANGED <<buffer, rest>> /\ rest = -1
  BY DEF printk_end
<1>2. NotPrinting' /\ nb_digits(0) = 1
  BY <1>1 DEF NotPrinting, nb_digits
<1>3. PrintkTypes'
  BY <1>1, <1>2
<1> QED BY <1>1, <1>2, <1>3 DEF Bounded, Right

\* A handler writes a whole number: if it is the longest so far its terminator is
\* the one that counts, and if it is not it leaves that one alone.
LEMMA HandlerPrints ==
  ASSUME PrintkInv, NEW h \in HandlerNumbers, printk_interrupted(h)
  PROVE  PrintkInv'
<1> USE DEF PrintkInv, PrintkTypes, BufferSize
<1>1. /\ buffer' = Written(buffer, h)
      /\ spoilt' = IF NotPrinting THEN spoilt ELSE spoilt \cup {h}
      /\ UNCHANGED <<number, rest, reader, shown>>
  BY DEF printk_interrupted
<1>2. h \in Int /\ nb_digits(h) \in 0 .. 10 /\ nb_digits(number) \in 0 .. 10
  BY PrintkAssumption, AtMostTen
<1>3. buffer' = [i \in 0 .. 15 |-> IF i < nb_digits(h) THEN Digits(h)[i + 1]
                                   ELSE IF i = nb_digits(h) THEN NUL ELSE buffer[i]]
  BY <1>1 DEF Written
<1>4. \A i \in 0 .. 15 : i < nb_digits(h) => Digits(h)[i + 1] \in 0 .. 9
  <2> SUFFICES ASSUME NEW i \in 0 .. 15, i < nb_digits(h)
               PROVE  Digits(h)[i + 1] \in 0 .. 9
    OBVIOUS
  <2>1. i + 1 \in 1 .. nb_digits(h)
    BY <1>2
  <2> QED BY <1>2, <2>1, DigitsAreDigits
<1>5. buffer' \in [0 .. 15 -> {NUL} \cup 0 .. 9]
  <2>1. \A i \in 0 .. 15 : buffer'[i] \in {NUL} \cup 0 .. 9
    <3> SUFFICES ASSUME NEW i \in 0 .. 15 PROVE buffer'[i] \in {NUL} \cup 0 .. 9
      OBVIOUS
    <3>1. CASE i < nb_digits(h)
      BY <1>3, <1>4, <3>1
    <3>2. CASE ~(i < nb_digits(h))
      <4>1. buffer[i] \in {NUL} \cup 0 .. 9
        OBVIOUS
      <4> QED BY <1>3, <3>2, <4>1, Zenon
    <3> QED BY <3>1, <3>2
  <2> QED BY <1>3, <2>1
<1>6. PrintkTypes'
  BY <1>1, <1>5
<1>7. NotPrinting' = NotPrinting
  BY <1>1 DEF NotPrinting
<1>8. Bounded'
  <2>1. CASE NotPrinting
    BY <1>1, <1>7, <2>1 DEF Bounded
  <2>2. CASE ~NotPrinting
    <3>1. PICK n \in {number} \cup spoilt :
            /\ nb_digits(n) >= nb_digits(number)
            /\ buffer[nb_digits(n)] = NUL
            /\ reader <= nb_digits(n)
      BY <2>2 DEF Bounded
    <3>2. PICK a \in 0 .. 10, b \in 0 .. 10, c \in 0 .. 10 :
            a = nb_digits(n) /\ b = nb_digits(h) /\ c = nb_digits(number)
      BY <1>2, PrintkAssumption, AtMostTen
    <3>3. a >= c /\ buffer[a] = NUL /\ reader <= a
      BY <3>1, <3>2
    <3>4. buffer' = [i \in 0 .. 15 |-> IF i < b THEN Digits(h)[i + 1]
                                       ELSE IF i = b THEN NUL ELSE buffer[i]]
      BY <1>3, <3>2
    <3>5. n \in {number} \cup spoilt' /\ h \in {number} \cup spoilt'
      BY <1>1, <2>2
    <3>6. CASE a > b
      <4>1. buffer'[a] = NUL
        BY <3>3, <3>4, <3>6
      <4> QED BY <1>1, <1>7, <2>2, <3>1, <3>2, <3>5, <4>1 DEF Bounded
    <3>7. CASE ~(a > b)
      <4>1. buffer'[b] = NUL /\ b >= c /\ reader <= b
        BY <3>3, <3>4, <3>7
      <4> QED BY <1>1, <1>7, <2>2, <3>2, <3>5, <4>1 DEF Bounded
    <3> QED BY <3>6, <3>7
  <2> QED BY <2>1, <2>2
<1>9. Right'
  BY <1>1, <1>7 DEF Right
<1> QED BY <1>6, <1>8, <1>9

\* Steps that leave printk's state alone.
LEMMA PrintkUntouched ==
  ASSUME PrintkInv, UNCHANGED printk_vars
  PROVE  PrintkInv'
  BY DEF PrintkInv, PrintkTypes, Bounded, Right, NotPrinting, printk_vars

-----------------------------------------------------------------------------
(* The command *)

\* The numbers shown so far are those of the reading, unless a handler printed into
\* one; the number that is printed is the next one.
CommandInv ==
    /\ printed \in Seq(Seq(0 .. 9)) /\ Len(printed) <= 3
    /\ rpc # "done" => NotPrinting /\ Len(printed) = 0
    /\ ~NotPrinting => Len(printed) < 3 /\ number = time[Arguments[Len(printed) + 1]]
    /\ clean => \A i \in 1 .. Len(printed) : printed[i] = Digits(time[Arguments[i]])

Inv == RtcInv /\ PrintkInv /\ CommandInv

\* Every argument is a number.
LEMMA ArgumentsRead ==
  ASSUME RtcTypes, rpc = "done", NEW i \in 1 .. 3
  PROVE  time[Arguments[i]] \in Int
<1>1. Arguments[i] \in 1 .. 6
  BY DEF Arguments
<1>2. Len(time) = 6
  BY SixFields DEF RtcTypes
<1> QED BY <1>1, <1>2, ElementOfSeq DEF RtcTypes

\* Every step of the command keeps printk's invariant.
LEMMA PrintkInductive == Inv /\ [Next]_vars => PrintkInv'
<1> SUFFICES ASSUME Inv, [Next]_vars PROVE PrintkInv'
  OBVIOUS
<1> USE DEF Inv
<1>1. CASE UNCHANGED printk_vars
  BY <1>1, PrintkUntouched
<1>2. CASE interrupt
  BY <1>1, <1>2, HandlerPrints DEF interrupt
<1>3. CASE next_number
  <2>1. Len(printed) + 1 \in 1 .. 3 /\ rpc = "done"
    BY <1>3 DEF next_number, Arguments, CommandInv
  <2>2. time[Arguments[Len(printed) + 1]] \in Int
    BY <2>1, ArgumentsRead DEF RtcInv
  <2> QED BY <1>3, <2>2, ConversionBegins DEF next_number
<1>4. CASE Thread
  BY <1>1, <1>3, <1>4, DigitStored, ConversionReturns, CharPrinted, NumberEnds
     DEF Thread, time_command, command_end, number_end
<1> QED BY <1>1, <1>2, <1>4 DEF Next, chip, vars

\* An undisturbed number is shown by exactly its digits when the loop ends.
LEMMA WholeNumberShown ==
  ASSUME PrintkInv, printk_end, spoilt = {}
  PROVE  shown = Digits(number)
<1> USE DEF PrintkInv, PrintkTypes
<1>1. reader >= 0 /\ buffer[reader] = NUL /\ ~NotPrinting /\ rest = -1
  BY DEF printk_end, NotPrinting
<1>2. nb_digits(number) \in 0 .. 10 /\ Len(shown) = reader /\ reader <= nb_digits(number)
  BY <1>1, AtMostTen DEF Bounded
<1>3. ~(reader < nb_digits(number))
  <2> SUFFICES ASSUME reader < nb_digits(number) PROVE FALSE
    OBVIOUS
  <2>1. reader \in 0 .. nb_digits(number) - 1 /\ reader >= rest
        /\ reader + 1 \in 1 .. nb_digits(number)
    BY <1>1, <1>2
  <2>2. buffer[reader] = Digits(number)[reader + 1]
    BY <1>1, <2>1 DEF Right
  <2>3. Digits(number)[reader + 1] \in 0 .. 9
    BY <2>1, DigitsAreDigits
  <2> QED BY <1>1, <2>2, <2>3 DEF NUL
<1>4. reader = nb_digits(number)
  BY <1>2, <1>3
<1>5. \A i \in 1 .. Len(shown) : shown[i] = Digits(number)[i]
  BY <1>1, <1>2 DEF Right
<1>6. Digits(number) \in Seq(0 .. 9) /\ Len(shown) = Len(Digits(number))
  BY <1>2, <1>4, DigitsAreDigits
<1> QED BY <1>5, <1>6, SeqEqual

\* Every step keeps what has been shown right.
LEMMA CommandInductive == Inv /\ [Next]_vars => CommandInv'
<1> SUFFICES ASSUME Inv, [Next]_vars PROVE CommandInv'
  OBVIOUS
<1> USE DEF Inv
<1>1. CASE UNCHANGED <<rpc, time, printk_vars, command_vars>>
  BY <1>1 DEF CommandInv, NotPrinting, printk_vars, command_vars
<1>2. CASE interrupt
  <2>1. UNCHANGED <<rpc, time, printed, clean, number, rest, reader>>
    BY <1>2 DEF interrupt, rtc_interrupted, printk_interrupted, command_vars, printk_vars
  <2> QED BY <2>1 DEF CommandInv, NotPrinting
<1>3. CASE arch_rtc_get_time /\ UNCHANGED <<printk_vars, command_vars>>
  <2>1. rpc # "done" /\ UNCHANGED <<printed, clean, number, rest, reader>>
    BY <1>3 DEF arch_rtc_get_time, rtc_wait, rtc_read, rtc_convert, printk_vars, command_vars
  <2> QED BY <2>1 DEF CommandInv, NotPrinting
<1>4. CASE time_command
  BY <1>4 DEF time_command, clock_get_date_time, CommandInv, NotPrinting, printk_vars,
              command_vars
<1>5. CASE next_number
  <2>1. /\ rpc = "done" /\ Len(printed) < 3
        /\ number' = time[Arguments[Len(printed) + 1]]
        /\ UNCHANGED <<rpc, time, printed, clean>>
    BY <1>5 DEF next_number, int2String, Arguments, read_vars, command_vars
  <2> QED BY <2>1 DEF CommandInv
<1>6. CASE (int2String_digit \/ int2String_return \/ printk_char)
           /\ UNCHANGED <<chip_vars, read_vars, command_vars>>
  <2>1. ~NotPrinting /\ UNCHANGED <<rpc, time, printed, clean, number>>
    BY <1>6 DEF int2String_digit, int2String_return, printk_char, NotPrinting,
                read_vars, command_vars, PrintkInv, PrintkTypes
  <2> QED BY <2>1 DEF CommandInv
<1>7. CASE number_end
  <2>1. /\ printk_end /\ UNCHANGED <<rpc, time>>
        /\ clean' = (clean /\ spoilt = {})
        /\ printed' = Append(printed, IF clean' THEN shown ELSE <<>>)
    BY <1>7 DEF number_end, read_vars
  <2>2. ~NotPrinting /\ NotPrinting'
    BY <2>1 DEF printk_end, NotPrinting, PrintkInv, PrintkTypes
  <2>3. Len(printed) < 3 /\ number = time[Arguments[Len(printed) + 1]] /\ rpc = "done"
    BY <2>2 DEF CommandInv
  <2>4. printed' \in Seq(Seq(0 .. 9)) /\ Len(printed') = Len(printed) + 1
    BY <2>1 DEF CommandInv, PrintkInv, PrintkTypes
  <2>5. ASSUME clean', NEW i \in 1 .. Len(printed')
        PROVE  printed'[i] = Digits(time[Arguments[i]])
    <3>1. clean /\ spoilt = {}
      BY <2>1, <2>5
    <3>2. printed' = Append(printed, Digits(number))
      BY <2>1, <2>5, <3>1, WholeNumberShown
    <3> QED BY <2>3, <2>4, <3>1, <3>2 DEF CommandInv
  <2> QED BY <2>1, <2>2, <2>3, <2>4, <2>5 DEF CommandInv
<1>8. CASE command_end
  <2>1. NotPrinting /\ NotPrinting' /\ printed' = <<>> /\ rpc' = "idle"
    <3>1. Len(printed) = 3 /\ UNCHANGED <<rest, reader>>
      BY <1>8 DEF command_end, Arguments, printk_vars
    <3> QED BY <1>8, <3>1 DEF command_end, CommandInv, NotPrinting
  <2>2. printed' \in Seq(Seq(0 .. 9)) /\ Len(printed') = 0
    BY <2>1
  <2> QED BY <2>1, <2>2 DEF CommandInv
<1>9. CASE chip
  BY <1>1, <1>9 DEF chip, Chip, announce, update_begins, update_ends, read_vars
<1> QED BY <1>1, <1>2, <1>3, <1>4, <1>5, <1>6, <1>7, <1>8, <1>9
        DEF Next, Thread, vars, read_vars

\* The invariant holds at all times.
LEMMA InvAlways == Spec => []Inv
<1>1. Init => Inv
  <2> SUFFICES ASSUME Init PROVE Inv
    OBVIOUS
  <2>1. printed \in Seq(Seq(0 .. 9)) /\ Len(printed) = 0 /\ NotPrinting
    BY DEF Init, PrintkInit, NotPrinting
  <2>2. CommandInv
    BY <2>1 DEF CommandInv
  <2> QED BY <2>2, RtcInitially, PrintkInitially DEF Init, Inv
<1>2. Inv /\ [Next]_vars => Inv'
  BY RtcInductive, PrintkInductive, CommandInductive DEF Inv
<1> QED BY <1>1, <1>2, PTL DEF Spec

\* The shared buffer may show wrong digits, never more of them than the longest of
\* the numbers that were written into it since the conversion began (string.cpp:44-63).
THEOREM NumbersBounded == Spec => []NumberBounded
<1>1. Inv => NumberBounded
  <2> SUFFICES ASSUME Inv PROVE NumberBounded
    OBVIOUS
  <2> USE DEF Inv, PrintkInv, PrintkTypes
  <2>1. nb_digits(number) \in 0 .. 10
    BY AtMostTen
  <2>2. CASE shown = <<>>
    BY <2>1, <2>2 DEF NumberBounded
  <2>3. CASE reader >= 0
    <3>1. ~NotPrinting /\ Len(shown) = reader
      BY <2>3 DEF Bounded, NotPrinting
    <3> QED BY <3>1 DEF Bounded, NumberBounded
  <2> QED BY <2>2, <2>3 DEF Bounded, NotPrinting
<1> QED BY <1>1, InvAlways, PTL

\* What the time command shows is a time the chip has had, unless a handler ran
\* inside the six reads or printed inside a number (kernel.cpp:72-77).
THEOREM ShownTimeExisted == Spec => []TimeShown
<1>1. Inv => TimeShown
  <2> SUFFICES ASSUME Inv, Len(printed) = 3, clean, ~torn
               PROVE  \E t \in passed :
                        printed = [i \in 1 .. 3 |-> Digits(t[Arguments[i]])]
    BY DEF TimeShown, Arguments
  <2>1. rpc = "done" /\ time \in passed
    BY DEF Inv, CommandInv, RtcInv, Coherent, TimeExisted
  <2>2. printed \in [1 .. 3 -> Seq(0 .. 9)]
    BY LenProperties DEF Inv, CommandInv
  <2>3. printed = [i \in 1 .. 3 |-> Digits(time[Arguments[i]])]
    BY <2>2 DEF Inv, CommandInv
  <2> QED BY <2>1, <2>3
<1> QED BY <1>1, InvAlways, PTL
=============================================================================
