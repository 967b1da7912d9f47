------------------------------ MODULE AdcProofs ------------------------------
(***************************************************************************)
(* Proofs about the ADC peripheral, for every value of the generics.       *)
(*                                                                         *)
(* The invariant says how far the exchange with the chip has come in each  *)
(* state: after k rising and f falling edges the peripheral holds the      *)
(* first k bits of the sample, the chip the first k of the command, and    *)
(* f bits of the command have left the register that sends it.             *)
(***************************************************************************)
EXTENDS AdcPeripheral, TLAPS, SequenceTheorems

Zero == <<0, 0>>

(* The receiving shift registers after k bits: of the sample of conversion  *)
(* n in the peripheral, of the command for channel c in the chip; and the   *)
(* sending one of the peripheral.                                           *)
Received(k, n) == [i \in 1 .. Bits |-> IF i > Bits - k THEN <<n, i - (Bits - k)>> ELSE Zero]
Heard(k, c) == [i \in 1 .. Bits |-> IF i > Bits - k THEN Command(c)[i - (Bits - k)] ELSE Zero]
ToSend(f, c) == [i \in 1 .. Bits |-> IF i + f <= Bits THEN Command(c)[i + f] ELSE Zero]

(* A shift register after a shift, from what it holds at each place.        *)
LEMMA ShiftedTo ==
  ASSUME NEW S, NEW r \in [1 .. Bits -> S], NEW b \in S, NEW q \in [1 .. Bits -> S],
         \A i \in 1 .. Bits - 1 : r[i + 1] = q[i],
         q[Bits] = b
  PROVE  Shifted(r, b) = q
<1>1. r \in Seq(S) /\ Len(r) = 12 /\ r # << >>
  <2>1. r \in UNION {[1 .. n -> S] : n \in Nat}
    BY DEF Bits
  <2>2. r \in Seq(S)
    BY <2>1, SeqDef
  <2>3. Len(r) = 12
    BY <2>2, LenProperties DEF Bits
  <2>4. r # << >>
    BY <2>3
  <2>. QED BY <2>2, <2>3, <2>4
<1>. DEFINE t == Tail(r)
            s == Append(t, b)
<1>2. t \in Seq(S) /\ Len(t) = 11 /\ \A i \in 1 .. 11 : t[i] = r[i + 1]
  <2>1. /\ t \in Seq(S) /\ Len(t) = Len(r) - 1
        /\ \A i \in 1 .. Len(t) : t[i] = r[i + 1]
    BY <1>1, HeadTailProperties, Zenon
  <2>. HIDE DEF t
  <2>. QED BY <2>1, <1>1
<1>3. /\ s \in Seq(S) /\ Len(s) = 12
      /\ \A i \in 1 .. 11 : s[i] = r[i + 1]
      /\ s[12] = b
  <2>1. /\ s \in Seq(S) /\ Len(s) = Len(t) + 1
        /\ \A i \in 1 .. Len(t) : s[i] = t[i]
        /\ s[Len(t) + 1] = b
    <3>. HIDE DEF t
    <3>1. t \in Seq(S)
      BY <1>2
    <3>. QED BY <3>1, AppendProperties
  <2>. HIDE DEF t, s
  <2>. QED BY <2>1, <1>2
<1>4. s \in [1 .. 12 -> S]
  <2>. HIDE DEF s
  <2>. QED BY <1>3, LenProperties
<1>. HIDE DEF s
<1>5. s = q
  BY <1>3, <1>4, SMTT(30) DEF Bits
<1>. QED BY <1>5 DEF Shifted, s, t

(* What the shift registers hold before the first bit and after one more.   *)
LEMMA ReceivedBits ==
  /\ \A n : Received(0, n) = NoBits /\ Received(Bits, n) = Sample(n)
  /\ \A n : \A k \in 0 .. Bits - 1 : Shifted(Received(k, n), <<n, k + 1>>) = Received(k + 1, n)
<1>1. ASSUME NEW n
      PROVE  Received(0, n) = NoBits /\ Received(Bits, n) = Sample(n)
  BY DEF Received, NoBits, Sample, Bits, Zero
<1>2. ASSUME NEW n, NEW k \in 0 .. Bits - 1
      PROVE  Shifted(Received(k, n), <<n, k + 1>>) = Received(k + 1, n)
  <2>. DEFINE S == {0, n} \X (0 .. Bits)
              r == Received(k, n)
              b == <<n, k + 1>>
              q == Received(k + 1, n)
  <2>1. r \in [1 .. Bits -> S] /\ q \in [1 .. Bits -> S]
    BY DEF Received, Bits, Zero
  <2>2. b \in S
    BY DEF Bits
  <2>3. (\A i \in 1 .. Bits - 1 : r[i + 1] = q[i]) /\ q[Bits] = b
    BY DEF Received, Bits
  <2>. HIDE DEF S, r, b, q
  <2>4. Shifted(r, b) = q
    BY <2>1, <2>2, <2>3, ShiftedTo, Zenon
  <2>. QED BY <2>4 DEF r, b, q
<1>. QED BY <1>1, <1>2

(* The command and its shift registers, as words.                           *)
LEMMA CommandTyped ==
  ASSUME NEW c \in Channel
  PROVE  /\ Command(c) \in [1 .. Bits -> {0, c} \X (0 .. Bits)]
         /\ \A k \in 0 .. Bits : /\ Heard(k, c) \in [1 .. Bits -> {0, c} \X (0 .. Bits)]
                                 /\ ToSend(k, c) \in [1 .. Bits -> {0, c} \X (0 .. Bits)]
<1>1. Command(c) \in [1 .. Bits -> {0, c} \X (0 .. Bits)]
  BY DEF Command, Bits, CommandBits
<1>. QED BY <1>1 DEF Heard, ToSend, Bits, Zero

(* The chip's register takes in one more bit of the command.                *)
LEMMA HeardBits ==
  ASSUME NEW c \in Channel
  PROVE  /\ Heard(0, c) = NoBits /\ Heard(Bits, c) = Command(c)
         /\ \A k \in 0 .. Bits - 1 : Shifted(Heard(k, c), Command(c)[k + 1]) = Heard(k + 1, c)
<1>1. Heard(0, c) = NoBits
  BY DEF Heard, NoBits, Zero, Bits
<1>2. Heard(Bits, c) = Command(c)
  BY CommandTyped DEF Heard, Bits
<1>3. ASSUME NEW k \in 0 .. Bits - 1
      PROVE  Shifted(Heard(k, c), Command(c)[k + 1]) = Heard(k + 1, c)
  <2>. DEFINE S == {0, c} \X (0 .. Bits)
              r == Heard(k, c)
              b == Command(c)[k + 1]
              q == Heard(k + 1, c)
  <2>1. r \in [1 .. Bits -> S] /\ q \in [1 .. Bits -> S]
    <3>1. k \in 0 .. Bits /\ k + 1 \in 0 .. Bits
      BY DEF Bits
    <3>. QED BY <3>1, CommandTyped, Zenon
  <2>2. b \in S
    BY CommandTyped, SMTT(30) DEF Bits
  <2>3. (\A i \in 1 .. Bits - 1 : r[i + 1] = q[i]) /\ q[Bits] = b
    BY DEF Heard, Bits
  <2>. HIDE DEF S, r, b, q
  <2>4. Shifted(r, b) = q
    BY <2>1, <2>2, <2>3, ShiftedTo, Zenon
  <2>. QED BY <2>4 DEF r, b, q
<1>. QED BY <1>1, <1>2, <1>3

(* The peripheral's sends one more.                                         *)
LEMMA ToSendBits ==
  ASSUME NEW c \in Channel
  PROVE  /\ ToSend(0, c) = Command(c)
         /\ \A f \in 0 .. Bits - 2 : /\ Shifted(ToSend(f, c), Zero) = ToSend(f + 1, c)
                                     /\ ToSend(f, c)[2] = Command(c)[f + 2]
<1>1. ToSend(0, c) = Command(c)
  BY CommandTyped DEF ToSend, Bits
<1>2. ASSUME NEW f \in 0 .. Bits - 2
      PROVE  Shifted(ToSend(f, c), Zero) = ToSend(f + 1, c) /\ ToSend(f, c)[2] = Command(c)[f + 2]
  <2>. DEFINE S == {0, c} \X (0 .. Bits)
              r == ToSend(f, c)
              q == ToSend(f + 1, c)
  <2>1. r \in [1 .. Bits -> S] /\ q \in [1 .. Bits -> S]
    <3>1. f \in 0 .. Bits /\ f + 1 \in 0 .. Bits
      BY DEF Bits
    <3>. QED BY <3>1, CommandTyped, Zenon
  <2>2. Zero \in S
    BY DEF Zero, Bits
  <2>3. (\A i \in 1 .. Bits - 1 : r[i + 1] = q[i]) /\ q[Bits] = Zero
    BY DEF ToSend, Bits
  <2>4. r[2] = Command(c)[f + 2]
    BY DEF ToSend, Bits
  <2>. HIDE DEF S, r, q
  <2>5. Shifted(r, Zero) = q
    BY <2>1, <2>2, <2>3, ShiftedTo, Zenon
  <2>. QED BY <2>4, <2>5 DEF r, q
<1>. QED BY <1>1, <1>2

-----------------------------------------------------------------------------
(* The registers and the chip when k bits have been taken in and f falling  *)
(* edges have passed.                                                       *)
Transfer(k, f) ==
  /\ rx = Received(k, conversion) /\ chipIn = Heard(k, command)
  /\ tx = ToSend(f, command) /\ sdi = Command(command)[f + 1] /\ chipBit = f + 1

(* How far the exchange with the chip has come, by state: what TypeOK and   *)
(* CommandIntact follow from.                                               *)
InTransfer ==
  /\ state \in {"CONV_HIGH", "CONV_WAIT"} => Transfer(0, 0)
  /\ state = "SHIFT" => sclk <= bitCnt /\ Transfer(bitCnt, bitCnt - sclk)
  /\ state = "ACQ_HOLD" => /\ rx = Sample(conversion) /\ chipIn = Command(command)
                           /\ sclk = 1 => chipBit = Bits
  /\ state = "DONE" => dataReg = Sample(conversion) /\ chipIn = Command(command)
  /\ state \notin {"SHIFT", "ACQ_HOLD"} => sclk = 0

Converting == {"CONV_HIGH", "CONV_WAIT", "SHIFT", "ACQ_HOLD"}

(* A conversion under way is later than the last that is complete, which    *)
(* is as late as any that was cleared; and a START that waits for its turn  *)
(* is within the bound.                                                     *)
Counted ==
  /\ command \in Channel /\ completed \in 0 .. conversion /\ cleared \in 0 .. completed
  /\ state # "IDLE" => conversion >= 1
  /\ state \in Converting => completed < conversion
  /\ startReq /\ state # "CONV_HIGH" => conversion < MaxConversions

(* The data register after the first cycle of ACQ_HOLD; a pending clear was *)
(* written when all that is complete was complete.                          *)
Handover ==
  /\ state = "ACQ_HOLD" => cnt < AcqHoldClks
  /\ state = "ACQ_HOLD" /\ cnt < AcqHoldClks - 1 => dataReg = Sample(conversion)
  /\ clearReq => cleared = completed

IInv == TypeOK /\ InTransfer /\ Counted /\ Handover /\ ReadyIsFresh /\ ClearSparesCompletion

(* No START is recorded before the one that accepts the last is over.       *)
Accepting == /\ asked \in BOOLEAN
             /\ state = "CONV_HIGH" => ~asked /\ cnt = 0

(* The conversion that gameDemo's ReadADC waits for: requested, under way,  *)
(* or complete.                                                             *)
Requested == state = "IDLE" /\ startReq /\ ~ready /\ owed = conversion + 1
UnderWay == /\ state \in Converting /\ (startReq => state = "CONV_HIGH")
            /\ ~ready /\ owed = conversion
Complete == state \in {"DONE", "IDLE"} /\ ~startReq /\ owed = conversion /\ dataReg = Sample(owed)

Waiting ==
  /\ program \in {"gameDemo", "any"}
  /\ program = "any" => pc = "channel" /\ got = NoBits
  /\ program = "gameDemo" =>
       /\ pc \in {"channel", "clear", "start", "poll", "data"}
       /\ pc \in {"channel", "clear", "start"} => /\ state = "IDLE" /\ ~startReq
                                                  /\ got = NoBits \/ got = Sample(owed)
       /\ pc = "start" => clearReq \/ ~ready
       /\ pc = "poll" => ~clearReq /\ (Requested \/ UnderWay \/ (Complete /\ ready))
       /\ pc = "data" => Complete /\ state = "IDLE"

-----------------------------------------------------------------------------
(* What a tick does to the state machine, the serial clock, the shift       *)
(* registers and the chip, by the state it finds.                           *)

Unmoved == UNCHANGED <<tx, rx, sdi, conversion, chipIn>>

LEMMA EffectOutside ==
  ASSUME Fsm, Sck, Datapath, Chip, state \in {"IDLE", "CONV_HIGH", "CONV_WAIT", "DONE"}, sclk = 0
  PROVE  /\ sclk' = 0 /\ clkCnt' = 0 /\ dataReg' = dataReg
         /\ ~Begins => Unmoved /\ chipBit' = chipBit
         /\ state = "IDLE" /\ ~startReq => state' = "IDLE" /\ cnt' = cnt /\ bitCnt' = bitCnt
         /\ state = "CONV_HIGH" => /\ IF cnt = 0 THEN state' = "CONV_WAIT" /\ cnt' = ConvWaitClks - 1
                                                  ELSE state' = "CONV_HIGH" /\ cnt' = cnt - 1
                                   /\ bitCnt' = bitCnt
         /\ state = "CONV_WAIT" => /\ IF cnt = 0 THEN state' = "SHIFT" /\ cnt' = 0
                                                  ELSE state' = "CONV_WAIT" /\ cnt' = cnt - 1
                                   /\ bitCnt' = 0
         /\ state = "DONE" => state' = "IDLE" /\ cnt' = 0 /\ bitCnt' = bitCnt
<1>1. ~SclkRise /\ ~SclkFall /\ ~LastBit
  BY DEF SclkFall, SclkRise, SclkEdge, LastBit
<1>2. sclk' = 0 /\ clkCnt' = 0
  BY DEF Sck
<1>3. dataReg' = dataReg /\ (~Begins => Unmoved /\ chipBit' = chipBit)
  BY <1>1 DEF Datapath, Chip, Unmoved
<1>4. CASE state = "IDLE"
  BY <1>1, <1>2, <1>3, <1>4 DEF Fsm, Stay
<1>5. CASE state = "CONV_HIGH"
  BY <1>1, <1>2, <1>3, <1>5 DEF Fsm, Goto, Wait
<1>6. CASE state = "CONV_WAIT"
  BY <1>1, <1>2, <1>3, <1>6 DEF Fsm, Goto, Wait
<1>7. CASE state = "DONE"
  BY <1>1, <1>2, <1>3, <1>7 DEF Fsm, Goto
<1>. QED BY <1>4, <1>5, <1>6, <1>7

LEMMA EffectBegins ==
  ASSUME Fsm, Sck, Datapath, Chip, Begins, sclk = 0
  PROVE  /\ state' = "CONV_HIGH" /\ cnt' = ConvHighClks - 1 /\ bitCnt' = bitCnt
         /\ tx' = Command(channel) /\ sdi' = Command(channel)[1] /\ rx' = NoBits
         /\ conversion' = conversion + 1 /\ chipBit' = 1 /\ chipIn' = NoBits
BY DEF Fsm, Sck, Datapath, Chip, Goto, Begins, SclkFall, SclkRise, SclkEdge, LastBit

LEMMA EffectShift ==
  ASSUME Fsm, Sck, Datapath, Chip, state = "SHIFT", sclk \in {0, 1}
  PROVE  /\ dataReg' = dataReg /\ conversion' = conversion
         /\ ~SclkEdge => /\ Unmoved /\ clkCnt' = clkCnt + 1
                         /\ UNCHANGED <<state, cnt, bitCnt, sclk, chipBit>>
         /\ SclkFall => /\ clkCnt' = 0 /\ sclk' = 0 /\ UNCHANGED <<state, cnt, bitCnt, rx, chipIn>>
                        /\ tx' = Shifted(tx, Zero) /\ sdi' = NextSdi /\ chipBit' = chipBit + 1
         /\ SclkRise => /\ clkCnt' = 0 /\ sclk' = 1 /\ UNCHANGED <<tx, sdi, chipBit>>
                        /\ rx' = Shifted(rx, <<conversion, chipBit>>) /\ chipIn' = Shifted(chipIn, sdi)
         /\ SclkRise /\ ~LastBit => state' = "SHIFT" /\ cnt' = cnt /\ bitCnt' = bitCnt + 1
         /\ LastBit => state' = "ACQ_HOLD" /\ cnt' = AcqHoldClks - 1 /\ bitCnt' = bitCnt
BY DEF Fsm, Sck, Datapath, Chip, Goto, Stay, Begins, SclkFall, SclkRise, SclkEdge, LastBit, Unmoved, Zero

LEMMA EffectAcqHold ==
  ASSUME Fsm, Sck, Datapath, Chip, state = "ACQ_HOLD"
  PROVE  /\ sclk' = 0 /\ clkCnt' = 0 /\ dataReg' = rx /\ bitCnt' = bitCnt /\ Unmoved
         /\ chipBit' = IF sclk = 1 THEN chipBit + 1 ELSE chipBit
         /\ IF cnt = 0 THEN state' = "DONE" /\ cnt' = 0 ELSE state' = "ACQ_HOLD" /\ cnt' = cnt - 1
BY DEF Fsm, Sck, Datapath, Chip, Goto, Wait, Begins, SclkFall, SclkRise, SclkEdge, LastBit, Unmoved
-----------------------------------------------------------------------------
(* What a shift register may hold.                                          *)
Word == [1 .. Bits -> (Channel \cup (0 .. MaxConversions)) \X (0 .. Bits)]

(* What the transfer puts there is such a word.                             *)
LEMMA WordTyped ==
  /\ NoBits \in Word
  /\ \A n \in 0 .. MaxConversions : Sample(n) \in Word
  /\ \A n \in 0 .. MaxConversions : \A k \in 0 .. Bits : Received(k, n) \in Word
  /\ \A c \in Channel : Command(c) \in Word
  /\ \A c \in Channel : \A k \in 0 .. Bits : Heard(k, c) \in Word /\ ToSend(k, c) \in Word
<1>1. MaxConversions \in Nat /\ 0 \in Channel
  BY AdcAssumption
<1>2. NoBits \in Word /\ \A n \in 0 .. MaxConversions : Sample(n) \in Word
  BY <1>1 DEF NoBits, Sample, Word, Bits
<1>3. \A n \in 0 .. MaxConversions : \A k \in 0 .. Bits : Received(k, n) \in Word
  BY <1>1 DEF Received, Word, Bits, Zero
<1>4. ASSUME NEW c \in Channel
      PROVE  /\ Command(c) \in Word
             /\ \A k \in 0 .. Bits : Heard(k, c) \in Word /\ ToSend(k, c) \in Word
  <2>. DEFINE W == [1 .. Bits -> {0, c} \X (0 .. Bits)]
  <2>1. \A w \in W : w \in Word
    BY <1>1 DEF Word
  <2>2. /\ Command(c) \in W
        /\ \A k \in 0 .. Bits : Heard(k, c) \in W /\ ToSend(k, c) \in W
    BY CommandTyped, Zenon
  <2>. HIDE DEF W
  <2>. QED BY <2>1, <2>2
<1>. QED BY <1>2, <1>3, <1>4

(* A tick moves the exchange with the chip by a bit at most.                *)
LEMMA InTransferStep ==
  ASSUME IInv, NEW access \in Accesses, Tick(access)
  PROVE  InTransfer'
<1>. USE DEF IInv
<1>1. /\ Fsm /\ Sck /\ Datapath /\ Chip
      /\ command' = IF Begins THEN channel ELSE command
      /\ state \in States /\ sclk \in {0, 1} /\ bitCnt \in 0 .. Bits - 1
      /\ channel \in Channel /\ command \in Channel
  BY DEF Tick, History, TypeOK, Counted
<1>2. CASE Begins
  <2>1. state = "IDLE" /\ sclk = 0
    BY <1>2 DEF Begins, InTransfer
  <2>2. /\ state' = "CONV_HIGH" /\ sclk' = 0 /\ command' = channel
        /\ tx' = Command(channel) /\ sdi' = Command(channel)[1] /\ rx' = NoBits
        /\ chipBit' = 1 /\ chipIn' = NoBits
    BY <1>1, <1>2, <2>1, EffectBegins, EffectOutside
  <2>3. (Transfer(0, 0))'
    BY <1>1, <2>2, ReceivedBits, HeardBits, ToSendBits DEF Transfer
  <2>. QED BY <2>2, <2>3 DEF InTransfer
<1>3. CASE state \in {"IDLE", "CONV_HIGH", "CONV_WAIT", "DONE"} /\ ~Begins
  <2>1. sclk = 0
    BY <1>3 DEF InTransfer
  <2>2. /\ sclk' = 0 /\ dataReg' = dataReg /\ chipBit' = chipBit /\ command' = command
        /\ UNCHANGED <<tx, rx, sdi, conversion, chipIn>>
    BY <1>1, <1>3, <2>1, EffectOutside DEF Unmoved
  <2>3. CASE state \in {"IDLE", "DONE"}
    <3>1. state' = "IDLE"
      BY <1>1, <1>3, <2>1, <2>3, EffectOutside DEF Begins
    <3>. QED BY <2>2, <3>1 DEF InTransfer
  <2>4. CASE state \in {"CONV_HIGH", "CONV_WAIT"}
    <3>1. Transfer(0, 0)
      BY <2>4 DEF InTransfer
    <3>2. (Transfer(0, 0))'
      BY <2>2, <3>1 DEF Transfer
    <3>3. state' \in {"CONV_HIGH", "CONV_WAIT"} \/ (state' = "SHIFT" /\ bitCnt' = 0)
      BY <1>1, <1>3, <2>1, <2>4, EffectOutside
    <3>. QED BY <2>2, <3>2, <3>3 DEF InTransfer, Transfer
  <2>. QED BY <1>3, <2>3, <2>4
<1>4. CASE state = "SHIFT"
  <2>1. /\ sclk <= bitCnt /\ Transfer(bitCnt, bitCnt - sclk)
        /\ ~Begins /\ command' = command
        /\ dataReg' = dataReg /\ conversion' = conversion
    BY <1>1, <1>4, EffectShift DEF InTransfer, Begins
  <2>2. CASE ~SclkEdge
    <3>1. Unmoved /\ UNCHANGED <<state, cnt, bitCnt, sclk, chipBit>>
      BY <1>1, <1>4, <2>2, EffectShift
    <3>. QED BY <1>4, <2>1, <3>1 DEF InTransfer, Transfer, Unmoved
  <2>3. CASE SclkFall
    <3>1. /\ sclk = 1 /\ sclk' = 0 /\ UNCHANGED <<state, bitCnt, rx, chipIn>>
          /\ tx' = Shifted(tx, Zero) /\ sdi' = tx[2] /\ chipBit' = chipBit + 1
      BY <1>1, <1>4, <2>3, EffectShift DEF SclkFall, NextSdi
    <3>2. bitCnt - 1 \in 0 .. Bits - 2
      BY <1>1, <2>1, <3>1 DEF Bits
    <3>3. /\ tx' = ToSend((bitCnt - 1) + 1, command)
          /\ sdi' = Command(command)[(bitCnt - 1) + 2]
      BY <1>1, <2>1, <3>1, <3>2, ToSendBits DEF Transfer
    <3>4. /\ rx' = Received(bitCnt, conversion) /\ chipIn' = Heard(bitCnt, command)
          /\ tx' = ToSend(bitCnt, command) /\ sdi' = Command(command)[bitCnt + 1]
          /\ chipBit' = bitCnt + 1
      <4>1. (bitCnt - 1) + 1 = bitCnt /\ (bitCnt - 1) + 2 = bitCnt + 1
        BY <1>1 DEF Bits
      <4>. QED BY <2>1, <3>1, <3>3, <4>1 DEF Transfer
    <3>. QED BY <1>1, <1>4, <2>1, <3>1, <3>4 DEF InTransfer, Transfer, Bits
  <2>4. CASE SclkRise
    <3>1. /\ sclk = 0 /\ sclk' = 1 /\ UNCHANGED <<tx, sdi, chipBit>>
          /\ rx' = Shifted(rx, <<conversion, chipBit>>) /\ chipIn' = Shifted(chipIn, sdi)
      BY <1>1, <1>4, <2>4, EffectShift DEF SclkRise
    <3>2. /\ rx = Received(bitCnt, conversion) /\ chipIn = Heard(bitCnt, command)
          /\ tx = ToSend(bitCnt, command) /\ sdi = Command(command)[bitCnt + 1] /\ chipBit = bitCnt + 1
      BY <1>1, <2>1, <3>1 DEF Transfer, Bits
    <3>3. rx' = Received(bitCnt + 1, conversion) /\ chipIn' = Heard(bitCnt + 1, command)
      <4>1. Shifted(Received(bitCnt, conversion), <<conversion, bitCnt + 1>>) = Received(bitCnt + 1, conversion)
        BY <1>1, ReceivedBits
      <4>2. Shifted(Heard(bitCnt, command), Command(command)[bitCnt + 1]) = Heard(bitCnt + 1, command)
        BY <1>1, HeardBits
      <4>. QED BY <3>1, <3>2, <4>1, <4>2
    <3>4. CASE LastBit
      <4>1. bitCnt = Bits - 1 /\ state' = "ACQ_HOLD"
        BY <1>1, <1>4, <3>4, EffectShift DEF LastBit
      <4>2. rx' = Sample(conversion) /\ chipIn' = Command(command) /\ chipBit' = Bits
        <5>1. bitCnt + 1 = Bits
          BY <4>1 DEF Bits
        <5>. QED BY <1>1, <3>1, <3>2, <3>3, <5>1, ReceivedBits, HeardBits
      <4>. QED BY <2>1, <4>1, <4>2 DEF InTransfer
    <3>5. CASE ~LastBit
      <4>1. state' = "SHIFT" /\ bitCnt' = bitCnt + 1
        BY <1>1, <1>4, <2>4, <3>5, EffectShift
      <4>2. bitCnt' - sclk' = bitCnt /\ sclk' <= bitCnt'
        BY <1>1, <3>1, <4>1 DEF Bits
      <4>. QED BY <2>1, <3>1, <3>2, <3>3, <4>1, <4>2 DEF InTransfer, Transfer
    <3>. QED BY <3>4, <3>5
  <2>. QED BY <1>1, <2>2, <2>3, <2>4 DEF SclkFall, SclkRise
<1>5. CASE state = "ACQ_HOLD"
  <2>1. /\ sclk' = 0 /\ dataReg' = rx /\ Unmoved /\ command' = command
        /\ state' \in {"DONE", "ACQ_HOLD"}
    BY <1>1, <1>5, EffectAcqHold DEF Begins
  <2>. QED BY <1>5, <2>1 DEF InTransfer, Unmoved
<1>. QED BY <1>1, <1>2, <1>3, <1>4, <1>5 DEF States
(* What the registers of a conversion hold has the type of a word.          *)
LEMMA WordsStep ==
  ASSUME IInv, NEW access \in Accesses, Tick(access)
  PROVE  /\ tx' \in Word /\ rx' \in Word /\ chipIn' \in Word /\ dataReg' \in Word
         /\ chipBit' \in 0 .. Bits + 1
<1>. USE DEF IInv
<1>1. /\ Fsm /\ Sck /\ Datapath /\ Chip
      /\ command' = IF Begins THEN channel ELSE command
      /\ state \in States /\ sclk \in {0, 1} /\ bitCnt \in 0 .. Bits - 1
      /\ tx \in Word /\ rx \in Word /\ chipIn \in Word /\ dataReg \in Word
      /\ conversion \in 0 .. MaxConversions /\ chipBit \in 0 .. Bits + 1
      /\ channel \in Channel /\ command \in Channel
  BY DEF Tick, History, TypeOK, Counted, Word
<1>2. CASE Begins
  <2>1. state = "IDLE" /\ sclk = 0
    BY <1>2 DEF Begins, InTransfer
  <2>2. /\ tx' = Command(channel) /\ rx' = NoBits /\ chipBit' = 1 /\ chipIn' = NoBits
        /\ dataReg' = dataReg
    BY <1>1, <1>2, <2>1, EffectBegins, EffectOutside
  <2>. QED BY <1>1, <2>2, WordTyped DEF Bits
<1>3. CASE state \in {"IDLE", "CONV_HIGH", "CONV_WAIT", "DONE"} /\ ~Begins
  <2>1. sclk = 0
    BY <1>3 DEF InTransfer
  <2>. QED BY <1>1, <1>3, <2>1, EffectOutside DEF Unmoved
<1>4. CASE state = "SHIFT"
  <2>1. InTransfer'
    BY InTransferStep
  <2>2. dataReg' = dataReg /\ conversion' = conversion /\ command' = command
    BY <1>1, <1>4, EffectShift DEF Begins
  <2>3. CASE ~LastBit
    <3>1. state' = "SHIFT" /\ bitCnt' \in 0 .. Bits - 1 /\ sclk' \in {0, 1} /\ sclk' <= bitCnt'
      <4>1. CASE ~SclkEdge
        BY <1>1, <1>4, <4>1, EffectShift DEF InTransfer
      <4>2. CASE SclkFall
        BY <1>1, <1>4, <4>2, EffectShift DEF Bits
      <4>3. CASE SclkRise
        BY <1>1, <1>4, <2>3, <4>3, EffectShift DEF LastBit, Bits
      <4>. QED BY <1>1, <4>1, <4>2, <4>3 DEF SclkFall, SclkRise
    <3>2. \A k \in 0 .. Bits - 1, b \in {0, 1} :
            b <= k => k \in 0 .. Bits /\ k - b \in 0 .. Bits /\ (k - b) + 1 \in 0 .. Bits + 1
      BY DEF Bits
    <3>3. /\ rx' = Received(bitCnt', conversion) /\ chipIn' = Heard(bitCnt', command)
          /\ tx' = ToSend(bitCnt' - sclk', command) /\ chipBit' = (bitCnt' - sclk') + 1
      BY <2>1, <2>2, <3>1 DEF InTransfer, Transfer
    <3>4. bitCnt' \in 0 .. Bits /\ bitCnt' - sclk' \in 0 .. Bits /\ chipBit' \in 0 .. Bits + 1
      BY <3>1, <3>2, <3>3 DEF Bits
    <3>. QED BY <1>1, <2>2, <3>3, <3>4, WordTyped
  <2>4. CASE LastBit
    <3>1. state' = "ACQ_HOLD" /\ tx' = tx /\ chipBit' = chipBit
      BY <1>1, <1>4, <2>4, EffectShift DEF LastBit
    <3>2. rx' = Sample(conversion) /\ chipIn' = Command(command)
      BY <2>1, <2>2, <3>1 DEF InTransfer
    <3>. QED BY <1>1, <2>2, <3>1, <3>2, WordTyped
  <2>. QED BY <2>3, <2>4
<1>5. CASE state = "ACQ_HOLD"
  <2>1. /\ dataReg' = rx /\ Unmoved
        /\ chipBit' = IF sclk = 1 THEN chipBit + 1 ELSE chipBit
    BY <1>1, <1>5, EffectAcqHold
  <2>. QED BY <1>1, <1>5, <2>1 DEF Unmoved, InTransfer, Bits
<1>. QED BY <1>1, <1>2, <1>3, <1>4, <1>5 DEF States

(* The counters stay below the times of the states.                         *)
LEMMA CountersStep ==
  ASSUME IInv, NEW access \in Accesses, Tick(access)
  PROVE  /\ state' \in States
         /\ cnt' \in 0 .. ConvHighClks + ConvWaitClks + AcqHoldClks
         /\ bitCnt' \in 0 .. Bits - 1
         /\ clkCnt' \in 0 .. ClkDiv - 1 /\ sclk' \in {0, 1}
<1>. USE DEF IInv
<1>1. /\ Fsm /\ Sck /\ Datapath /\ Chip
      /\ state \in States /\ sclk \in {0, 1} /\ bitCnt \in 0 .. Bits - 1
      /\ cnt \in 0 .. ConvHighClks + ConvWaitClks + AcqHoldClks
      /\ clkCnt \in 0 .. ClkDiv - 1
      /\ state \notin {"SHIFT", "ACQ_HOLD"} => sclk = 0
  BY DEF Tick, TypeOK, InTransfer
<1>2. /\ ConvHighClks \in Nat \ {0} /\ ConvWaitClks \in Nat \ {0} /\ AcqHoldClks \in Nat \ {0}
      /\ ClkDiv \in Nat \ {0}
  BY AdcAssumption
<1>3. CASE Begins
  <2>1. state = "IDLE" /\ sclk = 0
    BY <1>1, <1>3 DEF Begins
  <2>. QED BY <1>1, <1>2, <1>3, <2>1, EffectBegins, EffectOutside DEF States
<1>4. CASE state \in {"IDLE", "CONV_HIGH", "CONV_WAIT", "DONE"} /\ ~Begins
  <2>1. sclk' = 0 /\ clkCnt' = 0
    BY <1>1, <1>4, EffectOutside
  <2>2. CASE state = "CONV_HIGH"
    BY <1>1, <1>2, <2>1, <2>2, EffectOutside DEF States
  <2>3. CASE state = "CONV_WAIT"
    BY <1>1, <1>2, <2>1, <2>3, EffectOutside DEF States, Bits
  <2>4. CASE state \in {"IDLE", "DONE"}
    BY <1>1, <1>2, <1>4, <2>1, <2>4, EffectOutside DEF States, Begins
  <2>. QED BY <1>4, <2>2, <2>3, <2>4
<1>5. CASE state = "SHIFT"
  <2>1. CASE ~SclkEdge
    BY <1>1, <1>2, <1>5, <2>1, EffectShift DEF SclkEdge
  <2>2. CASE SclkFall
    BY <1>1, <1>2, <1>5, <2>2, EffectShift
  <2>3. CASE SclkRise
    BY <1>1, <1>2, <1>5, <2>3, EffectShift DEF LastBit, Bits, States
  <2>. QED BY <1>1, <2>1, <2>2, <2>3 DEF SclkFall, SclkRise
<1>6. CASE state = "ACQ_HOLD"
  BY <1>1, <1>2, <1>6, EffectAcqHold DEF States
<1>. QED BY <1>1, <1>3, <1>4, <1>5, <1>6 DEF States
(* What a tick does to the conversions, as seen from outside: one begins,   *)
(* is under way, completes, or none is under way.                           *)
LEMMA ConversionStep ==
  ASSUME IInv, NEW access \in Accesses, Tick(access)
  PROVE  /\ conversion' = IF Begins THEN conversion + 1 ELSE conversion
         /\ Begins => state' = "CONV_HIGH" /\ dataReg' = dataReg
         /\ Completes => state' = "DONE" /\ dataReg' = Sample(conversion)
         /\ state \in Converting /\ ~Completes => state' \in Converting
         /\ state \in {"IDLE", "DONE"} /\ ~Begins => state' = "IDLE" /\ dataReg' = dataReg
         /\ state = "ACQ_HOLD" => dataReg' = Sample(conversion)
         /\ state # "ACQ_HOLD" => dataReg' = dataReg
<1>1. /\ Fsm /\ Sck /\ Datapath /\ Chip /\ state \in States /\ sclk \in {0, 1} /\ InTransfer
  BY DEF Tick, IInv, TypeOK
<1>2. conversion' = IF Begins THEN conversion + 1 ELSE conversion
  BY <1>1 DEF Chip
<1>3. ASSUME state \in {"IDLE", "CONV_HIGH", "CONV_WAIT", "DONE"}
      PROVE  sclk = 0 /\ dataReg' = dataReg
  BY <1>1, <1>3, EffectOutside DEF InTransfer
<1>4. CASE Begins
  <2>1. state = "IDLE"
    BY <1>4 DEF Begins
  <2>. QED BY <1>1, <1>2, <1>3, <1>4, <2>1, EffectBegins DEF Completes, Converting
<1>5. CASE state \in {"IDLE", "CONV_HIGH", "CONV_WAIT", "DONE"} /\ ~Begins
  BY <1>1, <1>2, <1>3, <1>5, EffectOutside DEF Begins, Completes, Converting
<1>6. CASE state = "SHIFT"
  <2>1. dataReg' = dataReg
    BY <1>1, <1>6, EffectShift
  <2>2. state' \in Converting
    <3>1. CASE ~SclkEdge
      BY <1>1, <1>6, <3>1, EffectShift DEF Converting
    <3>2. CASE SclkFall
      BY <1>1, <1>6, <3>2, EffectShift DEF Converting
    <3>3. CASE SclkRise
      BY <1>1, <1>6, <3>3, EffectShift DEF Converting
    <3>. QED BY <1>1, <3>1, <3>2, <3>3 DEF SclkFall, SclkRise
  <2>. QED BY <1>2, <1>6, <2>1, <2>2 DEF Completes, Begins
<1>7. CASE state = "ACQ_HOLD"
  BY <1>1, <1>2, <1>7, EffectAcqHold DEF Completes, Begins, Converting, InTransfer
<1>. QED BY <1>1, <1>4, <1>5, <1>6, <1>7 DEF States

(* Conversions come to DONE one after the other, and no clear gets ahead.   *)
LEMMA CompletedStep ==
  ASSUME IInv, NEW access \in Accesses, Tick(access)
  PROVE  /\ completed' = IF Completes THEN conversion ELSE completed
         /\ cleared' = IF Clears(access) THEN completed' ELSE cleared
<1>1. /\ completed' = IF state = "ACQ_HOLD" /\ state' = "DONE" THEN conversion ELSE completed
      /\ cleared' = IF Clears(access) THEN completed' ELSE cleared
  BY DEF Tick, History
<1>2. Completes => state = "ACQ_HOLD" /\ state' = "DONE"
  BY ConversionStep DEF Completes
<1>3. state = "ACQ_HOLD" /\ ~Completes => state' # "DONE"
  BY ConversionStep DEF Converting
<1>. QED BY <1>1, <1>2, <1>3

LEMMA CountedStep ==
  ASSUME IInv, NEW access \in Accesses, Tick(access)
  PROVE  Counted' /\ conversion' \in 0 .. MaxConversions
<1>1. /\ command' = IF Begins THEN channel ELSE command
      /\ Starts(access) => conversion < MaxConversions
      /\ startReq' = (Starts(access) \/ (startReq /\ state # "CONV_HIGH"))
  BY DEF Tick, History, Bus, StartRequest
<1>2. /\ Counted /\ channel \in Channel /\ state \in States
      /\ conversion \in 0 .. MaxConversions /\ MaxConversions \in Nat
  BY AdcAssumption DEF IInv, TypeOK
<1>3. conversion' = IF Begins THEN conversion + 1 ELSE conversion
  BY ConversionStep
<1>4. conversion' \in 0 .. MaxConversions
  BY <1>2, <1>3 DEF Begins, Counted
<1>5. command' \in Channel
  BY <1>1, <1>2 DEF Counted
<1>6. startReq' /\ state' # "CONV_HIGH" => conversion' < MaxConversions
  <2>1. Begins => state' = "CONV_HIGH"
    BY ConversionStep
  <2>. QED BY <1>1, <1>2, <1>3, <2>1 DEF Counted
<1>7. completed' \in 0 .. conversion' /\ cleared' \in 0 .. completed'
  <2>1. completed' \in 0 .. conversion /\ completed' >= completed
    BY <1>2, CompletedStep DEF Counted
  <2>2. cleared' \in 0 .. completed'
    BY <1>2, <2>1, CompletedStep DEF Counted
  <2>. QED BY <1>2, <1>3, <2>1, <2>2
<1>8. state' \in Converting => completed' < conversion'
  <2>1. CASE Begins
    <3>1. ~Completes
      BY <2>1 DEF Begins, Completes
    <3>. QED BY <1>2, <1>3, <2>1, <3>1, CompletedStep DEF Counted
  <2>2. CASE ~Begins
    <3>1. state' \in Converting => state \in Converting /\ ~Completes
      BY <1>2, <2>2, ConversionStep DEF States, Converting
    <3>. QED BY <1>2, <1>3, <2>2, <3>1, CompletedStep DEF Counted
  <2>. QED BY <2>1, <2>2
<1>9. state' # "IDLE" => conversion' >= 1
  <2>1. CASE Begins
    BY <1>2, <1>3, <2>1
  <2>2. CASE ~Begins
    <3>1. state' # "IDLE" => state # "IDLE"
      BY <1>2, <2>2, ConversionStep DEF States, Converting
    <3>. QED BY <1>2, <1>3, <2>2, <3>1 DEF Counted
  <2>. QED BY <2>1, <2>2
<1>. QED BY <1>4, <1>5, <1>6, <1>7, <1>8, <1>9 DEF Counted

(* How ACQ_HOLD is entered and passed.                                      *)
LEMMA HoldStep ==
  ASSUME IInv, NEW access \in Accesses, Tick(access)
  PROVE  IF state = "ACQ_HOLD"
         THEN ~Completes => state' = "ACQ_HOLD" /\ cnt' = cnt - 1
         ELSE state' = "ACQ_HOLD" => state = "SHIFT" /\ cnt' = AcqHoldClks - 1
<1>1. /\ Fsm /\ Sck /\ Datapath /\ Chip /\ state \in States /\ sclk \in {0, 1} /\ InTransfer
  BY DEF Tick, IInv, TypeOK
<1>2. CASE state = "ACQ_HOLD"
  BY <1>1, <1>2, EffectAcqHold DEF Completes
<1>3. CASE state = "SHIFT"
  BY <1>1, <1>3, EffectShift DEF SclkFall, SclkRise
<1>4. CASE state \in {"IDLE", "CONV_HIGH", "CONV_WAIT", "DONE"}
  <2>1. sclk = 0
    BY <1>4 DEF InTransfer, IInv
  <2>2. state \in {"IDLE", "DONE"} => state' # "ACQ_HOLD"
    BY ConversionStep
  <2>. QED BY <1>1, <1>4, <2>1, <2>2, EffectOutside
<1>. QED BY <1>1, <1>2, <1>3, <1>4 DEF States

LEMMA HandoverStep ==
  ASSUME IInv, NEW access \in Accesses, Tick(access)
  PROVE  Handover'
<1>1. clearReq' = Clears(access)
  BY DEF Tick, Bus, ClearRequest
<1>2. /\ Handover /\ AcqHoldClks \in Nat \ {0} /\ cnt \in Nat
      /\ cnt \in 0 .. ConvHighClks + ConvWaitClks + AcqHoldClks
  BY AdcAssumption DEF IInv, TypeOK
<1>3. CASE state = "ACQ_HOLD"
  <2>1. dataReg' = Sample(conversion) /\ conversion' = conversion
    BY <1>3, ConversionStep DEF Begins
  <2>2. state' = "ACQ_HOLD" => cnt' = cnt - 1
    BY <1>3, HoldStep, ConversionStep
  <2>. QED BY <1>1, <1>2, <1>3, <2>1, <2>2, CompletedStep DEF Handover
<1>4. CASE state # "ACQ_HOLD"
  <2>1. state' = "ACQ_HOLD" => cnt' = AcqHoldClks - 1
    BY <1>4, HoldStep
  <2>. QED BY <1>1, <1>2, <2>1, CompletedStep DEF Handover
<1>. QED BY <1>3, <1>4

(* READY and the clears: in the cycle in which a clear is pending it has no *)
(* effect on a conversion that completes, and after it READY is of one that *)
(* the clear did not see.                                                   *)
LEMMA FreshStep ==
  ASSUME IInv, NEW access \in Accesses, Tick(access)
  PROVE  ReadyIsFresh' /\ ClearSparesCompletion'
<1>1. /\ ready' = (Completes \/ (ready /\ ~clearReq))
      /\ clearReq' = Clears(access)
  BY DEF Tick, Fsm, NextReady, Bus, ClearRequest
<1>2. /\ ReadyIsFresh /\ ClearSparesCompletion /\ Counted /\ Handover
      /\ conversion \in Nat /\ completed \in Nat /\ cleared \in Nat
      /\ cnt \in Int /\ AcqHoldClks \in Nat \ {0}
  BY AdcAssumption DEF IInv, TypeOK, Counted
<1>3. CASE Completes
  <2>1. /\ state = "ACQ_HOLD" /\ state' = "DONE" /\ dataReg' = Sample(conversion)
        /\ completed' = conversion /\ conversion > completed /\ ready'
    BY <1>1, <1>2, <1>3, ConversionStep, CompletedStep DEF Completes, Counted, Converting
  <2>2. TakenIn' = conversion
    BY <2>1 DEF TakenIn
  <2>3. clearReq' \/ completed' > cleared'
    BY <1>1, <1>2, <2>1, CompletedStep DEF Counted
  <2>. QED BY <1>2, <2>1, <2>2, <2>3 DEF ReadyIsFresh, ClearSparesCompletion
<1>4. CASE ~Completes
  <2>1. completed' = completed /\ cleared' = (IF clearReq' THEN completed ELSE cleared)
    BY <1>1, <1>4, CompletedStep
  <2>2. ASSUME ready' PROVE completed' >= 1 /\ (clearReq' \/ completed' > cleared')
    BY <1>1, <1>2, <1>4, <2>1, <2>2 DEF ReadyIsFresh
  <2>3. ASSUME ready' PROVE dataReg' = Sample(TakenIn)'
    <3>1. ready /\ dataReg = Sample(TakenIn)
      BY <1>1, <1>2, <1>4, <2>3 DEF ReadyIsFresh
    <3>2. CASE state = "ACQ_HOLD"
      <4>1. /\ dataReg' = Sample(conversion) /\ conversion' = conversion
            /\ state' = "ACQ_HOLD" /\ cnt' = cnt - 1 /\ cnt < AcqHoldClks
        BY <1>2, <1>4, <3>2, ConversionStep, HoldStep DEF Begins, Handover
      <4>2. TakenIn' = conversion
        BY <1>2, <4>1 DEF TakenIn
      <4>. QED BY <4>1, <4>2
    <3>3. CASE state # "ACQ_HOLD"
      <4>1. dataReg' = dataReg /\ TakenIn = completed
        BY <3>3, ConversionStep DEF TakenIn
      <4>2. TakenIn' = completed
        BY <1>2, <2>1, <3>3, HoldStep DEF TakenIn
      <4>. QED BY <3>1, <4>1, <4>2
    <3>. QED BY <3>2, <3>3
  <2>4. ASSUME completed' > cleared' PROVE ready'
    <3>1. ~clearReq' /\ cleared' = cleared /\ completed > cleared
      BY <1>2, <2>1, <2>4
    <3>2. ready /\ ~clearReq
      BY <1>2, <3>1 DEF ClearSparesCompletion, Handover
    <3>. QED BY <1>1, <3>2, Zenon
  <2>. QED BY <2>2, <2>3, <2>4 DEF ReadyIsFresh, ClearSparesCompletion
<1>. QED BY <1>3, <1>4
(* The registers of the bus and the program's sample.                       *)
LEMMA BusStep ==
  ASSUME IInv, NEW access \in Accesses, Tick(access)
  PROVE  /\ channel' \in Channel /\ startReq' \in BOOLEAN /\ clearReq' \in BOOLEAN
         /\ ready' \in BOOLEAN /\ got' \in Word
<1>1. channel \in Channel /\ got \in Word /\ dataReg \in Word
  BY DEF IInv, TypeOK, Word
<1>2. channel' \in Channel
  <2>1. access.reg = "CHANNEL" => access.channel \in Channel
    BY DEF Accesses, NoAccess, Ctrl, Select, Status, Data
  <2>. QED BY <1>1, <2>1 DEF Tick, Bus
<1>3. startReq' \in BOOLEAN /\ clearReq' \in BOOLEAN /\ ready' \in BOOLEAN
  BY DEF Tick, Bus, Fsm, NextReady, StartRequest, ClearRequest, Starts, Clears
<1>4. got' \in Word
  BY <1>1 DEF Tick, Client, ReadADC, client
<1>. QED BY <1>2, <1>3, <1>4

(* A tick keeps the invariant.                                              *)
LEMMA TickStep ==
  ASSUME IInv, NEW access \in Accesses, Tick(access)
  PROVE  IInv'
<1>1. TypeOK'
  BY WordsStep, CountersStep, CountedStep, BusStep DEF TypeOK, Word
<1>. QED BY <1>1, InTransferStep, CountedStep, HandoverStep, FreshStep DEF IInv

(* So does a reset: it forgets what is under way, but not what the chip and *)
(* the history know.                                                        *)
LEMMA ResetStep ==
  ASSUME IInv, Reset
  PROVE  IInv'
<1>1. /\ ClkDiv \in Nat \ {0} /\ 0 \in Channel
      /\ ConvHighClks \in Nat /\ ConvWaitClks \in Nat /\ AcqHoldClks \in Nat
  BY AdcAssumption
<1>2. TypeOK'
  <2>1. /\ state' = "IDLE" /\ cnt' = 0 /\ bitCnt' = 0
        /\ channel' = 0 /\ startReq' = FALSE /\ clearReq' = FALSE /\ ready' = FALSE
        /\ clkCnt' = 0 /\ sclk' = 0
        /\ dataReg' = NoBits /\ tx' = NoBits /\ rx' = NoBits /\ got' = NoBits
        /\ conversion' = conversion /\ chipBit' = chipBit /\ chipIn' = chipIn
    BY DEF Reset, chip
  <2>2. /\ conversion \in 0 .. MaxConversions /\ chipBit \in 0 .. Bits + 1 /\ chipIn \in Word
    BY DEF IInv, TypeOK, Word
  <2>3. dataReg' \in Word /\ tx' \in Word /\ rx' \in Word /\ chipIn' \in Word /\ got' \in Word
    BY <2>1, <2>2, WordTyped
  <2>4. /\ cnt' \in 0 .. ConvHighClks + ConvWaitClks + AcqHoldClks
        /\ bitCnt' \in 0 .. Bits - 1 /\ clkCnt' \in 0 .. ClkDiv - 1
    BY <1>1, <2>1 DEF Bits
  <2>. QED BY <1>1, <2>1, <2>2, <2>3, <2>4 DEF TypeOK, Word, States
<1>3. InTransfer' /\ ReadyIsFresh'
  BY DEF Reset, InTransfer, ReadyIsFresh
<1>4. Counted' /\ Handover' /\ ClearSparesCompletion'
  BY DEF Reset, chip, IInv, Counted, Handover, ClearSparesCompletion, Converting
<1>. QED BY <1>2, <1>3, <1>4 DEF IInv

LEMMA InitInv == Init => IInv
<1>. SUFFICES ASSUME Init PROVE IInv
  OBVIOUS
<1>1. /\ ClkDiv \in Nat \ {0} /\ 0 \in Channel /\ MaxConversions \in Nat \ {0}
      /\ ConvHighClks \in Nat /\ ConvWaitClks \in Nat /\ AcqHoldClks \in Nat
  BY AdcAssumption
<1>2. TypeOK
  <2>1. /\ cnt \in 0 .. ConvHighClks + ConvWaitClks + AcqHoldClks
        /\ bitCnt \in 0 .. Bits - 1 /\ clkCnt \in 0 .. ClkDiv - 1
        /\ conversion \in 0 .. MaxConversions /\ chipBit \in 0 .. Bits + 1
    BY <1>1 DEF Init, Bits
  <2>2. dataReg \in Word /\ tx \in Word /\ rx \in Word /\ chipIn \in Word /\ got \in Word
    BY WordTyped DEF Init
  <2>. QED BY <1>1, <2>1, <2>2 DEF Init, TypeOK, Word, States
<1>. QED BY <1>1, <1>2 DEF Init, IInv, InTransfer, Counted, Handover, ReadyIsFresh,
                              ClearSparesCompletion, Converting

LEMMA StepInv == IInv /\ [Next]_vars => IInv'
<1>1. IInv /\ Next => IInv'
  BY TickStep, ResetStep DEF Next
<1>2. IInv /\ UNCHANGED vars => IInv'
  BY DEF IInv, TypeOK, InTransfer, Transfer, Counted, Handover, ReadyIsFresh, TakenIn, ClearSparesCompletion,
         vars, regs, chip, client, history
<1>. QED BY <1>1, <1>2

LEMMA Invariance == Spec => []IInv
<1>. QED BY InitInv, StepInv, PTL DEF Spec

-----------------------------------------------------------------------------
(* The registers, the counters and the chip stay within their types: the    *)
(* shift takes in and sends out as many bits as there are, with counters    *)
(* that are reused from one state to the next and from one conversion to    *)
(* another, whatever the times the generics give the states.                *)
THEOREM TypeCorrect == Spec => []TypeOK
<1>. QED BY Invariance, PTL DEF IInv

(* The chip has got the command for the channel selected when the           *)
(* conversion began, complete and in order.                                 *)
THEOREM CommandArrives == Spec => []CommandIntact
<1>1. IInv => CommandIntact
  BY DEF IInv, InTransfer, CommandIntact
<1>. QED BY <1>1, Invariance, PTL

(* While READY is set the data register holds the whole sample that was     *)
(* taken in last, and but for the cycle in which a clear is pending, READY  *)
(* is of a conversion that completed after the last clear was written.      *)
THEOREM ReadyMeansFresh == Spec => []ReadyIsFresh
<1>. QED BY Invariance, PTL DEF IInv

(* A conversion that completes after CLEAR_READY was written is READY until *)
(* the next clear, even if it completes while that clear is pending.        *)
THEOREM ClearsAreExact == Spec => []ClearSparesCompletion
<1>. QED BY Invariance, PTL DEF IInv

-----------------------------------------------------------------------------
(* The two properties that say what a program gets.                         *)

(* While a START is accepted none other is recorded.                        *)
LEMMA AcceptingStep ==
  ASSUME ConvHighClks = 1, IInv, Accepting, StartsServedOnce, NEW access \in Accesses, Tick(access)
  PROVE  Accepting' /\ StartsServedOnce'
<1>1. /\ startReq' = (Starts(access) \/ (startReq /\ state # "CONV_HIGH"))
      /\ asked' = (~Begins /\ (asked \/ Starts(access)))
      /\ Fsm /\ Sck /\ Datapath /\ Chip
  BY DEF Tick, Bus, StartRequest, History
<1>2. /\ state \in States /\ startReq \in BOOLEAN /\ asked \in BOOLEAN
      /\ (state # "CONV_HIGH" => (startReq <=> asked))
      /\ (state = "CONV_HIGH" => ~asked /\ cnt = 0)
      /\ (state \in {"IDLE", "CONV_HIGH", "CONV_WAIT", "DONE"} => sclk = 0)
  BY DEF IInv, TypeOK, InTransfer, Accepting, StartsServedOnce
<1>3. asked' \in BOOLEAN /\ Starts(access) \in BOOLEAN
  BY <1>1 DEF Starts
<1>4. CASE Begins
  <2>1. sclk = 0
    BY <1>2, <1>4 DEF Begins
  <2>2. state' = "CONV_HIGH" /\ cnt' = 0
    BY <1>1, <1>4, <2>1, EffectBegins
  <2>3. ~asked'
    BY <1>1, <1>4
  <2>. QED BY <1>3, <2>2, <2>3 DEF Accepting, StartsServedOnce
<1>5. CASE state = "CONV_HIGH"
  <2>1. state' = "CONV_WAIT"
    BY <1>1, <1>2, <1>5, EffectOutside
  <2>. QED BY <1>1, <1>2, <1>3, <1>5, <2>1 DEF Accepting, StartsServedOnce, Begins
<1>6. CASE state # "CONV_HIGH" /\ ~Begins
  <2>1. state' # "CONV_HIGH"
    <3>1. CASE state \in {"IDLE", "DONE"}
      BY <1>6, <3>1, ConversionStep
    <3>2. CASE state = "CONV_WAIT"
      BY <1>1, <1>2, <3>2, EffectOutside
    <3>3. CASE state = "SHIFT"
      BY <1>1, <3>3, EffectShift DEF SclkFall, SclkRise, IInv, TypeOK
    <3>4. CASE state = "ACQ_HOLD"
      BY <1>1, <3>4, EffectAcqHold
    <3>. QED BY <1>2, <1>6, <3>1, <3>2, <3>3, <3>4 DEF States
  <2>. QED BY <1>1, <1>2, <1>3, <1>6, <2>1 DEF Accepting, StartsServedOnce
<1>. QED BY <1>4, <1>5, <1>6 DEF Begins

(* When CONVST is high for one cycle (the value CONV_HIGH_CLKS has), a      *)
(* START is pending, but for that cycle, just when one has been written     *)
(* since the last conversion began: none is lost, none served twice.  A     *)
(* longer pulse would lose the STARTs that are written during it.           *)
THEOREM EveryStartIsServed ==
  ASSUME ConvHighClks = 1
  PROVE  Spec => []StartsServedOnce
<1>. DEFINE I == Accepting /\ StartsServedOnce
<1>1. Init => I
  BY DEF Init, Accepting, StartsServedOnce
<1>2. IInv /\ I /\ [Next]_vars => I'
  <2>1. ASSUME IInv, I, Reset PROVE I'
    BY <2>1 DEF Reset, Accepting, StartsServedOnce
  <2>2. IInv /\ I /\ UNCHANGED vars => I'
    BY DEF Accepting, StartsServedOnce, vars, regs, history
  <2>3. IInv /\ I /\ (\E access \in Accesses : Tick(access)) => I'
    BY AcceptingStep
  <2>. HIDE DEF I
  <2>. QED BY <2>1, <2>2, <2>3 DEF Next
<1>3. I => StartsServedOnce
  OBVIOUS
<1>. HIDE DEF I
<1>. QED BY <1>1, <1>2, <1>3, Invariance, PTL DEF Spec
(* A tick moves the conversion that gameDemo's ReadADC waits for along:     *)
(* from requested to under way to complete, never from one to another.      *)
LEMMA WaitingStep ==
  ASSUME IInv, Waiting, NEW access \in Accesses, Tick(access)
  PROVE  Waiting'
<1>1. /\ startReq' = (Starts(access) \/ (startReq /\ state # "CONV_HIGH"))
      /\ clearReq' = Clears(access)
      /\ ready' = (Completes \/ (ready /\ ~clearReq))
      /\ Client(access)
  BY DEF Tick, Bus, StartRequest, ClearRequest, Fsm, NextReady
<1>2. /\ state \in States /\ startReq \in BOOLEAN /\ ready \in BOOLEAN /\ clearReq \in BOOLEAN
      /\ conversion \in Nat
  BY DEF IInv, TypeOK
<1>3. program' = program /\ program \in {"gameDemo", "any"}
  BY <1>1 DEF Client, ReadADC, client, Waiting
<1>4. CASE program = "any"
  BY <1>1, <1>3, <1>4 DEF Client, ReadADC, client, Waiting
<1>5. CASE program = "gameDemo"
  <2>1. /\ pc \in {"channel", "clear", "start", "poll", "data"}
        /\ pc \in {"channel", "clear", "start"} =>
             state = "IDLE" /\ ~startReq /\ (got = NoBits \/ got = Sample(owed))
        /\ pc = "start" => clearReq \/ ~ready
        /\ pc = "poll" => ~clearReq /\ (Requested \/ UnderWay \/ (Complete /\ ready))
        /\ pc = "data" => Complete /\ state = "IDLE"
    BY <1>5 DEF Waiting
  <2>2. ASSUME state = "IDLE", ~startReq
        PROVE  /\ state' = "IDLE" /\ dataReg' = dataReg /\ conversion' = conversion
               /\ ready' = (ready /\ ~clearReq)
    BY <1>1, <2>2, ConversionStep DEF Begins, Completes
  (* The exchange while the program waits.                                  *)
  <2>3. ASSUME pc = "poll", access \in {NoAccess, Status}, owed' = owed
        PROVE  ~clearReq' /\ (Requested \/ UnderWay \/ (Complete /\ ready))'
    <3>1. ~clearReq' /\ startReq' = (startReq /\ state # "CONV_HIGH")
        <4>1. ~Clears(access) /\ ~Starts(access)
        BY <2>3 DEF Clears, Starts, NoAccess, Status
      <4>. QED BY <1>1, <1>2, <4>1
    <3>2. CASE Requested
      BY <1>1, <1>2, <2>1, <2>3, <3>1, <3>2, ConversionStep
         DEF Requested, UnderWay, Begins, Completes, Converting
    <3>3. CASE UnderWay
      <4>1. conversion' = conversion /\ ~Begins
        BY <3>3, ConversionStep DEF UnderWay, Converting, Begins
      <4>2. CASE Completes
        <5>1. state' = "DONE" /\ dataReg' = Sample(conversion) /\ ready'
          BY <1>1, <4>2, ConversionStep
        <5>2. ~startReq'
          BY <3>1, <3>3, <4>2 DEF UnderWay, Completes
        <5>. QED BY <2>3, <3>1, <3>3, <4>1, <5>1, <5>2 DEF UnderWay, Complete
      <4>3. CASE ~Completes
        <5>1. state' \in Converting /\ ~ready'
          BY <1>1, <3>3, <4>3, ConversionStep DEF UnderWay
        <5>2. startReq' => state' = "CONV_HIGH"
          BY <3>1, <3>3 DEF UnderWay
        <5>. QED BY <2>3, <3>1, <3>3, <4>1, <5>1, <5>2 DEF UnderWay
      <4>. QED BY <4>2, <4>3
    <3>4. CASE Complete /\ ready
      <4>1. state' = "IDLE" /\ dataReg' = dataReg /\ conversion' = conversion /\ ~startReq'
        BY <3>1, <3>4, ConversionStep DEF Complete, Begins
      <4>2. ready'
        BY <1>1, <2>1, <2>3, <3>4
      <4>. QED BY <2>3, <3>1, <3>4, <4>1, <4>2 DEF Complete
    <3>. QED BY <2>1, <2>3, <3>2, <3>3, <3>4
  (* The program rests.                                                     *)
  <2>4. CASE access = NoAccess /\ UNCHANGED client
    <3>1. UNCHANGED <<pc, owed, got>> /\ ~Clears(access) /\ ~Starts(access)
      BY <2>4 DEF client, Clears, Starts, NoAccess
    <3>2. CASE pc \in {"channel", "clear", "start"}
      BY <1>1, <1>3, <1>5, <2>1, <2>2, <3>1, <3>2 DEF Waiting
    <3>3. CASE pc = "poll"
      BY <1>3, <1>5, <2>3, <2>4, <3>1, <3>3 DEF Waiting
    <3>4. CASE pc = "data"
      BY <1>1, <1>3, <1>5, <2>1, <2>2, <3>1, <3>4 DEF Waiting, Complete
    <3>. QED BY <2>1, <3>2, <3>3, <3>4
  (* The program's accesses.                                                *)
  <2>5. CASE ReadADC(access)
    <3>1. CASE pc = "channel"
      <4>1. /\ pc' = "clear" /\ UNCHANGED <<owed, got>> /\ ~Starts(access)
        BY <1>5, <2>5, <3>1 DEF ReadADC, Starts, Select
      <4>. QED BY <1>1, <1>3, <1>5, <2>1, <2>2, <3>1, <4>1 DEF Waiting
    <3>2. CASE pc = "clear"
      <4>1. /\ pc' = "start" /\ UNCHANGED <<owed, got>> /\ ~Starts(access) /\ Clears(access)
        BY <1>5, <2>5, <3>2 DEF ReadADC, Starts, Clears, Ctrl
      <4>. QED BY <1>1, <1>3, <1>5, <2>1, <2>2, <3>2, <4>1 DEF Waiting
    <3>3. CASE pc = "start"
      <4>1. /\ pc' = "poll" /\ owed' = conversion + 1 /\ Starts(access) /\ ~Clears(access)
        BY <1>5, <2>5, <3>3 DEF ReadADC, Starts, Clears, Ctrl
      <4>2. Requested'
        BY <1>1, <2>1, <2>2, <3>3, <4>1 DEF Requested
      <4>. QED BY <1>1, <1>3, <1>5, <4>1, <4>2 DEF Waiting
    <3>4. CASE pc = "poll"
      <4>1. /\ access = Status /\ UNCHANGED <<owed, got>>
            /\ pc' = IF ready THEN "data" ELSE "poll"
        BY <2>5, <3>4 DEF ReadADC
      <4>2. ~clearReq' /\ (Requested \/ UnderWay \/ (Complete /\ ready))'
        BY <2>3, <3>4, <4>1
      <4>3. CASE ready
        <5>1. Complete
          BY <2>1, <3>4, <4>3 DEF Requested, UnderWay
        <5>2. state' = "IDLE" /\ dataReg' = dataReg /\ conversion' = conversion
          BY <5>1, ConversionStep DEF Complete, Begins
        <5>3. ~startReq'
          BY <1>1, <4>1, <5>1 DEF Complete, Starts, Status
        <5>. QED BY <1>3, <1>5, <4>1, <4>3, <5>1, <5>2, <5>3 DEF Waiting, Complete
      <4>4. CASE ~ready
        BY <1>3, <1>5, <4>1, <4>2, <4>4 DEF Waiting
      <4>. QED BY <4>3, <4>4
    <3>5. CASE pc = "data"
      <4>1. pc' = "channel" /\ got' = dataReg /\ owed' = owed /\ ~Starts(access)
        BY <2>5, <3>5 DEF ReadADC, Starts, Data
      <4>2. state = "IDLE" /\ ~startReq /\ dataReg = Sample(owed)
        BY <2>1, <3>5 DEF Complete
      <4>. QED BY <1>1, <1>3, <1>5, <2>2, <4>1, <4>2 DEF Waiting
    <3>. QED BY <2>1, <3>1, <3>2, <3>3, <3>4, <3>5
  <2>. QED BY <1>1, <1>5, <2>4, <2>5 DEF Client
<1>. QED BY <1>3, <1>4, <1>5

(* gameDemo's ReadADC, which clears READY before it starts a conversion,    *)
(* returns the sample of that conversion, however long it pauses between    *)
(* two accesses and whenever the processor is reset.                        *)
THEOREM OwnSampleIsReturned ==
  ASSUME "game" \notin Programs
  PROVE  Spec => []ReturnsOwnSample
<1>1. Init => Waiting
  BY AdcAssumption DEF Init, Waiting, ProgramNames
<1>2. IInv /\ Waiting /\ [Next]_vars => Waiting'
  <2>1. IInv /\ Waiting /\ (\E access \in Accesses : Tick(access)) => Waiting'
    BY WaitingStep
  <2>2. Waiting /\ Reset => Waiting'
    BY DEF Reset, Waiting
  <2>3. Waiting /\ UNCHANGED vars => Waiting'
    BY DEF Waiting, Requested, UnderWay, Complete, vars, regs, chip, client
  <2>. QED BY <2>1, <2>2, <2>3 DEF Next
<1>3. Waiting => ReturnsOwnSample
  BY DEF Waiting, ReturnsOwnSample
<1>. QED BY <1>1, <1>2, <1>3, Invariance, PTL DEF Spec
====
