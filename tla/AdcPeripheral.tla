----------------------------- MODULE AdcPeripheral -----------------------------
(***************************************************************************)
(* The ADC peripheral of the SCOMP processor (ADC_Peripheral.vhd) between  *)
(* a program that uses its registers and the LTC2308 converter chip.  A    *)
(* step is one rising edge of the clock: every process of the peripheral   *)
(* reads the old values, and the program makes one access at most, with as *)
(* many cycles between two accesses as it likes.                           *)
(*                                                                         *)
(* Bits have names: <<n, i>> is bit i of the sample that conversion n      *)
(* takes, <<c, i>> bit i of the command that selects channel c.  The three *)
(* counters of cycles, used in different states, are one; CONVST is high   *)
(* in CONV_HIGH only, and BUSY, which no program reads, outside IDLE only. *)
(***************************************************************************)
EXTENDS Naturals, Sequences

CONSTANTS
  ClkDiv, ConvHighClks, ConvWaitClks, AcqHoldClks,  \* the generics
  Channel,        \* the channels that programs select
  Programs,       \* the programs to run, among those of ProgramNames
  MaxConversions  \* bound: conversions in a behaviour

(* The ReadADC subroutine of gameDemo.asm, that of game.asm, and a program  *)
(* that makes any access at any time.                                       *)
ProgramNames == {"gameDemo", "game", "any"}

ASSUME AdcAssumption ==
  /\ {ClkDiv, ConvHighClks, ConvWaitClks, AcqHoldClks, MaxConversions} \subseteq Nat \ {0}
  /\ 0 \in Channel
  /\ Programs \subseteq ProgramNames

Bits == 12
CommandBits == 6

NoBits == [i \in 1 .. Bits |-> <<0, 0>>]
Sample(n) == [i \in 1 .. Bits |-> <<n, i>>]

(* din6 & "000000"                                                          *)
Command(c) == [i \in 1 .. Bits |-> IF i <= CommandBits THEN <<c, i>> ELSE <<0, 0>>]

Shifted(register, bit) == Append(Tail(register), bit)

VARIABLES
  state, cnt, bitCnt,           \* the state machine and its counters
  channel, startReq, clearReq,  \* what the bus asked for
  ready, dataReg,               \* what the bus may read
  clkCnt, sclk,                 \* the serial clock
  tx, rx, sdi,                  \* the shift registers
  conversion, chipBit, chipIn,  \* the chip: its conversions, the bit on SDO, its input
  program, pc, owed, got,       \* the program; the conversion it waits for; its sample
  asked, completed, cleared, command  \* history: see History

regs == <<state, cnt, bitCnt, channel, startReq, clearReq, ready, dataReg, clkCnt, sclk, tx, rx, sdi>>
chip == <<conversion, chipBit, chipIn>>
client == <<program, pc, owed, got>>
history == <<asked, completed, cleared, command>>
vars == <<regs, chip, client, history>>

States == {"IDLE", "CONV_HIGH", "CONV_WAIT", "SHIFT", "ACQ_HOLD", "DONE"}

TypeOK ==
  LET bits == [1 .. Bits -> (Channel \cup (0 .. MaxConversions)) \X (0 .. Bits)]
  IN /\ state \in States
     /\ cnt \in 0 .. ConvHighClks + ConvWaitClks + AcqHoldClks
     /\ bitCnt \in 0 .. Bits - 1
     /\ channel \in Channel /\ startReq \in BOOLEAN /\ clearReq \in BOOLEAN /\ ready \in BOOLEAN
     /\ clkCnt \in 0 .. ClkDiv - 1 /\ sclk \in {0, 1}
     /\ {dataReg, tx, rx, chipIn, got} \subseteq bits
     /\ conversion \in 0 .. MaxConversions /\ chipBit \in 0 .. Bits + 1

Init == /\ state = "IDLE" /\ cnt = 0 /\ bitCnt = 0
        /\ channel = 0 /\ startReq = FALSE /\ clearReq = FALSE
        /\ ready = FALSE /\ dataReg = NoBits
        /\ clkCnt = 0 /\ sclk = 0
        /\ tx = NoBits /\ rx = NoBits /\ sdi = <<0, 0>>
        /\ conversion = 0 /\ chipBit = 0 /\ chipIn = NoBits
        /\ program \in Programs /\ pc = "channel" /\ owed = 0 /\ got = NoBits
        /\ asked = FALSE /\ completed = 0 /\ cleared = 0 /\ command = 0

-----------------------------------------------------------------------------
(* The accesses of a program, by the register they name.                    *)

NoAccess == [reg |-> "none"]
Ctrl(start, clear) == [reg |-> "CTRL", start |-> start, clear |-> clear]
Select(c) == [reg |-> "CHANNEL", channel |-> c]
Status == [reg |-> "STATUS"]
Data == [reg |-> "DATA"]

Starts(access) == access.reg = "CTRL" /\ access.start
Clears(access) == access.reg = "CTRL" /\ access.clear

Accesses == {NoAccess, Status, Data} \cup {Select(c) : c \in Channel}
              \cup {Ctrl(start, clear) : start, clear \in BOOLEAN}

(* ReadADC: select, perhaps clear READY, start, poll READY, read.           *)
ReadADC(access) ==
  /\ program # "any"
  /\ UNCHANGED program
  /\ \/ /\ pc = "channel"
        /\ access \in {Select(c) : c \in IF program = "gameDemo" THEN {0} ELSE Channel}
        /\ pc' = IF program = "gameDemo" THEN "clear" ELSE "start"
        /\ UNCHANGED <<owed, got>>
     \/ /\ pc = "clear" /\ access = Ctrl(FALSE, TRUE)
        /\ pc' = "start"
        /\ UNCHANGED <<owed, got>>
     \/ /\ pc = "start" /\ access = Ctrl(TRUE, FALSE)
        /\ pc' = "poll"
        /\ owed' = conversion + 1
        /\ UNCHANGED got
     \/ /\ pc = "poll" /\ access = Status
        /\ pc' = IF ready THEN "data" ELSE "poll"
        /\ UNCHANGED <<owed, got>>
     \/ /\ pc = "data" /\ access = Data
        /\ pc' = "channel"
        /\ got' = dataReg
        /\ UNCHANGED owed

Client(access) == \/ ReadADC(access)
                  \/ (program = "any" \/ access = NoAccess) /\ UNCHANGED client

-----------------------------------------------------------------------------
(* The processes of the peripheral.                                         *)

(* Variant, for mutation: the acceptance overrides a START written with it. *)
StartRequestDropped(access) == (startReq \/ Starts(access)) /\ state # "CONV_HIGH"

StartRequest(access) == Starts(access) \/ (startReq /\ state # "CONV_HIGH")

(* Variant, for mutation: the request is not withdrawn.                     *)
ClearRequestKept(access) == clearReq \/ Clears(access)

ClearRequest(access) == Clears(access)

(* Bus Interface: START and CLEAR_READY are requests to the state machine.  *)
Bus(access) ==
  /\ startReq' = StartRequest(access)
  /\ clearReq' = ClearRequest(access)
  /\ channel' = IF access.reg = "CHANNEL" THEN access.channel ELSE channel

SclkEdge == state = "SHIFT" /\ clkCnt = ClkDiv - 1
SclkRise == SclkEdge /\ sclk = 0
SclkFall == SclkEdge /\ sclk = 1

(* Variant, for mutation: READY comes as the last bit does.                 *)
CompletesEarly == SclkRise /\ bitCnt = Bits - 1

Begins == state = "IDLE" /\ startReq
Completes == state = "ACQ_HOLD" /\ cnt = 0

(* Variants, for mutation: the shift ends half a bit early, a bit late.     *)
LastBitEarly == SclkFall /\ bitCnt = Bits - 1
LastBitLate == SclkRise /\ bitCnt = Bits

LastBit == SclkRise /\ bitCnt = Bits - 1

(* Variant, for mutation: a pending clear wins against a completion.        *)
NextReadyCleared == (Completes \/ ready) /\ ~clearReq

NextReady == Completes \/ (ready /\ ~clearReq)

(* The next state when the state s has been left alone for its time.        *)
Goto(s, time) == state' = s /\ cnt' = time - 1
Wait == state' = state /\ cnt' = cnt - 1
Stay == UNCHANGED <<state, cnt>>

(* CTRL FSM Process                                                         *)
Fsm ==
  /\ CASE state = "IDLE" -> IF startReq THEN Goto("CONV_HIGH", ConvHighClks) ELSE Stay
       [] state = "CONV_HIGH" -> IF cnt = 0 THEN Goto("CONV_WAIT", ConvWaitClks) ELSE Wait
       [] state = "CONV_WAIT" -> IF cnt = 0 THEN Goto("SHIFT", 1) ELSE Wait
       [] state = "SHIFT" -> IF LastBit THEN Goto("ACQ_HOLD", AcqHoldClks) ELSE Stay
       [] state = "ACQ_HOLD" -> IF cnt = 0 THEN Goto("DONE", 1) ELSE Wait
       [] state = "DONE" -> Goto("IDLE", 1)
  /\ bitCnt' = CASE state = "CONV_WAIT" -> 0
                 [] SclkRise /\ ~LastBit -> bitCnt + 1
                 [] OTHER -> bitCnt
  /\ ready' = NextReady

(* SCK Generation                                                           *)
Sck == IF state = "SHIFT"
       THEN IF SclkEdge THEN clkCnt' = 0 /\ sclk' = 1 - sclk
                        ELSE clkCnt' = clkCnt + 1 /\ UNCHANGED sclk
       ELSE clkCnt' = 0 /\ sclk' = 0

(* Variant, for mutation: the first bit of the command is sent twice.       *)
NextSdiAgain == tx[1]

NextSdi == tx[2]

(* SPI Datapath: the command goes out at falling edges, its first bit       *)
(* before the first; the sample comes in at rising ones.                    *)
Datapath ==
  /\ tx' = CASE Begins -> Command(channel) [] SclkFall -> Shifted(tx, <<0, 0>>) [] OTHER -> tx
  /\ sdi' = CASE Begins -> Command(channel)[1] [] SclkFall -> NextSdi [] OTHER -> sdi
  /\ rx' = CASE Begins -> NoBits
             [] SclkRise -> Shifted(rx, <<conversion, chipBit>>)
             [] OTHER -> rx
  /\ dataReg' = IF state = "ACQ_HOLD" THEN rx ELSE dataReg

(* The converter converts when CONVST rises, shows the first bit of its     *)
(* sample, the next one after each falling edge of SCK, and takes a bit of  *)
(* a command at each rising one.                                            *)
Chip ==
  /\ conversion' = IF Begins THEN conversion + 1 ELSE conversion
  /\ chipBit' = CASE Begins -> 1 [] sclk = 1 /\ sclk' = 0 -> chipBit + 1 [] OTHER -> chipBit
  /\ chipIn' = CASE Begins -> NoBits [] SclkRise -> Shifted(chipIn, sdi) [] OTHER -> chipIn

(* History: has START been written since the last conversion began?  The    *)
(* last conversion that has come to DONE; what that was when CLEAR_READY    *)
(* was last written, counting one that comes to DONE at the same edge; the  *)
(* channel selected when the last conversion began.                         *)
History(access) ==
  /\ asked' = (~Begins /\ (asked \/ Starts(access)))
  /\ completed' = IF state = "ACQ_HOLD" /\ state' = "DONE" THEN conversion ELSE completed
  /\ cleared' = IF Clears(access) THEN completed' ELSE cleared
  /\ command' = IF Begins THEN channel ELSE command

Tick(access) ==
  /\ Starts(access) => conversion < MaxConversions
  /\ Client(access)
  /\ Bus(access) /\ Fsm /\ Sck /\ Datapath
  /\ Chip
  /\ History(access)

(* RESETN = '0' resets the processor, too, but not the chip.                *)
Reset ==
  /\ state' = "IDLE" /\ cnt' = 0 /\ bitCnt' = 0
  /\ channel' = 0 /\ startReq' = FALSE /\ clearReq' = FALSE
  /\ ready' = FALSE /\ dataReg' = NoBits
  /\ clkCnt' = 0 /\ sclk' = 0
  /\ tx' = NoBits /\ rx' = NoBits /\ sdi' = <<0, 0>>
  /\ pc' = "channel" /\ got' = NoBits /\ asked' = FALSE /\ cleared' = completed
  /\ UNCHANGED <<chip, program, owed, completed, command>>

Next == Reset \/ \E access \in Accesses : Tick(access)

(* A program that waits for READY goes on polling, and then reads.          *)
Polls == pc \in {"poll", "data"} /\ \E access \in {Status, Data} : Tick(access) /\ ReadADC(access)

Spec == Init /\ [][Next]_vars
FairSpec == Spec /\ WF_vars(Polls)

-----------------------------------------------------------------------------
(* Properties                                                               *)

(* Between conversions and during one, but for the cycles in which it is    *)
(* accepted, a START is pending just when one has been written since the    *)
(* last conversion began: none is lost, not even one written at the cycle   *)
(* that accepts another, and none is served twice.                          *)
StartsServedOnce == state # "CONV_HIGH" => (startReq <=> asked)

(* The chip has got all bits of the command, in order, that selects the     *)
(* channel which was selected when the conversion began, whatever the       *)
(* program has written since.                                               *)
CommandIntact == state \in {"ACQ_HOLD", "DONE"} => chipIn = Command(command)

(* The conversion whose sample was taken in last: a conversion under way    *)
(* hands its sample over in ACQ_HOLD, before it sets READY.                 *)
TakenIn == IF state = "ACQ_HOLD" /\ cnt < AcqHoldClks - 1 THEN conversion ELSE completed

(* While READY is set the data register holds the whole sample of the       *)
(* conversion that was taken in last, also when another one is under way;   *)
(* and a READY that the last CLEAR_READY was meant for is gone once that    *)
(* write is not pending any more.                                           *)
ReadyIsFresh == ready => /\ completed >= 1 /\ dataReg = Sample(TakenIn)
                         /\ clearReq \/ completed > cleared

(* A clear takes no more than it was meant for: a conversion that completes *)
(* after the edge at which CLEAR_READY was written sets READY, also in the  *)
(* cycle in which that clear takes effect, and READY stays until the next   *)
(* clear.  (One that completes at the edge of the write itself is cleared.) *)
ClearSparesCompletion == completed > cleared => ready

(* ReadADC returns the sample of the conversion that it has started: what   *)
(* "starts a conversion, polls the ready bit, and then reads the 12-bit     *)
(* sample" (README.md) means to its caller.                                 *)
ReturnsOwnSample == pc \in {"channel", "clear", "start"} /\ got # NoBits => got = Sample(owed)

(* A program that has started a conversion does not poll for ever: READY,   *)
(* once set, stays until it is seen.                                        *)
ReadADCReturns == pc = "poll" ~> pc = "channel"
=============================================================================
