------------------------- MODULE Peripherals_proofs -------------------------
(***************************************************************************)
(* Proofs about Peripherals, for every value of the constants.             *)
(***************************************************************************)
EXTENDS Peripherals, TLAPS

-----------------------------------------------------------------------------
(* Types                                                                   *)

LEMMA Least ==
    ASSUME NEW S \in SUBSET (0..7), S # {}
    PROVE  \E q \in S : \A r \in S : q <= r
<1>1. 0..7 = {0, 1, 2, 3, 4, 5, 6, 7}
    OBVIOUS
<1>2. CASE 0 \in S BY <1>1, <1>2
<1>3. CASE 0 \notin S /\ 1 \in S BY <1>1, <1>3
<1>4. CASE S \cap {0, 1} = {} /\ 2 \in S BY <1>1, <1>4
<1>5. CASE S \cap {0, 1, 2} = {} /\ 3 \in S BY <1>1, <1>5
<1>6. CASE S \cap {0, 1, 2, 3} = {} /\ 4 \in S BY <1>1, <1>6
<1>7. CASE S \cap {0, 1, 2, 3, 4} = {} /\ 5 \in S BY <1>1, <1>7
<1>8. CASE S \cap {0, 1, 2, 3, 4, 5} = {} /\ 6 \in S BY <1>1, <1>8
<1>9. CASE S \cap {0, 1, 2, 3, 4, 5, 6} = {} /\ 7 \in S BY <1>1, <1>9
<1> QED BY <1>1, <1>2, <1>3, <1>4, <1>5, <1>6, <1>7, <1>8, <1>9

LEMMA FirstPinIsPin == FirstPin \in Pins /\ FirstPin <= 2
<1>1. \E q \in Pins : \A r \in Pins : q <= r
    BY PinsAssumption, Least
<1> QED BY <1>1, PinsAssumption DEF FirstPin

\* The next pin is the first after the pin.
LEMMA NextPinIsAfter ==
    ASSUME NEW p \in Pins, After(p) # {}
    PROVE  /\ NextPin(p) \in Pins /\ NextPin(p) > p
           /\ \A q \in After(p) : NextPin(p) <= q
<1>1. \E q \in After(p) : \A r \in After(p) : q <= r
    BY PinsAssumption, Least DEF After
<1> QED BY <1>1 DEF NextPin, After

LEMMA WordsAre == \A v : v \in Words <=> v \in Nat /\ v <= 65535
<1>1. MaxWord \in Nat
    BY DEF MaxWord
<1>2. \A v : v \in Words <=> v \in Nat /\ v <= MaxWord
    BY <1>1 DEF Words
<1> QED BY <1>2 DEF MaxWord

ClockStep == ClockStore \/ handle_bcm \/ handle_timer_a \/ UNCHANGED clockVars

LEMMA ClockType ==
    ASSUME ClockTypeOK, ClockStep
    PROVE  ClockTypeOK'
<1> USE DEF ClockTypeOK
<1>1. CASE ClockStore
    <2> PICK s \in ClockStores : reg' = [reg EXCEPT ![s[1]] = s[2]]
        BY <1>1 DEF ClockStore
    <2>1. s[1] \in ClockRegisters /\ s[2] \in Words /\ (s[1] \in ByteRegisters => s[2] < 256)
        BY ClockAssumption
    <2>2. reg' \in [ClockRegisters -> Words] /\ \A r \in ByteRegisters : reg'[r] < 256
        BY <2>1 DEF ClockRegisters
    <2> QED BY <1>1, <2>2 DEF ClockStore
<1>2. CASE handle_bcm
    <2>1. reg' = reg /\ last' = last /\ servo' = servo /\ quiet' = quiet
        BY <1>2 DEF handle_bcm
    <2>2. dco_freq' \in {k[3] : k \in KnownDco}
        BY <1>2 DEF handle_bcm, Selected
    <2>3. mclk_source' \in Sources
        <3>1. SELMx \in 0..3
            BY WordsAre DEF SELMx, ClockRegisters, ByteRegisters
        <3> QED BY <1>2, <3>1 DEF handle_bcm, Sources
    <2>4. DIVMx \in 0..3
        BY WordsAre DEF DIVMx, ClockRegisters, ByteRegisters
    <2>5. mclk_div' \in {0, 1, 2, 4, 8}
        BY <1>2, <2>4 DEF handle_bcm
    <2>6. dco_freq \in Nat
        BY DEF KnownDco
    <2>7. mclk_freq' \in Nat
        BY <1>2, <2>6 DEF handle_bcm, Quotient
    <2> QED BY <2>1, <2>2, <2>3, <2>5, <2>7
<1>3. CASE handle_timer_a
    <2>1. \A v \in Words : Cleared(v) \in Words
        BY WordsAre DEF Cleared
    <2>2. reg' \in [ClockRegisters -> Words]
        BY <1>3, <2>1 DEF handle_timer_a, ClockRegisters
    <2>7. \A r \in ByteRegisters : reg'[r] < 256
        BY <1>3 DEF handle_timer_a, ClockRegisters, ByteRegisters
    <2>3. Ticks(mclk_freq) \in [count : Words, pulse : Words, freq : Nat]
        BY WordsAre DEF Ticks, ClockRegisters
    <2>4. last' \in [count : Words, pulse : Words, freq : Nat]
        BY <1>3, <2>3 DEF handle_timer_a
    <2>5. servo' \in {0, 30, 60, 90, 120, 150, NoAngle}
        BY <1>3 DEF handle_timer_a, Angle
    <2>6. quiet' \in 0..2
        BY <1>3 DEF handle_timer_a
    <2> QED BY <1>3, <2>2, <2>7, <2>4, <2>5, <2>6 DEF handle_timer_a
<1>4. CASE UNCHANGED clockVars
    BY <1>4 DEF clockVars
<1> QED BY <1>1, <1>2, <1>3, <1>4 DEF ClockStep

Port1Step ==
    LedStore \/ SelectStore \/ handle_port_1 \/ Poll \/ UNCHANGED port1Vars

LEMMA Port1Type ==
    ASSUME Port1TypeOK, Port1Step
    PROVE  Port1TypeOK'
<1> USE DEF Port1TypeOK, port1Vars, registers, flags, webVars
<1>1. CASE LedStore BY <1>1 DEF LedStore
<1>2. CASE SelectStore BY <1>2, PinsAssumption DEF SelectStore
<1>3. ASSUME PinDone PROVE SEL_2' \in BOOLEAN /\ SEL2_2' \in BOOLEAN /\ pin' \in Pins
    <2>1. SEL_2' \in BOOLEAN /\ SEL2_2' \in BOOLEAN
        <3>1. CASE pin = 2 BY <1>3, <3>1 DEF PinDone
        <3>2. CASE pin # 2 BY <1>3, <3>2 DEF PinDone
        <3> QED BY <3>1, <3>2
    <2>2. pin' \in Pins
        BY <1>3, FirstPinIsPin, NextPinIsAfter DEF PinDone
    <2> QED BY <2>1, <2>2
<1>4. CASE CopyDirection
    BY <1>3, <1>4 DEF CopyDirection
<1>5. CASE CopyOut
    BY <1>3, <1>5 DEF CopyOut
<1>6. ASSUME PollNext PROVE polled' \in Pins /\ poll' \in {"idle", "dir"}
    BY <1>6, FirstPinIsPin, NextPinIsAfter DEF PollNext
<1>7. CASE PollStart BY <1>7 DEF PollStart
<1>8. CASE PollDirection BY <1>6, <1>8 DEF PollDirection
<1>9. CASE PollHigh BY <1>6, <1>9 DEF PollHigh, Send
<1>10. CASE PollLow BY <1>6, <1>10 DEF PollLow, Send
<1>11. CASE UNCHANGED port1Vars BY <1>11
<1> QED BY <1>1, <1>2, <1>4, <1>5, <1>7, <1>8, <1>9, <1>10, <1>11
        DEF Port1Step, handle_port_1, Poll

UartStep ==
    \/ \E t \in Serial : thrd(t) \/ \E m \in AnyMessage : Receive(t, m)
    \/ \E selected \in BOOLEAN : handle_usci(selected)
    \/ Guest(left) \/ GuestSend
    \/ UNCHANGED uartVars

SerialType == [pc : {"none", "wait", "decode", "put", "load", "store",
                     "taken", "check", "done"},
               at : Position, thing : Characters, flags : SUBSET Flags]

LEMMA ByteType ==
    ASSUME buffer \in [1..Room -> Characters], NEW i \in Nat \ {0}
    PROVE  Byte(i) \subseteq Characters
BY UartAssumption DEF Byte

LEMMA DecodedType ==
    ASSUME buffer \in [1..Room -> Characters], NEW i \in Nat \ {0}, NEW d \in Decoded(i)
    PROVE  d[1] \in Characters /\ d[2] \in {1, 2, 4}
<1> PICK c \in Byte(i), b \in Byte(i + 1) :
        d \in CASE c # BACKSLASH -> {<<IF c = LF THEN CR ELSE c, 1>>}
                [] c = BACKSLASH /\ b \notin {LOWER_H, UPPER_H} -> {<<BACKSLASH, 2>>}
                [] c = BACKSLASH /\ b \in {LOWER_H, UPPER_H} ->
                       {<<Hex[h], 4>> : h \in Byte(i + 2) \X Byte(i + 3)}
    BY DEF Decoded
<1>1. c \in Characters /\ {CR, BACKSLASH} \subseteq Characters
    BY ByteType, UartAssumption DEF Specials
<1>2. CASE c # BACKSLASH BY <1>1, <1>2
<1>3. CASE c = BACKSLASH /\ b \notin {LOWER_H, UPPER_H} BY <1>1, <1>3
<1>4. CASE c = BACKSLASH /\ b \in {LOWER_H, UPPER_H}
    <2>1. Byte(i + 2) \subseteq Characters /\ Byte(i + 3) \subseteq Characters
        BY ByteType
    <2> PICK h \in Byte(i + 2) \X Byte(i + 3) : d = <<Hex[h], 4>>
        BY <1>4
    <2> QED BY <2>1, UartAssumption
<1> QED BY <1>2, <1>3, <1>4

\* The place after a character that starts in the buffer.
LEMMA PlaceAfter ==
    ASSUME NEW i \in 1..Room, NEW k \in {1, 2, 4}
    PROVE  i + k \in Position
BY UartAssumption DEF Position

LEMMA UartType ==
    ASSUME UartTypeOK, UartStep
    PROVE  UartTypeOK'
<1> USE DEF UartTypeOK, uartVars, registersU, browserVars
<1>1. ASSUME NEW t \in Serial, thrd(t) PROVE UartTypeOK'
    <2> SUFFICES /\ serial' \in [Serial -> SerialType] /\ puts' \in Nat
                 /\ RXBUF' \in Characters /\ IFG2' \subseteq Flags /\ raced' \in BOOLEAN
                 /\ UNCHANGED <<TXBUF, flags_read>>
        BY <1>1 DEF thrd, SerialType
    <2>0. serial \in [Serial -> SerialType]
        BY DEF SerialType
    <2> USE DEF Goto
    <2>1. CASE Wait(t)
        <3>1. \E next \in {"decode", "check"} : Goto(t, next)
            BY <2>1, Zenon DEF Wait, WaitEmpty
        <3>2. serial' \in [Serial -> SerialType]
            BY <2>0, <3>1, ZenonT(60) DEF SerialType
        <3> QED BY <2>1, <3>2 DEF Wait
    <2>2. CASE Decode(t)
        <3> PICK d \in Decoded(serial[t].at) :
                serial' = [serial EXCEPT ![t].pc = "put", ![t].thing = d[1],
                                         ![t].at = @ + d[2]]
            BY <2>2, Zenon DEF Decode
        <3>1. serial[t].at <= Room /\ UNCHANGED <<registersU, puts, raced>>
            BY <2>2, Zenon DEF Decode
        <3>2. serial[t].at \in 1..Room
            BY <3>1, UartAssumption DEF Position
        <3>3. d[1] \in Characters /\ d[2] \in {1, 2, 4}
            <4>1. buffer \in [1..Room -> Characters] /\ serial[t].at \in Nat \ {0}
                BY <3>2, UartAssumption
            <4> QED BY <4>1, DecodedType
        <3> DEFINE thing == d[1]
                   at == serial[t].at + d[2]
        <3>4. thing \in Characters /\ at \in Position
            BY <3>2, <3>3, PlaceAfter
        <3>5. serial' = [serial EXCEPT ![t].pc = "put", ![t].thing = thing, ![t].at = at]
            BY Zenon
        <3> HIDE DEF thing, at
        <3>6. serial' \in [Serial -> SerialType]
            <4>1. [serial[t] EXCEPT !.pc = "put", !.thing = thing, !.at = at] \in SerialType
                BY <2>0, <3>4 DEF SerialType
            <4>2. serial' = [serial EXCEPT ![t] =
                                [serial[t] EXCEPT !.pc = "put", !.thing = thing, !.at = at]]
                BY <2>0, <3>5
            <4> QED BY <2>0, <4>1, <4>2
        <3> QED BY <3>1, <3>6
    <2>3. CASE Put(t)
        <3>1. NUL \in Characters
            BY UartAssumption DEF Specials
        <3>2. serial' \in [Serial -> SerialType] /\ RXBUF' \in Characters
            BY <2>0, <2>3, <3>1, ZenonT(60) DEF Put, SerialType
        <3> QED BY <2>3, <3>2 DEF Put
    <2>4. CASE Load(t)
        <3>1. serial' \in [Serial -> SerialType]
            BY <2>0, <2>4, ZenonT(60) DEF Load, SerialType
        <3> QED BY <2>4, <3>1 DEF Load
    <2>5. CASE Store(t)
        <3>1. serial' \in [Serial -> SerialType] /\ serial[t].flags \subseteq Flags
            BY <2>0, <2>5, ZenonT(60) DEF Store, SerialType
        <3> QED BY <2>5, <3>1 DEF Store, StoreFlags, Flags
    <2>6. CASE Check(t)
        <3>1. 1 \in Position
            BY UartAssumption DEF Position
        <3>2. serial' \in [Serial -> SerialType]
            <4>1. CASE RXBUF = CR
                <5>1. [serial[t] EXCEPT !.pc = "done", !.at = 1] \in SerialType
                    BY <2>0, <3>1 DEF SerialType
                <5>2. serial' = [serial EXCEPT ![t] = [serial[t] EXCEPT !.pc = "done", !.at = 1]]
                    BY <2>0, <2>6, <4>1 DEF Check
                <5> QED BY <2>0, <5>1, <5>2
            <4>2. CASE RXBUF # CR
                <5>1. serial' = [serial EXCEPT ![t].pc = "wait"]
                    BY <2>6, <4>2, Zenon DEF Check
                <5> QED BY <2>0, <5>1 DEF SerialType
            <4> QED BY <4>1, <4>2
        <3> QED BY <2>6, <3>2 DEF Check
    <2> QED BY <1>1, <2>1, <2>2, <2>3, <2>4, <2>5, <2>6 DEF thrd
<1>2. ASSUME NEW t \in Serial, NEW m \in AnyMessage, Receive(t, m) PROVE UartTypeOK'
    <2>1. m \in Seq(Characters)
        BY UartAssumption DEF AnyMessage, Serial
    <2>2. buffer' \in [1..Room -> Characters]
        BY <1>2, <2>1, UartAssumption, SMTT(60) DEF Receive, Specials
    <2>3. sent' \in Seq(AnyMessage)
        BY <1>2 DEF Receive
    <2>4. due' \in Seq(Characters)
        <3> DEFINE v == Meaning[m]
        <3>1. v \in Seq(Characters) /\ due' = due \o v
            BY <1>2, UartAssumption DEF Receive
        <3> HIDE DEF v
        <3> QED BY <3>1
    <2>5. serial' \in [Serial -> SerialType]
        <3>1. serial' = [serial EXCEPT ![t].pc = "wait"]
            BY <1>2 DEF Receive
        <3> QED BY <3>1 DEF SerialType
    <2>6. UNCHANGED <<registersU, guest, puts, received, written, transmitted, raced>>
        BY <1>2 DEF Receive
    <2>7. overlapped' \in BOOLEAN
        BY <1>2 DEF Receive
    <2> QED BY <2>2, <2>3, <2>4, <2>5, <2>6, <2>7 DEF SerialType
<1>3. ASSUME NEW selected \in BOOLEAN, handle_usci(selected) PROVE UartTypeOK'
    <2> USE DEF UnchangedByUsci, StoreFlags, Flags
    <2>1. CASE UsciTest(selected) BY <2>1 DEF UsciTest
    <2>2. CASE UsciLoad BY <2>2 DEF UsciLoad
    <2>3. CASE UsciClear BY <2>3 DEF UsciClear
    <2>4. CASE UsciSend BY <2>4, UartAssumption DEF UsciSend, Specials
    <2>5. CASE UsciSet BY <2>5 DEF UsciSet
    <2> QED BY <1>3, <2>1, <2>2, <2>3, <2>4, <2>5 DEF handle_usci
<1>4. CASE Guest(left)
    <2> USE <1>4 DEF Guest, Instruction
    <2>1. CASE GuestTest(left) BY <2>1 DEF GuestTest
    <2>2. CASE GuestRead BY <2>2 DEF GuestRead
    <2>3. CASE GuestClearLoad BY <2>3 DEF GuestClearLoad
    <2>4. CASE GuestClearStore BY <2>4 DEF GuestClearStore, StoreFlags
    <2> QED BY <2>1, <2>2, <2>3, <2>4
<1>5. CASE GuestSend
    BY <1>5, UartAssumption DEF GuestSend, GuestWrite, Instruction
<1>6. CASE UNCHANGED uartVars
    BY <1>6
<1> QED BY <1>1, <1>2, <1>3, <1>4, <1>5, <1>6 DEF UartStep

LEMMA TypeStep ==
    ASSUME PeripheralsTypeOK, [Next]_vars
    PROVE  PeripheralsTypeOK'
<1> USE DEF PeripheralsTypeOK
<1>1. ClockTypeOK' /\ Port1TypeOK' /\ UartTypeOK'
    <2> USE ClockType, Port1Type, UartType DEF ClockStep, Port1Step, UartStep
    <2>1. CASE ServoProgram BY <2>1 DEF ServoProgram
    <2>2. CASE LedProgram BY <2>2 DEF LedProgram
    <2>3. CASE SelectProgram
        <3>1. ClockTypeOK' /\ Port1TypeOK'
            BY <2>3 DEF SelectProgram
        <3>2. guest' \in {"select", "rx"} /\ UNCHANGED <<registersU, browserVars, serial, puts,
                                    received, written, transmitted, raced>>
            BY <2>3 DEF SelectProgram
        <3>3. UartTypeOK'
            BY <3>2 DEF UartTypeOK, registersU, browserVars
        <3> QED BY <3>1, <3>3
    <2>4. CASE UartProgram BY <2>4 DEF UartProgram
    <2>5. CASE OtherInstruction BY <2>5 DEF OtherInstruction
    <2>6. CASE ClockTurn BY <2>6 DEF ClockTurn
    <2>7. CASE Port1Turn BY <2>7 DEF Port1Turn
    <2>8. CASE UsciTurn
        <3>1. (SEL_2 /\ SEL2_2) \in BOOLEAN
            OBVIOUS
        <3>2. UartStep
            BY <2>8, <3>1 DEF UsciTurn
        <3> QED BY <2>8, <3>2 DEF UsciTurn
    <2>9. CASE WaitTurn BY <2>9 DEF WaitTurn
    <2>10. CASE LedCallback BY <2>10 DEF LedCallback
    <2>11. CASE SerialMessage BY <2>11 DEF SerialMessage
    <2>12. CASE \E t \in Serial : SerialThread(t) BY <2>12 DEF SerialThread
    <2>13. CASE UNCHANGED vars BY <2>13 DEF vars
    <2> QED BY <2>1, <2>2, <2>3, <2>4, <2>5, <2>6, <2>7, <2>8, <2>9, <2>10, <2>11, <2>12, <2>13
            DEF Next, MainThread, decode
<1>2. turn' \in MainLabels
    BY DEF Next, MainThread, decode, ServoProgram, LedProgram, SelectProgram, UartProgram,
        OtherInstruction, ClockTurn, Port1Turn, UsciTurn, WaitTurn, LedCallback, SerialMessage,
        SerialThread, vars, Main, MainLabels, handle_bcm, handle_timer_a, handle_port_1,
        CopyDirection, CopyOut, PinDone, handle_usci, UsciTest, UsciLoad, UsciClear, UsciSend,
        UsciSet, mclk_wait_cycles, Guest, GuestTest, GuestRead, GuestClearLoad, GuestClearStore,
        GuestSend, GuestWrite, Instruction
<1>3. firmware' \in Firmware /\ left' \in 0..MaxStores[firmware']
    <2>1. firmware' = firmware /\ (left' = left \/ (left > 0 /\ left' = left - 1))
        BY DEF Next, MainThread, decode, ServoProgram, LedProgram, SelectProgram, UartProgram,
            OtherInstruction, ClockTurn, Port1Turn, UsciTurn, WaitTurn, LedCallback,
            SerialMessage, SerialThread, vars, Bounded
    <2>2. MaxStores[firmware] \in Nat
        BY PeripheralsAssumption
    <2> QED BY <2>1, <2>2
<1> QED BY <1>1, <1>2, <1>3

(* Types: every variable of the running machine, for every message, pin    *)
(* and store of the guest.                                                 *)
THEOREM TypeCorrect == Spec => []PeripheralsTypeOK
<1>1. Init => PeripheralsTypeOK
    <2> SUFFICES ASSUME Init PROVE PeripheralsTypeOK
        OBVIOUS
    <2>1. ClockTypeOK
        <3>1. reg \in [ClockRegisters -> Words] /\ (\A r \in ByteRegisters : reg[r] < 256)
            <4>1. \A r \in ClockRegisters : reg[r] \in {96, 135, 0}
                BY DEF Init, ClockInit
            <4>2. reg = [r \in ClockRegisters |-> reg[r]]
                BY Zenon DEF Init, ClockInit
            <4>3. 96 \in Words /\ 135 \in Words /\ 0 \in Words
                BY WordsAre
            <4>4. reg \in [ClockRegisters -> Words]
                BY <4>1, <4>2, <4>3
            <4> QED BY <4>1, <4>4 DEF ClockRegisters
        <3>2. last \in [count : Words, pulse : Words, freq : Nat]
            BY WordsAre DEF Init, ClockInit
        <3> QED BY <3>1, <3>2 DEF Init, ClockInit, ClockTypeOK, KnownDco, Sources, NoAngle
    <2>2. Port1TypeOK
        BY FirstPinIsPin DEF Init, Port1Init, Port1TypeOK
    <2>3. UartTypeOK
        <3>1. NUL \in Characters /\ 1 \in Position
            BY UartAssumption DEF Specials, Position
        <3>2. serial \in [Serial -> SerialType]
            BY <3>1 DEF Init, UartInit, SerialType
        <3>3. buffer \in [1..Room -> Characters] /\ IFG2 \subseteq Flags
            BY <3>1 DEF Init, UartInit, Flags
        <3>4. sent \in Seq(AnyMessage) /\ received \in Seq([put : Nat, value : Characters])
            BY DEF Init, UartInit
        <3>5. written \in Seq(Characters) /\ transmitted \in Seq(Characters)
            BY DEF Init, UartInit
        <3> QED BY <3>1, <3>2, <3>3, <3>4, <3>5 DEF Init, UartInit, UartTypeOK, SerialType
    <2>4. left \in 0..MaxStores[firmware]
        BY PeripheralsAssumption DEF Init
    <2> QED BY <2>1, <2>2, <2>3, <2>4 DEF Init, PeripheralsTypeOK, MainLabels
<1> QED BY <1>1, TypeStep, PTL DEF Spec

-----------------------------------------------------------------------------
(* The UART                                                                *)

\* A step of another part of the machine.
Outside ==
    /\ UNCHANGED uartVars
    /\ \/ turn' = turn
       \/ /\ turn \in {"decode", "bcm", "timer_a", "port_1", "port_1_out"}
          /\ turn' \in {"bcm", "timer_a", "port_1", "port_1_out", "usci"}
       \/ turn = "wait" /\ turn' \in {"wait", "decode"}

LEMMA Steps ==
    ASSUME [Next]_vars
    PROVE  \/ Outside \/ SelectProgram \/ UartProgram \/ UsciTurn \/ SerialMessage
           \/ \E t \in Serial : SerialThread(t)
<1> USE DEF Outside
<1>1. CASE ServoProgram \/ LedProgram \/ OtherInstruction
    BY <1>1 DEF ServoProgram, LedProgram, OtherInstruction, Main
<1>2. CASE ClockTurn
    BY <1>2 DEF ClockTurn, handle_bcm, handle_timer_a, Main
<1>3. CASE Port1Turn
    BY <1>3 DEF Port1Turn, handle_port_1, CopyDirection, CopyOut, PinDone
<1>4. CASE WaitTurn
    BY <1>4 DEF WaitTurn, mclk_wait_cycles
<1>5. CASE LedCallback
    BY <1>5 DEF LedCallback
<1>6. CASE UNCHANGED vars
    BY <1>6 DEF vars
<1> QED BY <1>1, <1>2, <1>3, <1>4, <1>5, <1>6 DEF Next, MainThread, decode

LEMMA TxReadyStep ==
    ASSUME PeripheralsTypeOK, TxReadyUnlessRaced, [Next]_vars
    PROVE  TxReadyUnlessRaced'
<1> USE DEF TxReadyUnlessRaced, uartVars, registersU, browserVars
<1>0. UartTypeOK /\ raced \in BOOLEAN
    BY DEF PeripheralsTypeOK, UartTypeOK
<1>1. CASE Outside
    BY <1>1 DEF Outside
<1>2. CASE SelectProgram
    BY <1>2 DEF SelectProgram, Main
<1>3. CASE UartProgram
    <2> USE DEF Guest, GuestSend, Instruction
    <2>1. CASE turn = "decode" /\ (GuestTest(left) \/ GuestRead \/ GuestClearLoad \/ GuestWrite)
        BY <2>1 DEF GuestTest, GuestRead, GuestClearLoad, GuestWrite
    <2>2. CASE turn = "decode_store" /\ GuestClearStore
        BY <2>2 DEF GuestClearStore, StoreFlags
    <2> QED BY <1>3, <2>1, <2>2 DEF UartProgram
<1>4. CASE UsciTurn
    <2> USE DEF UnchangedByUsci, Main
    <2>1. CASE UsciTest(SEL_2 /\ SEL2_2)
        BY <2>1 DEF UsciTest
    <2>2. CASE UsciLoad \/ UsciClear \/ UsciSend
        BY <2>2 DEF UsciLoad, UsciClear, UsciSend
    <2>3. CASE UsciSet
        BY <2>3 DEF UsciSet, StoreFlags
    <2> QED BY <1>4, <2>1, <2>2, <2>3 DEF UsciTurn, handle_usci
<1>5. CASE SerialMessage
    BY <1>5 DEF SerialMessage, Receive
<1>6. ASSUME NEW t \in Serial, SerialThread(t) PROVE TxReadyUnlessRaced'
    <2> USE <1>6 DEF SerialThread, thrd
    <2>1. CASE Store(t)
        BY <2>1 DEF Store, StoreFlags
    <2>2. CASE Wait(t) \/ Decode(t) \/ Put(t) \/ Load(t) \/ Check(t)
        <3>1. UNCHANGED <<IFG2, raced, turn>>
            BY <2>2, Zenon DEF Wait, Decode, Put, Load, Check
        <3> QED BY <3>1
    <2> QED BY <2>1, <2>2
<1> QED BY <1>1, <1>2, <1>3, <1>4, <1>5, <1>6, Steps

(* Unless a store to IFG2 has undone another thread's, the guest finds     *)
(* TXIFG set, however many serial threads there are.                       *)
THEOREM TxReady == Spec => []TxReadyUnlessRaced
<1>1. Init => TxReadyUnlessRaced
    BY DEF Init, UartInit, TxReadyUnlessRaced
<1> QED BY <1>1, TypeCorrect, TxReadyStep, PTL DEF Spec

LEMMA CheckMoves ==
    ASSUME serial \in [Serial -> SerialType], NEW t \in Serial, Check(t)
    PROVE  /\ serial'[t].pc \in {"done", "wait"}
           /\ \A u \in Serial : u # t => serial'[u] = serial[u]
<1>1. CASE RXBUF = CR
    <2>1. serial' = [serial EXCEPT ![t].pc = "done", ![t].at = 1]
        BY <1>1, Zenon DEF Check
    <2>2. serial'[t].pc = "done"
        BY <2>1 DEF SerialType
    <2>3. \A u \in Serial : u # t => serial'[u] = serial[u]
        BY <2>1
    <2> QED BY <2>2, <2>3
<1>2. CASE RXBUF # CR
    <2>1. serial' = [serial EXCEPT ![t].pc = "wait"]
        BY <1>2, Zenon DEF Check, Goto
    <2>2. serial'[t].pc = "wait"
        BY <2>1 DEF SerialType
    <2>3. \A u \in Serial : u # t => serial'[u] = serial[u]
        BY <2>1
    <2> QED BY <2>2, <2>3
<1> QED BY <1>1, <1>2

\* While messages come one at a time there is one serial thread at most.
OneThread ==
    /\ \A t \in Serial : Alive(t) => t <= Len(sent)
    /\ ~overlapped => \A t, u \in Serial : Alive(t) /\ Alive(u) => t = u

LEMMA OneThreadStep ==
    ASSUME PeripheralsTypeOK, OneThread, [Next]_vars
    PROVE  OneThread'
<1> USE DEF OneThread, Alive
<1>0. /\ serial \in [Serial -> SerialType] /\ sent \in Seq(AnyMessage)
      /\ overlapped \in BOOLEAN /\ Serial \subseteq Nat
    BY UartAssumption DEF PeripheralsTypeOK, UartTypeOK, SerialType, Serial
<1>1. CASE UNCHANGED <<serial, sent, overlapped>>
    BY <1>1
<1>2. CASE SerialMessage
    <2> PICK t \in Serial, m \in AnyMessage : Receive(t, m)
        BY <1>2 DEF SerialMessage
    <2>1. /\ t = Len(sent) + 1 /\ sent' = Append(sent, m)
          /\ serial' = [serial EXCEPT ![t].pc = "wait"]
          /\ overlapped' = (overlapped \/ \E u \in Serial : Alive(u))
        BY DEF Receive
    <2>2. Len(sent') = Len(sent) + 1 /\ Len(sent) \in Nat
        BY <1>0, <2>1
    <2>3. \A u \in Serial : u # t => serial'[u] = serial[u]
        BY <1>0, <2>1
    <2>4. \A u \in Serial : Alive(u)' => u <= Len(sent')
        BY <1>0, <2>1, <2>2, <2>3
    <2>5. ~overlapped' => \A u, v \in Serial : Alive(u)' /\ Alive(v)' => u = v
        BY <2>1, <2>3
    <2> QED BY <2>4, <2>5
<1>3. ASSUME NEW t \in Serial, SerialThread(t) PROVE OneThread'
    <2>1. UNCHANGED <<sent, overlapped>>
        BY <1>3 DEF SerialThread, thrd, browserVars
    <2>2. \A u \in Serial : u # t => serial'[u] = serial[u]
        BY <1>0, <1>3, Zenon
            DEF SerialThread, thrd, Wait, WaitEmpty, Goto, Decode, Put, Load, Store, Check
    <2>3. serial[t].pc \notin {"none", "done"}
        BY <1>3, Zenon
            DEF SerialThread, thrd, Wait, WaitEmpty, Decode, Put, Load, Store, Check, At
    <2> QED BY <2>1, <2>2, <2>3
<1>4. CASE SelectProgram BY <1>1, <1>4 DEF SelectProgram, browserVars
<1>5. CASE UartProgram BY <1>1, <1>5 DEF UartProgram, Guest, GuestSend, browserVars
<1>6. CASE UsciTurn
    BY <1>1, <1>6 DEF UsciTurn, handle_usci, UsciTest, UsciLoad, UsciClear, UsciSend, UsciSet,
        UnchangedByUsci, browserVars, uartVars
<1>7. CASE Outside BY <1>1, <1>7 DEF Outside, uartVars, browserVars
<1> QED BY <1>2, <1>3, <1>4, <1>5, <1>6, <1>7, Steps

\* handle_usci finds the UART selected once the guest's program has begun.
SelectCopied ==
    /\ \/ turn \in {"port_1", "port_1_out"} /\ pin > 2
       \/ turn \in {"usci", "usci_load", "usci_clear", "usci_send", "usci_set", "wait"}
       => SEL_2 = (2 \in P1SEL) /\ SEL2_2 = (2 \in P1SEL2)
    /\ turn \notin {"port_1", "port_1_out"} => pin = FirstPin
    /\ P1SEL \subseteq {2} /\ P1SEL2 \subseteq {2}
    /\ guest # "select" => 2 \in P1SEL /\ 2 \in P1SEL2

LEMMA SelectStep ==
    ASSUME PeripheralsTypeOK, SelectCopied, [Next]_vars
    PROVE  SelectCopied'
<1> USE DEF SelectCopied, port1Vars, registers, flags
<1>0. /\ pin \in Pins /\ Pins \subseteq 0..7 /\ 2 \in Pins
      /\ SEL_2 \in BOOLEAN /\ SEL2_2 \in BOOLEAN
    BY PinsAssumption DEF PeripheralsTypeOK, Port1TypeOK
<1>1. CASE Port1Turn
    <2>0. turn \in {"port_1", "port_1_out"} /\ UNCHANGED <<P1SEL, P1SEL2, guest>>
        BY <1>1 DEF Port1Turn, handle_port_1, CopyDirection, CopyOut, uartVars
    <2>1. CASE UNCHANGED <<pin, SEL_2, SEL2_2>> /\ turn' = "port_1_out"
        BY <2>0, <2>1
    <2>2. CASE PinDone
        <3>1. pin >= 2 => SEL_2' = (2 \in P1SEL) /\ SEL2_2' = (2 \in P1SEL2)
            <4>1. CASE pin = 2
                BY <2>2, <4>1, Zenon DEF PinDone
            <4>2. CASE pin > 2
                <5>1. SEL_2 = (2 \in P1SEL) /\ SEL2_2 = (2 \in P1SEL2)
                    BY <2>0, <4>2
                <5>2. pin # 2
                    BY <1>0, <4>2
                <5> QED BY <2>2, <5>1, <5>2, Zenon DEF PinDone
            <4> QED BY <1>0, <4>1, <4>2
        <3>2. CASE After(pin) = {}
            <4>1. pin >= 2 /\ turn' = "usci" /\ pin' = FirstPin
                BY <1>0, <2>2, <3>2 DEF After, PinDone
            <4> QED BY <2>0, <3>1, <4>1
        <3>3. CASE After(pin) # {}
            <4>1. turn' = "port_1" /\ (pin' > 2 => pin >= 2)
                <5>1. turn' = "port_1" /\ pin' = NextPin(pin)
                    BY <2>2, <3>3 DEF PinDone
                <5>2. pin < 2 => 2 \in After(pin)
                    BY <1>0 DEF After
                <5>3. NextPin(pin) \in Pins /\ \A q \in After(pin) : NextPin(pin) <= q
                    BY <1>0, <3>3, NextPinIsAfter
                <5>4. pin \in Nat /\ (pin < 2 => NextPin(pin) <= 2)
                    BY <1>0, <5>2, <5>3
                <5>5. NextPin(pin) \in Nat
                    <6>1. \A p \in Pins : p \in Nat
                        BY <1>0
                    <6> QED BY <5>3, <6>1
                <5> QED BY <5>1, <5>4, <5>5
            <4> QED BY <2>0, <3>1, <4>1
        <3> QED BY <3>2, <3>3
    <2> QED BY <1>1, <2>1, <2>2 DEF Port1Turn, handle_port_1, CopyDirection, CopyOut
<1>2. CASE SelectProgram
    BY <1>2 DEF SelectProgram, SelectStore, Main
<1>3. CASE UartProgram
    BY <1>3 DEF UartProgram, Guest, GuestTest, GuestRead, GuestClearLoad, GuestClearStore,
        GuestSend, GuestWrite, Instruction
<1>4. CASE UsciTurn
    BY <1>4 DEF UsciTurn, handle_usci, UsciTest, UsciLoad, UsciClear, UsciSend, UsciSet,
        UnchangedByUsci, Main, uartVars
<1>5. CASE ServoProgram \/ LedProgram \/ OtherInstruction
    BY <1>5 DEF ServoProgram, LedProgram, LedStore, OtherInstruction, Main, uartVars
<1>6. CASE ClockTurn
    <2>1. turn' \in {"timer_a", "port_1"} /\ UNCHANGED <<P1SEL, P1SEL2, guest, pin, SEL_2, SEL2_2>>
        BY <1>6 DEF ClockTurn, handle_bcm, handle_timer_a, Main, uartVars
    <2>2. turn' = "port_1" => turn = "timer_a"
        BY <1>6 DEF ClockTurn, handle_bcm, handle_timer_a, Main
    <2>3. turn \in {"bcm", "timer_a"} /\ pin = FirstPin
        BY <1>6 DEF ClockTurn, handle_bcm, handle_timer_a, Main
    <2> QED BY <1>0, <2>1, <2>2, <2>3, FirstPinIsPin
<1>7. CASE WaitTurn \/ SerialMessage \/ \E t \in Serial : SerialThread(t)
    BY <1>7 DEF WaitTurn, mclk_wait_cycles, SerialMessage, Receive, SerialThread, thrd, uartVars
<1>8. CASE LedCallback
    BY <1>8 DEF LedCallback, Poll, PollStart, PollDirection, PollHigh, PollLow, uartVars
<1>9. CASE UNCHANGED vars
    BY <1>9 DEF vars, uartVars
<1> QED BY <1>1, <1>2, <1>3, <1>4, <1>5, <1>6, <1>7, <1>8, <1>9 DEF Next, MainThread, decode

Storing(t) == At(t, "store")

\* TXIFG is clear and no thread has a stale IFG2 to bring it back.
Stuck == "TX" \notin IFG2 /\ \A t \in Serial : Storing(t) => "TX" \notin serial[t].flags

(* What is stored but not sent is in TXBUF: the guest stores only when it  *)
(* is empty, because a character that handle_usci has left there has found *)
(* TXIFG clear, and it then stays clear.                                   *)
TransmitInv ==
    ~overlapped =>
        /\ written = IF TXBUF = NUL THEN transmitted ELSE Append(transmitted, TXBUF)
        /\ guest \in {"select", "write"} \/ turn = "usci_set" => TXBUF = NUL
        /\ turn \in {"wait", "decode", "decode_store"} /\ TXBUF # NUL => Stuck
        /\ turn \notin {"usci_send", "usci_set"} /\ "TX" \notin IFG2 => Stuck
        /\ turn = "decode_store" /\ "TX" \notin flags_read => Stuck

LEMMA TransmitStep ==
    ASSUME PeripheralsTypeOK, OneThread, SelectCopied, TransmitInv, [Next]_vars
    PROVE  TransmitInv'
<1> USE DEF TransmitInv, registersU, browserVars
<1>0. /\ serial \in [Serial -> SerialType] /\ IFG2 \subseteq Flags /\ flags_read \subseteq Flags
      /\ overlapped \in BOOLEAN
    BY DEF PeripheralsTypeOK, UartTypeOK, SerialType
<1>1. ASSUME UNCHANGED <<serial, IFG2>> PROVE Stuck' <=> Stuck
    BY <1>1 DEF Stuck, Storing, At
<1>2. CASE Outside
    <2>1. UNCHANGED <<IFG2, serial, overlapped, written, transmitted, TXBUF, flags_read, guest>>
        BY <1>2 DEF Outside, uartVars
    <2>2. /\ turn' = "usci_set" => turn = "usci_set"
          /\ turn' = "decode_store" => turn = "decode_store"
          /\ turn' \in {"wait", "decode"} => turn \in {"wait", "decode"}
          /\ turn \in {"usci_send", "usci_set"} => turn' = turn
        BY <1>2 DEF Outside
    <2> QED BY <1>1, <2>1, <2>2
<1>3. CASE SelectProgram
    BY <1>1, <1>3 DEF SelectProgram, Main
<1>4. CASE UartProgram
    <2>0. UNCHANGED <<serial, overlapped, transmitted>>
        BY <1>4 DEF UartProgram, Guest, GuestSend
    <2>1. CASE turn = "decode" /\ GuestTest(left)
        <3>1. UNCHANGED <<IFG2, written, TXBUF, flags_read>> /\ turn' = "bcm"
            BY <2>1 DEF GuestTest, Instruction
        <3>2. guest' = "write" => "TX" \in IFG2
            BY <2>1 DEF GuestTest, Instruction
        <3>3. guest' # "select"
            BY <2>1 DEF GuestTest, Instruction
        <3> QED BY <1>1, <2>0, <2>1, <3>1, <3>2, <3>3 DEF Stuck
    <2>2. CASE turn = "decode" /\ GuestRead
        BY <1>1, <2>0, <2>2 DEF GuestRead, Instruction
    <2>3. CASE turn = "decode" /\ GuestClearLoad
        BY <1>1, <2>0, <2>3 DEF GuestClearLoad
    <2>4. CASE turn = "decode_store" /\ GuestClearStore
        <3>1. /\ IFG2' = flags_read \ {"RX"} /\ turn' = "bcm" /\ guest' = "tx"
              /\ UNCHANGED <<TXBUF, written>>
            BY <2>4 DEF GuestClearStore, StoreFlags, Instruction
        <3>2. "TX" \notin IFG2' /\ ~overlapped => Stuck'
            BY <2>0, <2>4, <3>1 DEF Stuck, Storing, At
        <3> QED BY <2>0, <2>4, <3>1, <3>2
    <2>5. CASE turn = "decode" /\ GuestWrite
        <3> PICK x \in Texts : TXBUF' = x /\ written' = IF x = NUL THEN written ELSE Append(written, x)
            BY <2>5 DEF GuestWrite
        <3>1. guest = "write" /\ guest' = "rx" /\ turn' = "bcm" /\ UNCHANGED <<IFG2, flags_read>>
            BY <2>5 DEF GuestWrite, Instruction
        <3> QED BY <1>1, <2>0, <2>5, <3>1
    <2> QED BY <1>4, <2>1, <2>2, <2>3, <2>4, <2>5 DEF UartProgram, Guest, GuestSend
<1>5. CASE UsciTurn
    <2> USE DEF UnchangedByUsci, Main
    <2>1. CASE UsciTest(SEL_2 /\ SEL2_2)
        <3>1. guest # "select" => SEL_2 /\ SEL2_2
            BY <2>1 DEF UsciTest, SelectCopied
        <3> QED BY <1>1, <2>1, <3>1 DEF UsciTest, uartVars
    <2>2. CASE UsciLoad
        BY <1>1, <2>2 DEF UsciLoad
    <2>3. CASE UsciClear
        BY <2>3 DEF UsciClear, StoreFlags
    <2>4. CASE UsciSend
        BY <1>1, <2>4 DEF UsciSend
    <2>5. CASE UsciSet
        BY <2>5 DEF UsciSet, StoreFlags
    <2> QED BY <1>5, <2>1, <2>2, <2>3, <2>4, <2>5 DEF UsciTurn, handle_usci
<1>6. CASE SerialMessage
    <2> PICK t \in Serial, m \in AnyMessage : Receive(t, m)
        BY <1>6 DEF SerialMessage
    <2>1. serial' = [serial EXCEPT ![t].pc = "wait"]
        BY DEF Receive
    <2>2. Stuck => Stuck'
        BY <1>0, <2>1 DEF Receive, Stuck, Storing, At
    <2> QED BY <1>6, <2>2 DEF SerialMessage, Receive
<1>7. ASSUME NEW t \in Serial, SerialThread(t) PROVE TransmitInv'
    <2>0. UNCHANGED <<overlapped, written, transmitted, guest, turn>>
        BY <1>7 DEF SerialThread, thrd
    <2>1. CASE Store(t)
        <3>1. /\ IFG2' = serial[t].flags \cup {"RX"} /\ At(t, "store")
              /\ serial' = [serial EXCEPT ![t].pc = "taken", ![t].flags = {}]
              /\ UNCHANGED <<TXBUF, flags_read>>
            BY <2>1 DEF Store, StoreFlags
        <3>2. \A u \in Serial : Storing(u)' => u # t /\ Storing(u) /\ serial'[u] = serial[u]
            BY <1>0, <3>1 DEF Storing, At
        <3>3. Stuck => Stuck'
            BY <3>1, <3>2 DEF Stuck, Storing
        <3>4. ~overlapped => \A u \in Serial : ~Storing(u)'
            BY <3>1, <3>2 DEF OneThread, Alive, Storing, At
        <3>5. "TX" \notin IFG2' /\ ~overlapped => Stuck'
            BY <3>4 DEF Stuck
        <3> QED BY <2>0, <3>1, <3>3, <3>5
    <2>2. CASE Load(t)
        <3>1. serial' = [serial EXCEPT ![t].pc = "store", ![t].flags = IFG2]
            BY <2>2 DEF Load
        <3>2. \A u \in Serial : u # t => serial'[u] = serial[u]
            BY <1>0, <3>1
        <3>3. serial'[t].flags = IFG2
            BY <1>0, <3>1
        <3>4. Stuck => Stuck'
            BY <2>2, <3>2, <3>3 DEF Load, Stuck, Storing, At
        <3> QED BY <2>0, <2>2, <3>4 DEF Load
    <2>3. CASE Wait(t) \/ Decode(t) \/ Put(t) \/ Check(t)
        <3>1. UNCHANGED <<IFG2, TXBUF, flags_read>>
            BY <2>3, Zenon DEF Wait, Decode, Put, Check
        <3>2. \A u \in Serial : Storing(u)' => Storing(u) /\ serial'[u].flags = serial[u].flags
            <4>1. CASE Wait(t)
                <5> PICK next \in {"decode", "check"} : Goto(t, next)
                    BY <4>1, Zenon DEF Wait, WaitEmpty
                <5>1. serial'[t].pc # "store" /\ \A u \in Serial : u # t => serial'[u] = serial[u]
                    BY <1>0 DEF Goto
                <5> QED BY <5>1 DEF Storing, At
            <4>2. CASE Decode(t)
                <5> PICK d \in Decoded(serial[t].at) :
                        serial' = [serial EXCEPT ![t].pc = "put", ![t].thing = d[1],
                                                 ![t].at = @ + d[2]]
                    BY <4>2, Zenon DEF Decode
                <5> DEFINE thing == d[1]
                           at == serial[t].at + d[2]
                <5>1. serial' = [serial EXCEPT ![t].pc = "put", ![t].thing = thing, ![t].at = at]
                    BY Zenon
                <5> HIDE DEF thing, at
                <5>2. serial'[t].pc = "put"
                    BY <1>0, <5>1
                <5>3. \A u \in Serial : u # t => serial'[u] = serial[u]
                    BY <1>0, <5>1
                <5> QED BY <5>2, <5>3 DEF Storing, At
            <4>3. CASE Put(t)
                BY <1>0, <4>3 DEF Put, Storing, At
            <4>4. CASE Check(t)
                <5>1. serial'[t].pc # "store" /\ \A u \in Serial : u # t => serial'[u] = serial[u]
                    BY <1>0, <4>4, CheckMoves
                <5> QED BY <5>1 DEF Storing, At
            <4> QED BY <2>3, <4>1, <4>2, <4>3, <4>4
        <3>3. Stuck => Stuck'
            BY <3>1, <3>2 DEF Stuck
        <3> QED BY <2>0, <3>1, <3>3
    <2> QED BY <1>7, <2>1, <2>2, <2>3 DEF SerialThread, thrd
<1> QED BY <1>2, <1>3, <1>4, <1>5, <1>6, <1>7, Steps

(* The guest finds RXIFG set only when a character has been put that it    *)
(* has not read, and no stale IFG2 can bring the flag back: the thread     *)
(* that puts waits for it to be clear in every copy.                       *)
Fresh == \A i \in DOMAIN received : received[i].put < puts

ReceiveInv ==
    ~overlapped =>
        /\ \A i \in DOMAIN received : received[i].put <= puts
        /\ \A i, j \in DOMAIN received : i < j => received[i].put < received[j].put
        /\ "RX" \in flags_read => "RX" \in IFG2
        /\ \A t \in Serial :
               serial[t].pc \in {"decode", "put", "load", "store"} => "RX" \notin IFG2
        /\ \A t \in Serial : serial[t].pc \in {"load", "store"} => Fresh
        /\ "RX" \in IFG2 /\ guest # "clear" => Fresh
        /\ guest \in {"read", "clear"} =>
               /\ "RX" \in IFG2
               /\ turn \in {"usci_clear", "usci_set", "decode_store"} => "RX" \in flags_read
        /\ turn = "decode_store" => guest = "clear"

LEMMA ReceiveStep ==
    ASSUME PeripheralsTypeOK, OneThread, ReceiveInv, [Next]_vars
    PROVE  ReceiveInv'
<1> USE DEF ReceiveInv, registersU, browserVars
<1>0. /\ serial \in [Serial -> SerialType] /\ IFG2 \subseteq Flags /\ flags_read \subseteq Flags
      /\ overlapped \in BOOLEAN /\ puts \in Nat
      /\ received \in Seq([put : Nat, value : Characters]) /\ RXBUF \in Characters
    BY DEF PeripheralsTypeOK, UartTypeOK, SerialType
<1>1. ASSUME UNCHANGED <<received, puts>> PROVE Fresh' <=> Fresh
    BY <1>1 DEF Fresh
<1>2. CASE Outside
    <2>1. UNCHANGED <<IFG2, serial, overlapped, received, puts, flags_read, guest>>
        BY <1>2 DEF Outside, uartVars
    <2>2. turn' \in {"decode_store", "usci_clear", "usci_set"} => turn' = turn
        BY <1>2 DEF Outside
    <2> QED BY <1>1, <2>1, <2>2
<1>3. CASE SelectProgram
    BY <1>1, <1>3 DEF SelectProgram, Main
<1>4. CASE UartProgram
    <2>0. UNCHANGED <<serial, overlapped, puts>>
        BY <1>4 DEF UartProgram, Guest, GuestSend
    <2>1. CASE turn = "decode" /\ GuestTest(left)
        BY <1>1, <2>0, <2>1 DEF GuestTest, Instruction
    <2>2. CASE turn = "decode" /\ GuestRead
        <3> DEFINE r == [put |-> puts, value |-> RXBUF]
        <3>1. /\ received' = Append(received, r) /\ r.put = puts
              /\ guest = "read" /\ guest' = "clear" /\ turn' = "bcm"
              /\ UNCHANGED <<IFG2, flags_read>>
            BY <2>2 DEF GuestRead, Instruction
        <3>2. ~overlapped => Fresh /\ \A t \in Serial :
                                  serial[t].pc \notin {"decode", "put", "load", "store"}
            BY <3>1
        <3>3. /\ Len(received) \in Nat /\ DOMAIN received' = 1..Len(received) + 1
              /\ DOMAIN received = 1..Len(received)
              /\ received'[Len(received) + 1] = r
              /\ \A i \in DOMAIN received : received'[i] = received[i]
            BY <1>0, <3>1
        <3> HIDE DEF r
        <3>4. ~overlapped => \A i \in DOMAIN received' : received'[i].put <= puts
            BY <1>0, <3>1, <3>3
        <3>5. ~overlapped =>
                \A i, j \in DOMAIN received' : i < j => received'[i].put < received'[j].put
            BY <1>0, <3>1, <3>2, <3>3 DEF Fresh
        <3> QED BY <2>0, <3>1, <3>2, <3>4, <3>5
    <2>3. CASE turn = "decode" /\ GuestClearLoad
        BY <1>1, <2>0, <2>3 DEF GuestClearLoad
    <2>4. CASE turn = "decode_store" /\ GuestClearStore
        BY <1>1, <2>0, <2>4 DEF GuestClearStore, StoreFlags, Instruction
    <2>5. CASE turn = "decode" /\ GuestWrite
        BY <1>1, <2>0, <2>5 DEF GuestWrite, Instruction
    <2> QED BY <1>4, <2>1, <2>2, <2>3, <2>4, <2>5 DEF UartProgram, Guest, GuestSend
<1>5. CASE UsciTurn
    <2> USE DEF UnchangedByUsci, Main
    <2>1. CASE UsciTest(SEL_2 /\ SEL2_2)
        BY <1>1, <2>1 DEF UsciTest, uartVars
    <2>2. CASE UsciLoad
        BY <1>1, <2>2 DEF UsciLoad
    <2>3. CASE UsciClear
        BY <1>1, <2>3 DEF UsciClear, StoreFlags
    <2>4. CASE UsciSend
        BY <1>1, <2>4 DEF UsciSend
    <2>5. CASE UsciSet
        BY <1>1, <2>5 DEF UsciSet, StoreFlags
    <2> QED BY <1>5, <2>1, <2>2, <2>3, <2>4, <2>5 DEF UsciTurn, handle_usci
<1>6. CASE SerialMessage
    <2> PICK t \in Serial, m \in AnyMessage : Receive(t, m)
        BY <1>6 DEF SerialMessage
    <2>1. serial' = [serial EXCEPT ![t].pc = "wait"]
        BY DEF Receive
    <2>2. serial'[t].pc = "wait" /\ \A u \in Serial : u # t => serial'[u] = serial[u]
        BY <1>0, <2>1
    <2>3. ~overlapped' => ~overlapped
        BY DEF Receive
    <2>4. UNCHANGED <<IFG2, received, puts, flags_read, guest, turn>>
        BY <1>6 DEF SerialMessage, Receive
    <2>5. ~overlapped => \A u \in Serial :
              /\ serial'[u].pc \in {"decode", "put", "load", "store"} => "RX" \notin IFG2
              /\ serial'[u].pc \in {"load", "store"} => Fresh
        BY <2>2
    <2> QED BY <1>1, <2>3, <2>4, <2>5
<1>7. ASSUME NEW t \in Serial, SerialThread(t) PROVE ReceiveInv'
    <2>0. UNCHANGED <<overlapped, received, guest, turn>>
        BY <1>7 DEF SerialThread, thrd
    <2>1. \A u \in Serial : u # t => serial'[u] = serial[u]
        BY <1>0, <1>7, Zenon
            DEF SerialThread, thrd, Wait, WaitEmpty, Goto, Decode, Put, Load, Store, Check
    <2>2. serial[t].pc \notin {"none", "done"}
        BY <1>7, Zenon
            DEF SerialThread, thrd, Wait, WaitEmpty, Decode, Put, Load, Store, Check, At
    <2>3. ~overlapped => \A u \in Serial : u # t => serial'[u].pc \in {"none", "done"}
        BY <1>0, <2>1, <2>2 DEF OneThread, Alive
    <2>4. CASE Wait(t)
        <3> PICK next \in {"decode", "check"} : Goto(t, next) /\ "RX" \notin IFG2
            BY <2>4, Zenon DEF Wait, WaitEmpty
        <3>1. serial'[t].pc \in {"decode", "check"}
            BY <1>0 DEF Goto
        <3>2. UNCHANGED <<IFG2, flags_read, puts>>
            BY <2>4 DEF Wait
        <3> QED BY <1>1, <2>0, <2>3, <3>1, <3>2
    <2>5. CASE Decode(t)
        <3>1. UNCHANGED <<IFG2, flags_read, puts>> /\ serial[t].pc = "decode"
            BY <2>5, Zenon DEF Decode, At
        <3>2. serial'[t].pc = "put"
            <4> PICK d \in Decoded(serial[t].at) :
                    serial' = [serial EXCEPT ![t].pc = "put", ![t].thing = d[1],
                                             ![t].at = @ + d[2]]
                BY <2>5, Zenon DEF Decode
            <4> DEFINE thing == d[1]
                       at == serial[t].at + d[2]
            <4>1. serial' = [serial EXCEPT ![t].pc = "put", ![t].thing = thing, ![t].at = at]
                BY Zenon
            <4> HIDE DEF thing, at
            <4> QED BY <1>0, <4>1
        <3> QED BY <1>1, <2>0, <2>3, <3>1, <3>2
    <2>6. CASE Put(t)
        <3>1. /\ UNCHANGED <<IFG2, flags_read>> /\ serial[t].pc = "put" /\ puts' = puts + 1
              /\ serial' = [serial EXCEPT ![t].pc = "load", ![t].thing = NUL]
            BY <2>6 DEF Put, At
        <3>2. serial'[t].pc = "load"
            BY <1>0, <3>1
        <3>3. \A i \in DOMAIN received : received[i].put \in Nat
            <4> DEFINE R == [put : Nat, value : Characters]
            <4>1. received \in Seq(R)
                BY <1>0
            <4>2. \A r \in R : r.put \in Nat
                OBVIOUS
            <4> HIDE DEF R
            <4>3. \A i \in DOMAIN received : received[i] \in R
                BY <4>1
            <4> QED BY <4>2, <4>3
        <3>4. ~overlapped => Fresh' /\ \A i \in DOMAIN received : received[i].put <= puts'
            BY <1>0, <2>0, <3>1, <3>3 DEF Fresh
        <3> QED BY <2>0, <2>3, <3>1, <3>2, <3>4
    <2>7. CASE Load(t)
        <3>1. UNCHANGED <<IFG2, flags_read, puts>> /\ serial[t].pc = "load"
            BY <2>7 DEF Load, At
        <3>2. serial'[t].pc = "store"
            BY <1>0, <2>7 DEF Load
        <3> QED BY <1>1, <2>0, <2>3, <3>1, <3>2
    <2>8. CASE Store(t)
        <3>1. /\ IFG2' = serial[t].flags \cup {"RX"} /\ serial[t].pc = "store"
              /\ UNCHANGED <<flags_read, puts>>
            BY <2>8 DEF Store, StoreFlags, At
        <3>2. serial'[t].pc = "taken"
            BY <1>0, <2>8 DEF Store
        <3> QED BY <1>1, <2>0, <2>3, <3>1, <3>2
    <2>9. CASE Check(t)
        <3>1. UNCHANGED <<IFG2, flags_read, puts>>
            BY <2>9 DEF Check
        <3>2. serial'[t].pc \in {"done", "wait"}
            BY <1>0, <2>9, CheckMoves
        <3> QED BY <1>1, <2>0, <2>3, <3>1, <3>2
    <2> QED BY <1>7, <2>4, <2>5, <2>6, <2>7, <2>8, <2>9 DEF SerialThread, thrd
<1> QED BY <1>2, <1>3, <1>4, <1>5, <1>6, <1>7, Steps

LEMMA UartInvariant == Spec => [](OneThread /\ SelectCopied /\ TransmitInv /\ ReceiveInv)
<1>1. Init => OneThread /\ SelectCopied /\ TransmitInv /\ ReceiveInv
    BY DEF Init, UartInit, Port1Init, OneThread, Alive, SelectCopied, TransmitInv, ReceiveInv
<1> QED BY <1>1, TypeCorrect, OneThreadStep, SelectStep, TransmitStep, ReceiveStep, PTL DEF Spec

(* The guest receives no put twice and none out of order, whatever the     *)
(* messages are and however the two threads' changes of IFG2 interleave.   *)
THEOREM ReceivedOnce == Spec => []ReceivedInOrder
<1>1. ReceiveInv => ReceivedInOrder
    BY DEF ReceiveInv, ReceivedInOrder
<1> QED BY <1>1, UartInvariant, PTL

(* handle_usci sends what the guest stored, each character once and in     *)
(* order: a lost TXIFG may end the sending, but repeats and skips nothing. *)
THEOREM TransmittedInOrder == Spec => []TransmittedOnce
<1>1. PeripheralsTypeOK /\ TransmitInv => TransmittedOnce
    <2> SUFFICES ASSUME PeripheralsTypeOK, TransmitInv, ~overlapped
                 PROVE  /\ Len(transmitted) <= Len(written)
                        /\ transmitted = SubSeq(written, 1, Len(transmitted))
        BY DEF TransmittedOnce
    <2>1. transmitted \in Seq(Characters) /\ TXBUF \in Characters
        BY DEF PeripheralsTypeOK, UartTypeOK
    <2>2. CASE written = transmitted
        BY <2>1, <2>2
    <2>3. CASE written = Append(transmitted, TXBUF)
        BY <2>1, <2>3
    <2> QED BY <2>2, <2>3 DEF TransmitInv
<1> QED BY <1>1, TypeCorrect, UartInvariant, PTL

-----------------------------------------------------------------------------
(* Messages handed over                                                    *)

\* The message being handed over, what it stands for, where it is cut, and how
\* many characters were due before it.
Message == sent[Len(sent)]
Value == Meaning[Message]
Cut(m) == CHOOSE cut \in [1..Len(Meaning[m]) + 1 -> 1..Len(m) + 1] :
              CutsInto(m, cut, Meaning[m])
Base == Len(due) - Len(Value)

\* 1 while a character is in UCA0RXBUF that the guest has not read.
Unread == IF "RX" \in IFG2 /\ guest # "clear" THEN 1 ELSE 0

\* How many characters that thread t has put are still to be read.
Waiting(t) == IF serial[t].pc \in {"load", "store"} THEN 1
              ELSE IF serial[t].pc = "taken" THEN Unread ELSE 0

\* Thread t has put k characters of its message.
HasPut(t, k) ==
    LET s == serial[t]
    IN  /\ s.pc \in {"wait", "decode", "put", "load", "store", "check"} => "RX" \notin IFG2
        /\ s.pc \in {"wait", "decode", "put"} => k < Len(Value)
        /\ s.pc \in {"load", "store", "taken", "check"} => k > 0 /\ RXBUF = Value[k]
        /\ s.pc = "put" => s.thing = Value[k + 1] /\ s.at = Cut(Message)[k + 2]
        /\ s.pc # "put" => s.at = Cut(Message)[k + 1]
        /\ Len(received) = Base + k - Waiting(t)

HandsOver(t) ==
    /\ \A i \in 1..Len(Message) : buffer[i] = Message[i]
    /\ \A k \in 1..Len(Value) : due[Base + k] = Value[k]
    /\ sent # <<>> /\ Base \in Nat
    /\ \E k \in 0..Len(Value) : HasPut(t, k)

\* What the guest has received is what was due, up to the character the serial
\* thread is at.
DeliverInv ==
    /\ \A t \in Serial : t > Len(sent) => serial[t].at = 1
    /\ ~overlapped /\ ~raced =>
        /\ \A i \in 1..Len(received) : i <= Len(due) /\ received[i].value = due[i]
        /\ guest \in {"read", "clear"} => "RX" \in IFG2
        /\ (\A t \in Serial : ~Alive(t)) => "RX" \notin IFG2 /\ Len(received) = Len(due)
        /\ \A t \in Serial : Alive(t) => HandsOver(t)

\* A message stands for characters, and is cut into the parts that stand for each.
LEMMA ParseIs ==
    ASSUME NEW m \in AnyMessage
    PROVE  /\ m \in Seq(Characters) /\ Len(m) <= Room
           /\ Meaning[m] \in Seq(Characters) /\ Len(Meaning[m]) > 0
           /\ Cut(m)[1] = 1
           /\ \A k \in 1..Len(Meaning[m]) :
                 /\ Cut(m)[k] \in 1..Len(m) + 1
                 /\ Encodes(m, Cut(m)[k], Cut(m)[k + 1], Meaning[m][k])
                 /\ Meaning[m][k] = CR <=> k = Len(Meaning[m])
<1> DEFINE v == Meaning[m]
           cuts == [1..Len(v) + 1 -> 1..Len(m) + 1]
<1>1. m \in Seq(Characters) /\ v \in Seq(Characters)
    BY UartAssumption DEF AnyMessage, Serial
<1>2. /\ Len(m) <= Room /\ v # <<>>
      /\ \E cut \in cuts : CutsInto(m, cut, v)
      /\ \A k \in 1..Len(v) : v[k] = CR <=> k = Len(v)
    BY MeaningAssumption
<1>3. Cut(m) \in cuts /\ CutsInto(m, Cut(m), v)
    BY <1>2, Zenon DEF Cut
<1>4. Cut(m)[1] = 1 /\ \A k \in 1..Len(v) : Encodes(m, Cut(m)[k], Cut(m)[k + 1], v[k])
    BY <1>3 DEF CutsInto
<1>5. \A k \in 1..Len(v) : Cut(m)[k] \in 1..Len(m) + 1
    <2> HIDE DEF v
    <2>1. Len(v) \in Nat
        BY <1>1
    <2> QED BY <1>3, <2>1
<1>6. Len(v) > 0
    BY <1>1, <1>2
<1> QED BY <1>1, <1>2, <1>4, <1>5, <1>6

\* The code decodes a part of a message to the character it stands for.
LEMMA DecodedIs ==
    ASSUME NEW m \in Seq(Characters), Len(m) <= Room, NEW i \in 1..Len(m) + 1, NEW j, NEW c,
           \A k \in 1..Len(m) : buffer[k] = m[k], Encodes(m, i, j, c),
           NEW d \in Decoded(i)
    PROVE  d[1] = c /\ i + d[2] = j
<1>0. Len(m) \in Nat /\ DOMAIN m = 1..Len(m) /\ Room \in Nat /\ i \in Nat
    BY UartAssumption
<1>1. \A k \in 1..Len(m) : Byte(k) = {m[k]}
    BY <1>0 DEF Byte
<1> PICK a \in Byte(i), b \in Byte(i + 1) :
        d \in CASE a # BACKSLASH -> {<<IF a = LF THEN CR ELSE a, 1>>}
                [] a = BACKSLASH /\ b \notin {LOWER_H, UPPER_H} -> {<<BACKSLASH, 2>>}
                [] a = BACKSLASH /\ b \in {LOWER_H, UPPER_H} ->
                       {<<Hex[h], 4>> : h \in Byte(i + 2) \X Byte(i + 3)}
    BY DEF Decoded
<1>2. CASE /\ i \in DOMAIN m /\ m[i] # BACKSLASH
           /\ j = i + 1 /\ c = (IF m[i] = LF THEN CR ELSE m[i])
    <2>1. a = m[i]
        BY <1>0, <1>1, <1>2
    <2>2. d = <<IF a = LF THEN CR ELSE a, 1>>
        BY <1>2, <2>1
    <2> QED BY <1>2, <2>1, <2>2
<1>3. CASE /\ i + 1 \in DOMAIN m /\ m[i] = BACKSLASH /\ m[i + 1] \notin {LOWER_H, UPPER_H}
           /\ j = i + 2 /\ c = BACKSLASH
    <2>1. a = m[i] /\ b = m[i + 1]
        BY <1>0, <1>1, <1>3
    <2>2. d = <<BACKSLASH, 2>>
        BY <1>3, <2>1
    <2> QED BY <1>3, <2>2
<1>4. CASE /\ i + 3 \in DOMAIN m /\ m[i] = BACKSLASH /\ m[i + 1] \in {LOWER_H, UPPER_H}
           /\ j = i + 4 /\ c = Hex[<<m[i + 2], m[i + 3]>>]
    <2>1. a = m[i] /\ b = m[i + 1] /\ Byte(i + 2) = {m[i + 2]} /\ Byte(i + 3) = {m[i + 3]}
        BY <1>0, <1>1, <1>4
    <2> PICK h \in Byte(i + 2) \X Byte(i + 3) : d = <<Hex[h], 4>>
        BY <1>4, <2>1
    <2>2. h = <<m[i + 2], m[i + 3]>>
        BY <2>1
    <2>3. d = <<Hex[<<m[i + 2], m[i + 3]>>], 4>>
        BY <2>2
    <2> QED BY <1>4, <2>3
<1> QED BY <1>2, <1>3, <1>4 DEF Encodes

\* A step that leaves the serial threads and the characters alone, and sets no
\* RXIFG that was clear.
LEMMA DeliverFrame ==
    ASSUME UartTypeOK, DeliverInv, UNCHANGED <<serial, received, due, sent, buffer, RXBUF>>,
           overlapped' = overlapped, ~raced' /\ ~overlapped => ~raced,
           ~raced' /\ ~overlapped =>
               /\ "RX" \in IFG2' => "RX" \in IFG2
               /\ Unread' = Unread
               /\ guest' \in {"read", "clear"} => "RX" \in IFG2'
    PROVE  DeliverInv'
<1>1. Message' = Message /\ Value' = Value /\ Base' = Base
    BY DEF Message, Value, Base
<1>2. Cut(Message)' = Cut(Message)
    BY <1>1 DEF Cut, CutsInto, Encodes
<1>3. (\A t \in Serial : t > Len(sent) => serial[t].at = 1)'
    BY DEF DeliverInv
<1> SUFFICES ASSUME ~overlapped', ~raced'
             PROVE  /\ \A i \in 1..Len(received) : i <= Len(due) /\ received[i].value = due[i]
                    /\ guest' \in {"read", "clear"} => "RX" \in IFG2'
                    /\ (\A t \in Serial : ~Alive(t)) =>
                           "RX" \notin IFG2' /\ Len(received) = Len(due)
                    /\ \A t \in Serial : Alive(t) => HandsOver(t)'
    BY <1>3 DEF DeliverInv, Alive
<1>4. ~overlapped /\ ~raced
    OBVIOUS
<1>5. ASSUME NEW t \in Serial, Alive(t) PROVE HandsOver(t)'
    <2>1. HandsOver(t)
        BY <1>4, <1>5 DEF DeliverInv
    <2> PICK k \in 0..Len(Value) : HasPut(t, k)
        BY <2>1 DEF HandsOver
    <2>2. Waiting(t)' = Waiting(t)
        BY <1>4 DEF Waiting
    <2>3. HasPut(t, k)'
        BY <1>1, <1>2, <1>4, <2>2 DEF HasPut
    <2> QED BY <1>1, <2>1, <2>3 DEF HandsOver
<1> QED BY <1>4, <1>5 DEF DeliverInv

\* What the serial thread does next, and where it is then.
LEMMA ThreadMoves ==
    ASSUME serial \in [Serial -> SerialType], NEW t \in Serial, thrd(t)
    PROVE  /\ Alive(t) /\ \A u \in Serial : u # t => serial'[u] = serial[u]
           /\ Decode(t) => \E d \in Decoded(serial[t].at) :
                 /\ serial'[t].pc = "put" /\ serial'[t].thing = d[1]
                 /\ serial'[t].at = serial[t].at + d[2]
           /\ ~Decode(t) =>
                 \/ serial'[t].at = serial[t].at
                 \/ serial'[t].at = 1 /\ serial'[t].pc = "done"
<1>1. Alive(t)
    BY Zenon DEF thrd, Wait, WaitEmpty, Decode, Put, Load, Store, Check, At, Alive
<1>2. \A u \in Serial : u # t => serial'[u] = serial[u]
    BY Zenon DEF thrd, Wait, WaitEmpty, Goto, Decode, Put, Load, Store, Check
<1>3. ASSUME Decode(t)
      PROVE  \E d \in Decoded(serial[t].at) :
                 /\ serial'[t].pc = "put" /\ serial'[t].thing = d[1]
                 /\ serial'[t].at = serial[t].at + d[2]
    <2> PICK d \in Decoded(serial[t].at) :
            serial' = [serial EXCEPT ![t].pc = "put", ![t].thing = d[1], ![t].at = @ + d[2]]
        BY <1>3, Zenon DEF Decode
    <2> DEFINE thing == d[1]
               at == serial[t].at + d[2]
    <2>1. serial' = [serial EXCEPT ![t].pc = "put", ![t].thing = thing, ![t].at = at]
        BY Zenon
    <2>2. serial'[t].pc = "put" /\ serial'[t].thing = thing /\ serial'[t].at = at
        <3> HIDE DEF thing, at
        <3> QED BY <2>1 DEF SerialType
    <2> QED BY <2>2
<1>4. ASSUME Wait(t) PROVE serial'[t].at = serial[t].at
    <2> PICK next \in {"decode", "check"} : Goto(t, next)
        BY <1>4, Zenon DEF Wait, WaitEmpty
    <2> QED BY DEF Goto, SerialType
<1>5. ASSUME Put(t) \/ Load(t) \/ Store(t) PROVE serial'[t].at = serial[t].at
    BY <1>5 DEF Put, Load, Store, SerialType
<1>6. ASSUME Check(t)
      PROVE  serial'[t].at = serial[t].at \/ (serial'[t].at = 1 /\ serial'[t].pc = "done")
    <2>1. CASE RXBUF = CR
        <3>1. serial' = [serial EXCEPT ![t].pc = "done", ![t].at = 1]
            BY <1>6, <2>1, Zenon DEF Check
        <3> QED BY <3>1 DEF SerialType
    <2>2. CASE RXBUF # CR
        <3>1. serial' = [serial EXCEPT ![t].pc = "wait"]
            BY <1>6, <2>2, Zenon DEF Check, Goto
        <3> QED BY <3>1 DEF SerialType
    <2> QED BY <2>1, <2>2
<1> QED BY <1>1, <1>2, <1>3, <1>4, <1>5, <1>6 DEF thrd

\* A step of a thread that has put k characters: it has then put as many, or
\* one more, or it has put them all and ends.
LEMMA HasPutStep ==
    ASSUME UartTypeOK, NEW t \in Serial, thrd(t), ~raced',
           sent # <<>>, Base \in Nat, \A i \in 1..Len(Message) : buffer[i] = Message[i],
           guest \in {"read", "clear"} => "RX" \in IFG2,
           NEW k \in 0..Len(Value), HasPut(t, k)
    PROVE  \/ Alive(t)' /\ \E h \in 0..Len(Value) : HasPut(t, h)'
           \/ /\ serial'[t].pc = "done" /\ "RX" \notin IFG2'
              /\ Len(received) = Base + Len(Value)
<1> DEFINE s == serial[t]
           z == serial'[t]
           n == Len(received)
           cut == Cut(Message)
<1>0. /\ serial \in [Serial -> SerialType] /\ Message \in AnyMessage /\ n \in Nat
      /\ UNCHANGED <<received, guest>>
    BY DEF UartTypeOK, SerialType, Message, thrd
<1>1. /\ Message \in Seq(Characters) /\ Len(Message) <= Room
      /\ Value \in Seq(Characters) /\ Len(Value) \in Nat
      /\ \A h \in 1..Len(Value) :
            /\ cut[h] \in 1..Len(Message) + 1
            /\ Encodes(Message, cut[h], cut[h + 1], Value[h])
            /\ Value[h] = CR <=> h = Len(Value)
    BY <1>0, ParseIs DEF Value
<1>2. UNCHANGED <<sent, due, buffer>>
    BY DEF thrd, browserVars
<1>3. Message' = Message /\ Value' = Value /\ Base' = Base
    BY <1>2 DEF Message, Value, Base
<1>4. Cut(Message)' = cut
    BY <1>3 DEF Cut, CutsInto, Encodes
<1>5. \A h : HasPut(t, h)' <=>
        /\ z.pc \in {"wait", "decode", "put", "load", "store", "check"} => "RX" \notin IFG2'
        /\ z.pc \in {"wait", "decode", "put"} => h < Len(Value)
        /\ z.pc \in {"load", "store", "taken", "check"} => h > 0 /\ RXBUF' = Value[h]
        /\ z.pc = "put" => z.thing = Value[h + 1] /\ z.at = cut[h + 2]
        /\ z.pc # "put" => z.at = cut[h + 1]
        /\ n = Base + h - Waiting(t)'
    BY <1>0, <1>3, <1>4 DEF HasPut
<1>6. /\ s.pc \in {"wait", "decode", "put", "load", "store", "check"} => "RX" \notin IFG2
      /\ s.pc \in {"wait", "decode", "put"} => k < Len(Value)
      /\ s.pc \in {"load", "store", "taken", "check"} => k > 0 /\ RXBUF = Value[k]
      /\ s.pc = "put" => s.thing = Value[k + 1] /\ s.at = cut[k + 2]
      /\ s.pc # "put" => s.at = cut[k + 1]
      /\ n = Base + k - Waiting(t)
    BY DEF HasPut
<1>7. Waiting(t)' = IF z.pc \in {"load", "store"} THEN 1
                    ELSE IF z.pc = "taken" THEN Unread' ELSE 0
    BY DEF Waiting
<1>8. Waiting(t) = IF s.pc \in {"load", "store"} THEN 1
                   ELSE IF s.pc = "taken" THEN Unread ELSE 0
    BY DEF Waiting
<1> DEFINE after(h) == HasPut(t, h)'
           ends == z.pc = "done" /\ "RX" \notin IFG2' /\ n = Base + Len(Value)
<1> SUFFICES (z.pc \notin {"none", "done"} /\ \E h \in 0..Len(Value) : after(h)) \/ ends
    BY DEF Alive
<1>9. \A h : after(h) <=>
        /\ z.pc \in {"wait", "decode", "put", "load", "store", "check"} => "RX" \notin IFG2'
        /\ z.pc \in {"wait", "decode", "put"} => h < Len(Value)
        /\ z.pc \in {"load", "store", "taken", "check"} => h > 0 /\ RXBUF' = Value[h]
        /\ z.pc = "put" => z.thing = Value[h + 1] /\ z.at = cut[h + 2]
        /\ z.pc # "put" => z.at = cut[h + 1]
        /\ n = Base + h - Waiting(t)'
    BY <1>5
<1> HIDE DEF after, n, cut
<1>10. CASE Wait(t)
    <2>1. /\ "RX" \notin IFG2 /\ UNCHANGED <<IFG2, RXBUF>>
          /\ \/ s.pc = "wait" /\ z.pc = "decode"
             \/ s.pc = "taken" /\ z.pc = "check"
          /\ z.at = s.at
        <3>1. CASE WaitEmpty(t, "wait", "decode")
            BY <1>0, <1>10, <3>1 DEF Wait, WaitEmpty, At, Goto, SerialType, registersU
        <3>2. CASE WaitEmpty(t, "taken", "check")
            BY <1>0, <1>10, <3>2 DEF Wait, WaitEmpty, At, Goto, SerialType, registersU
        <3> QED BY <1>10, <3>1, <3>2 DEF Wait
    <2>2. Waiting(t) = 0 /\ Waiting(t)' = 0
        BY <1>7, <1>8, <2>1 DEF Unread
    <2>3. after(k)
        BY <1>6, <1>9, <2>1, <2>2
    <2> QED BY <2>1, <2>3
<1>11. CASE Decode(t)
    <2> PICK d \in Decoded(s.at) : z.pc = "put" /\ z.thing = d[1] /\ z.at = s.at + d[2]
        BY <1>0, <1>11, ThreadMoves
    <2>1. s.pc = "decode" /\ UNCHANGED <<IFG2, RXBUF>>
        BY <1>11, Zenon DEF Decode, At, registersU
    <2>2. k < Len(Value) /\ s.at = cut[k + 1]
        BY <1>6, <2>1
    <2>3. /\ k + 1 \in 1..Len(Value) /\ s.at \in 1..Len(Message) + 1
          /\ Encodes(Message, s.at, cut[k + 2], Value[k + 1])
        <3>1. k + 1 \in 1..Len(Value) /\ (k + 1) + 1 = k + 2
            BY <1>1, <2>2
        <3> QED BY <1>1, <2>2, <3>1
    <2>4. d[1] = Value[k + 1] /\ s.at + d[2] = cut[k + 2]
        <3> DEFINE i == s.at
                   j == cut[k + 2]
                   c == Value[k + 1]
        <3>1. i \in 1..Len(Message) + 1 /\ Encodes(Message, i, j, c) /\ d \in Decoded(i)
            BY <2>3
        <3> HIDE DEF i, j, c
        <3>2. d[1] = c /\ i + d[2] = j
            BY <1>1, <3>1, DecodedIs, SMTT(60)
        <3> QED BY <3>2 DEF i, j, c
    <2>5. Waiting(t) = 0 /\ Waiting(t)' = 0
        BY <1>7, <1>8, <2>1
    <2>6. after(k)
        BY <1>6, <1>9, <2>1, <2>4, <2>5
    <2> QED BY <2>6
<1>12. CASE Put(t)
    <2>1. /\ s.pc = "put" /\ z.pc = "load" /\ z.at = s.at
          /\ RXBUF' = s.thing /\ UNCHANGED IFG2
        BY <1>0, <1>12 DEF Put, At, SerialType
    <2>2. Waiting(t) = 0 /\ Waiting(t)' = 1
        BY <1>7, <1>8, <2>1
    <2>3. /\ k < Len(Value) /\ s.thing = Value[k + 1] /\ s.at = cut[k + 2]
          /\ "RX" \notin IFG2 /\ n = Base + k - 0
        BY <1>6, <2>1, <2>2
    <2> DEFINE h == k + 1
    <2>4. h \in 1..Len(Value) /\ h + 1 = k + 2 /\ n = Base + h - 1 /\ h > 0
        BY <1>1, <2>3
    <2>5. z.at = cut[h + 1] /\ RXBUF' = Value[h]
        BY <2>1, <2>3, <2>4
    <2> HIDE DEF h
    <2>6. after(h)
        BY <1>9, <2>1, <2>2, <2>3, <2>4, <2>5
    <2> QED BY <1>1, <2>1, <2>4, <2>6
<1>13. CASE Load(t)
    <2>1. s.pc = "load" /\ z.pc = "store" /\ z.at = s.at /\ UNCHANGED <<IFG2, RXBUF>>
        BY <1>0, <1>13 DEF Load, At, SerialType, registersU
    <2>2. Waiting(t) = 1 /\ Waiting(t)' = 1
        BY <1>7, <1>8, <2>1
    <2>3. after(k)
        BY <1>6, <1>9, <2>1, <2>2
    <2> QED BY <2>1, <2>3
<1>14. CASE Store(t)
    <2>1. s.pc = "store" /\ z.pc = "taken" /\ z.at = s.at /\ UNCHANGED RXBUF /\ "RX" \in IFG2'
        BY <1>0, <1>14 DEF Store, StoreFlags, At, SerialType
    <2>2. Waiting(t) = 1 /\ Waiting(t)' = 1
        <3>1. guest' # "clear"
            BY <1>0, <1>6, <2>1
        <3> QED BY <1>7, <1>8, <2>1, <3>1 DEF Unread
    <2>3. after(k)
        BY <1>6, <1>9, <2>1, <2>2
    <2> QED BY <2>1, <2>3
<1>15. CASE Check(t)
    <2>1. s.pc = "check" /\ UNCHANGED <<IFG2, RXBUF>>
        BY <1>15, Zenon DEF Check, At, registersU
    <2>2. k \in 1..Len(Value) /\ RXBUF = Value[k] /\ (RXBUF = CR <=> k = Len(Value))
          /\ "RX" \notin IFG2
        BY <1>1, <1>6, <2>1
    <2>3. CASE RXBUF = CR
        <3>1. serial' = [serial EXCEPT ![t].pc = "done", ![t].at = 1]
            BY <1>15, <2>3, Zenon DEF Check
        <3>2. z.pc = "done"
            BY <1>0, <3>1 DEF SerialType
        <3>3. k = Len(Value) /\ Waiting(t) = 0
            BY <1>8, <2>1, <2>2, <2>3
        <3>4. n = Base + k
            BY <1>6, <3>3
        <3> QED BY <2>1, <2>2, <3>2, <3>3, <3>4
    <2>4. CASE RXBUF # CR
        <3>1. serial' = [serial EXCEPT ![t].pc = "wait"]
            BY <1>15, <2>4, Zenon DEF Check, Goto
        <3>2. z.pc = "wait" /\ z.at = s.at
            BY <1>0, <3>1 DEF SerialType
        <3>3. Waiting(t) = 0 /\ Waiting(t)' = 0 /\ k < Len(Value)
            BY <1>1, <1>7, <1>8, <2>1, <2>2, <2>4, <3>2
        <3>4. after(k)
            BY <1>6, <1>9, <2>1, <2>2, <3>2, <3>3
        <3> QED BY <3>2, <3>4
    <2> QED BY <2>3, <2>4
<1> QED BY <1>10, <1>11, <1>12, <1>13, <1>14, <1>15 DEF thrd

\* A message comes when no thread is alive: the thread it starts has put nothing.
LEMMA HandsOverFirst ==
    ASSUME UartTypeOK, NEW t \in Serial, NEW m \in AnyMessage, Receive(t, m),
           serial[t].at = 1, "RX" \notin IFG2, Len(received) = Len(due)
    PROVE  HandsOver(t)'
<1> DEFINE v == Meaning[m]
<1>0. /\ serial \in [Serial -> SerialType] /\ sent \in Seq(AnyMessage)
      /\ due \in Seq(Characters) /\ buffer \in [1..Room -> Characters] /\ Room \in Nat
    BY UartAssumption DEF UartTypeOK, SerialType
<1>1. /\ m \in Seq(Characters) /\ Len(m) \in Nat /\ Len(m) <= Room
      /\ v \in Seq(Characters) /\ Len(v) \in Nat /\ Len(v) > 0 /\ Cut(m)[1] = 1
    <2>1. /\ m \in Seq(Characters) /\ Len(m) <= Room
          /\ v \in Seq(Characters) /\ Len(v) > 0 /\ Cut(m)[1] = 1
        BY ParseIs, Zenon
    <2> HIDE DEF v
    <2> QED BY <2>1
<1>2. sent' = Append(sent, m) /\ due' = due \o v /\ UNCHANGED <<IFG2, received>>
    BY DEF Receive, registersU
<1>3. serial' = [serial EXCEPT ![t].pc = "wait"]
    BY DEF Receive
<1>4. sent' # <<>> /\ Message' = m
    <2>1. Len(sent') = Len(sent) + 1 /\ sent'[Len(sent) + 1] = m /\ Len(sent) \in Nat
        BY <1>0, <1>2
    <2>2. Message' = sent'[Len(sent')]
        BY DEF Message
    <2> QED BY <2>1, <2>2
<1>5. Value' = v
    BY <1>4 DEF Value
<1> HIDE DEF v
<1>6. Base' = Len(due) /\ Len(due) \in Nat
    <2>1. Len(due') = Len(due) + Len(v) /\ Len(due) \in Nat
        BY <1>0, <1>1, <1>2
    <2> QED BY <1>1, <1>5, <2>1 DEF Base
<1>7. \A k \in 1..Len(v) : due'[Len(due) + k] = v[k]
    BY <1>0, <1>1, <1>2
<1>8. \A i \in 1..Len(m) : buffer'[i] = m[i]
    BY <1>1, <1>0 DEF Receive
<1>9. serial'[t].pc = "wait" /\ serial'[t].at = 1
    BY <1>0, <1>3 DEF SerialType
<1>10. Waiting(t)' = 0
    BY <1>9 DEF Waiting
<1>11. Cut(Message)' = Cut(m)
    BY <1>4 DEF Cut, CutsInto, Encodes
<1>12. HasPut(t, 0)'
    <2>1. Len(received') = Base' + 0 - Waiting(t)'
        BY <1>2, <1>6, <1>10
    <2>2. serial'[t].at = Cut(Message)'[0 + 1]
        BY <1>1, <1>9, <1>11
    <2>3. "RX" \notin IFG2' /\ 0 < Len(Value')
        BY <1>1, <1>2, <1>5
    <2> QED BY <1>9, <2>1, <2>2, <2>3 DEF HasPut
<1>13. 0 \in 0..Len(Value)'
    BY <1>1, <1>5
<1> QED BY <1>4, <1>5, <1>6, <1>7, <1>8, <1>12, <1>13 DEF HandsOver

LEMMA DeliverStep ==
    ASSUME PeripheralsTypeOK, OneThread, ReceiveInv, DeliverInv, [Next]_vars
    PROVE  DeliverInv'
<1> USE DEF registersU, browserVars
<1>0. /\ UartTypeOK /\ serial \in [Serial -> SerialType] /\ overlapped \in BOOLEAN
      /\ raced \in BOOLEAN /\ sent \in Seq(AnyMessage) /\ due \in Seq(Characters)
      /\ received \in Seq([put : Nat, value : Characters]) /\ Serial \subseteq Nat
    BY UartAssumption DEF PeripheralsTypeOK, UartTypeOK, SerialType, Serial
<1>a. /\ \A t \in Serial : t > Len(sent) => serial[t].at = 1
      /\ ~overlapped /\ ~raced =>
            /\ \A i \in 1..Len(received) : i <= Len(due) /\ received[i].value = due[i]
            /\ guest \in {"read", "clear"} => "RX" \in IFG2
            /\ (\A t \in Serial : ~Alive(t)) => "RX" \notin IFG2 /\ Len(received) = Len(due)
            /\ \A t \in Serial : Alive(t) => HandsOver(t)
    BY DEF DeliverInv
<1>1. CASE Outside
    <2>1. UNCHANGED <<uartVars, guest, IFG2>>
        BY <1>1 DEF Outside, uartVars
    <2>2. Unread' = Unread
        BY <2>1 DEF Unread
    <2> QED BY <1>0, <1>a, <2>1, <2>2, DeliverFrame DEF uartVars
<1>2. CASE SelectProgram
    <2>1. guest = "select" /\ guest' \in {"select", "rx"}
          /\ UNCHANGED <<registersU, browserVars, serial, received, raced>>
        BY <1>2 DEF SelectProgram
    <2>2. Unread' = Unread
        BY <2>1 DEF Unread
    <2> QED BY <1>0, <2>1, <2>2, DeliverFrame
<1>3. CASE UartProgram
    <2>0. UNCHANGED <<serial, browserVars>>
        BY <1>3 DEF UartProgram, Guest, GuestSend
    <2>1. CASE turn = "decode" /\ (GuestTest(left) \/ GuestClearLoad \/ GuestWrite)
        <3>1. /\ UNCHANGED <<IFG2, RXBUF, received, raced>>
              /\ guest' = "clear" <=> guest = "clear"
              /\ guest' \in {"read", "clear"} => guest' = guest \/ "RX" \in IFG2
            BY <2>1 DEF GuestTest, GuestClearLoad, GuestWrite, Instruction
        <3>2. Unread' = Unread
            BY <3>1 DEF Unread
        <3> QED BY <1>0, <1>a, <2>0, <3>1, <3>2, DeliverFrame
    <2>2. CASE turn = "decode" /\ GuestRead
        <3> DEFINE r == [put |-> puts, value |-> RXBUF]
                   n == Len(received)
        <3>1. /\ received' = Append(received, r) /\ r.value = RXBUF
              /\ UNCHANGED <<IFG2, RXBUF, raced>> /\ guest = "read" /\ guest' = "clear"
            BY <2>2 DEF GuestRead, Instruction
        <3>2. /\ n \in Nat /\ Len(received') = n + 1 /\ received'[n + 1] = r
              /\ \A i \in 1..n : received'[i] = received[i]
            BY <1>0, <3>1
        <3> HIDE DEF r
        <3> SUFFICES ASSUME ~overlapped, ~raced
                     PROVE  /\ \A i \in 1..Len(received') :
                                   i <= Len(due) /\ received'[i].value = due[i]
                            /\ "RX" \in IFG2
                            /\ \E t \in Serial : Alive(t)
                            /\ \A t \in Serial : Alive(t) => HandsOver(t)'
            BY <1>a, <2>0, <3>1 DEF DeliverInv, Alive
        <3>3. "RX" \in IFG2 /\ \E t \in Serial : Alive(t)
            BY <1>a, <3>1
        <3> PICK t \in Serial : Alive(t)
            BY <3>3
        <3>4. HandsOver(t) /\ \A u \in Serial : Alive(u) => u = t
            BY <1>a DEF OneThread
        <3> PICK k \in 0..Len(Value) : HasPut(t, k)
            BY <3>4 DEF HandsOver
        <3>5. serial[t].pc = "taken"
            BY <1>0, <3>3 DEF HasPut, Alive, SerialType
        <3>6. Waiting(t) = 1 /\ Waiting(t)' = 0
            BY <2>0, <3>1, <3>3, <3>5 DEF Waiting, Unread
        <3>7. k > 0 /\ RXBUF = Value[k] /\ n = Base + k - 1
            BY <3>5, <3>6 DEF HasPut
        <3>8. Message' = Message /\ Value' = Value /\ Base' = Base
            BY <2>0 DEF Message, Value, Base
        <3>9. Cut(Message)' = Cut(Message)
            BY <3>8 DEF Cut, CutsInto, Encodes
        <3>10. /\ Base \in Nat /\ Len(Value) \in Nat /\ Len(due) = Base + Len(Value)
               /\ due[Base + k] = Value[k]
            <4>1. Message \in AnyMessage
                BY <1>0, <3>4 DEF HandsOver, Message
            <4>2. Len(Value) \in Nat /\ Len(due) \in Nat
                BY <1>0, <4>1, ParseIs DEF Value
            <4> QED BY <3>4, <3>7, <4>2 DEF HandsOver, Base
        <3>11. \A i \in 1..Len(received') : i <= Len(due) /\ received'[i].value = due[i]
            <4>1. n + 1 = Base + k /\ n + 1 <= Len(due)
                BY <3>2, <3>7, <3>10
            <4>2. received'[n + 1].value = due[n + 1]
                BY <3>1, <3>2, <3>7, <3>10, <4>1
            <4>3. \A i \in 1..n : i <= Len(due) /\ received'[i].value = due[i]
                BY <1>a, <3>2
            <4> QED BY <3>2, <4>1, <4>2, <4>3
        <3>12. HasPut(t, k)'
            <4>1. Len(received') = Base + k - Waiting(t)'
                BY <3>2, <3>6, <3>7, <3>10
            <4>2. serial'[t].at = Cut(Message)[k + 1] /\ serial'[t].pc = "taken"
                BY <2>0, <3>5 DEF HasPut
            <4> QED BY <3>1, <3>7, <3>8, <3>9, <4>1, <4>2 DEF HasPut
        <3>13. HandsOver(t)'
            BY <2>0, <3>4, <3>8, <3>12 DEF HandsOver
        <3> QED BY <3>3, <3>4, <3>11, <3>13
    <2>3. CASE turn = "decode_store" /\ GuestClearStore
        <3>1. /\ UNCHANGED <<RXBUF, received>> /\ guest = "clear" /\ guest' = "tx"
              /\ IFG2' = flags_read \ {"RX"} /\ (raced => raced')
              /\ ~raced' => IFG2 = flags_read
            BY <1>0, <2>3 DEF GuestClearStore, StoreFlags, Instruction
        <3>2. Unread' = Unread
            BY <3>1 DEF Unread
        <3> QED BY <1>0, <2>0, <3>1, <3>2, DeliverFrame
    <2> QED BY <1>3, <2>1, <2>2, <2>3 DEF UartProgram, Guest, GuestSend
<1>4. CASE UsciTurn
    <2> USE DEF UnchangedByUsci, Main, StoreFlags
    <2>1. /\ UNCHANGED <<RXBUF, serial, sent, due, buffer, overlapped, guest, received>>
          /\ raced => raced'
          /\ ~raced' => ("RX" \in IFG2' <=> "RX" \in IFG2)
        <3>1. CASE UsciTest(SEL_2 /\ SEL2_2)
            BY <3>1 DEF UsciTest, uartVars
        <3>2. CASE UsciLoad \/ UsciSend
            BY <3>2 DEF UsciLoad, UsciSend
        <3>3. CASE UsciClear
            BY <1>0, <3>3 DEF UsciClear
        <3>4. CASE UsciSet
            BY <1>0, <3>4 DEF UsciSet
        <3> QED BY <1>4, <3>1, <3>2, <3>3, <3>4 DEF UsciTurn, handle_usci
    <2>2. ~raced' => Unread' = Unread
        BY <2>1 DEF Unread
    <2> QED BY <1>0, <1>a, <2>1, <2>2, DeliverFrame
<1>5. CASE SerialMessage
    <2> PICK t \in Serial, m \in AnyMessage : Receive(t, m)
        BY <1>5 DEF SerialMessage
    <2>1. /\ t = Len(sent) + 1 /\ sent' = Append(sent, m) /\ due' = due \o Meaning[m]
          /\ serial' = [serial EXCEPT ![t].pc = "wait"]
          /\ overlapped' = (overlapped \/ \E u \in Serial : Alive(u))
          /\ UNCHANGED <<IFG2, received, guest, raced>>
        BY DEF Receive
    <2>2. Len(sent') = Len(sent) + 1 /\ Len(sent) \in Nat
        BY <1>0, <2>1
    <2>3. /\ serial'[t].pc = "wait" /\ serial'[t].at = serial[t].at
          /\ \A u \in Serial : u # t => serial'[u] = serial[u]
        BY <1>0, <2>1 DEF SerialType
    <2>4. \A u \in Serial : u > Len(sent') => serial'[u].at = 1
        BY <1>0, <1>a, <2>1, <2>2, <2>3
    <2> SUFFICES ASSUME ~overlapped', ~raced'
                 PROVE  /\ \A i \in 1..Len(received) :
                               i <= Len(due') /\ received[i].value = due'[i]
                        /\ guest \in {"read", "clear"} => "RX" \in IFG2
                        /\ \E u \in Serial : Alive(u)'
                        /\ \A u \in Serial : Alive(u)' => HandsOver(u)'
        BY <2>1, <2>4 DEF DeliverInv
    <2>5. ~overlapped /\ ~raced /\ \A u \in Serial : ~Alive(u)
        BY <1>0, <2>1
    <2>6. "RX" \notin IFG2 /\ Len(received) = Len(due) /\ serial[t].at = 1
        BY <1>a, <1>0, <2>1, <2>2, <2>5
    <2>7. HandsOver(t)'
        BY <1>0, <2>6, HandsOverFirst
    <2>8. Alive(t)' /\ \A u \in Serial : Alive(u)' => u = t
        BY <2>3, <2>5 DEF Alive
    <2>9. \A i \in 1..Len(received) : i <= Len(due') /\ received[i].value = due'[i]
        <3> DEFINE v == Meaning[m]
        <3>1. v \in Seq(Characters) /\ due' = due \o v
            BY <2>1, ParseIs
        <3> HIDE DEF v
        <3>2. Len(due') >= Len(due) /\ Len(due) \in Nat /\ \A i \in 1..Len(due) : due'[i] = due[i]
            BY <1>0, <3>1
        <3>3. \A i \in 1..Len(received) : i <= Len(due) /\ received[i].value = due[i]
            BY <1>a, <2>5
        <3>4. Len(due') \in Nat
            BY <1>0, <3>1
        <3> QED BY <2>6, <3>2, <3>3, <3>4
    <2> QED BY <1>a, <2>5, <2>7, <2>8, <2>9
<1>6. ASSUME NEW t \in Serial, SerialThread(t) PROVE DeliverInv'
    <2>0. /\ thrd(t) /\ UNCHANGED <<sent, due, buffer, overlapped, received, guest>>
          /\ raced => raced'
        <3>1. thrd(t) /\ UNCHANGED <<sent, due, buffer, overlapped, received, guest>>
            BY <1>6 DEF SerialThread, thrd
        <3>2. CASE Store(t)
            BY <1>0, <3>1, <3>2 DEF Store, StoreFlags
        <3>3. CASE ~Store(t)
            <4>1. UNCHANGED raced
                BY <3>1, <3>3, Zenon DEF thrd, Wait, Decode, Put, Load, Check
            <4> QED BY <3>1, <4>1
        <3> QED BY <3>1, <3>2, <3>3
    <2>1. Alive(t) /\ \A u \in Serial : u # t => serial'[u] = serial[u]
        BY <1>0, <2>0, ThreadMoves
    <2>2. \A u \in Serial : u > Len(sent') => serial'[u].at = 1
        <3>1. t <= Len(sent) /\ Len(sent) \in Nat
            BY <1>0, <2>1 DEF OneThread
        <3> QED BY <1>0, <1>a, <2>0, <2>1, <3>1
    <2> SUFFICES ASSUME ~overlapped', ~raced'
                 PROVE  /\ \A i \in 1..Len(received) :
                               i <= Len(due) /\ received[i].value = due[i]
                        /\ guest \in {"read", "clear"} => "RX" \in IFG2'
                        /\ (\A u \in Serial : ~Alive(u)') =>
                               "RX" \notin IFG2' /\ Len(received) = Len(due)
                        /\ \A u \in Serial : Alive(u)' => HandsOver(u)'
        BY <2>0, <2>2 DEF DeliverInv
    <2>3. ~overlapped /\ ~raced /\ \A u \in Serial : Alive(u) => u = t
        BY <2>0, <2>1 DEF OneThread
    <2>4. \A u \in Serial : Alive(u)' => u = t
        BY <2>1, <2>3 DEF Alive
    <2>5. HandsOver(t) /\ (guest \in {"read", "clear"} => "RX" \in IFG2)
        BY <1>a, <2>1, <2>3
    <2> PICK k \in 0..Len(Value) : HasPut(t, k)
        BY <2>5 DEF HandsOver
    <2>6. \/ Alive(t)' /\ \E h \in 0..Len(Value) : HasPut(t, h)'
          \/ /\ serial'[t].pc = "done" /\ "RX" \notin IFG2'
             /\ Len(received) = Base + Len(Value)
        BY <1>0, <2>0, <2>5, HasPutStep DEF HandsOver
    <2>7. Message' = Message /\ Value' = Value /\ Base' = Base
        BY <2>0 DEF Message, Value, Base
    <2>8. "RX" \in IFG2 => "RX" \in IFG2'
        <3>1. CASE Store(t)
            BY <3>1 DEF Store, StoreFlags
        <3>2. CASE ~Store(t)
            BY <2>0, <3>2, Zenon DEF thrd, Wait, Decode, Put, Load, Check
        <3> QED BY <3>1, <3>2
    <2>9. CASE Alive(t)'
        <3>1. \E h \in 0..Len(Value) : HasPut(t, h)'
            BY <2>6, <2>9 DEF Alive
        <3>2. HandsOver(t)'
            BY <2>0, <2>5, <2>7, <3>1 DEF HandsOver
        <3> QED BY <1>a, <2>3, <2>4, <2>5, <2>8, <2>9, <3>2
    <2>10. CASE ~Alive(t)'
        <3>1. Len(received) = Len(due) /\ "RX" \notin IFG2'
            <4>1. Message \in AnyMessage
                BY <1>0, <2>5 DEF HandsOver, Message
            <4>2. Len(Value) \in Nat /\ Len(due) \in Nat
                BY <1>0, <4>1, ParseIs DEF Value
            <4>3. Base + Len(Value) = Len(due)
                BY <4>2 DEF Base
            <4>4. "RX" \notin IFG2' /\ Len(received) = Base + Len(Value)
                BY <2>6, <2>10
            <4> QED BY <4>3, <4>4
        <3> QED BY <1>a, <2>3, <2>4, <2>5, <2>8, <2>10, <3>1
    <2> QED BY <2>9, <2>10
<1> QED BY <1>1, <1>2, <1>3, <1>4, <1>5, <1>6, Steps

(* What the guest receives is what the messages stand for, character by    *)
(* character, when messages come one at a time and no store to IFG2 undoes *)
(* another thread's: for every encoding of every message, the thread finds *)
(* the parts that the page has written, and stops at the last.             *)
THEOREM MessagesAreWhole == Spec => []DeliveredWhole
<1>1. Init => DeliverInv
    <2> SUFFICES ASSUME Init PROVE DeliverInv
        OBVIOUS
    <2>1. /\ \A t \in Serial : serial[t].pc = "none" /\ serial[t].at = 1
          /\ received = <<>> /\ due = <<>> /\ IFG2 = {"TX"} /\ guest = "select"
        BY DEF Init, UartInit
    <2> QED BY <2>1 DEF DeliverInv, Alive
<1>2. PeripheralsTypeOK /\ DeliverInv => DeliveredWhole
    <2> SUFFICES ASSUME PeripheralsTypeOK, DeliverInv, ~overlapped, ~raced,
                        \A t \in Serial : ~Alive(t)
                 PROVE  [i \in DOMAIN received |-> received[i].value] = due
        BY DEF DeliveredWhole
    <2>1. due \in Seq(Characters) /\ received \in Seq([put : Nat, value : Characters])
        BY DEF PeripheralsTypeOK, UartTypeOK
    <2>2. Len(received) = Len(due) /\ \A i \in 1..Len(received) : received[i].value = due[i]
        BY DEF DeliverInv
    <2>3. DOMAIN received = 1..Len(received) /\ DOMAIN due = 1..Len(due)
        BY <2>1
    <2>4. due = [i \in DOMAIN due |-> due[i]]
        BY <2>1
    <2> QED BY <2>2, <2>3, <2>4, Zenon
<1>3. PeripheralsTypeOK /\ OneThread /\ ReceiveInv /\ DeliverInv /\ [Next]_vars => DeliverInv'
    BY DeliverStep
<1> QED BY <1>1, <1>2, <1>3, TypeCorrect, UartInvariant, PTL DEF Spec

-----------------------------------------------------------------------------
(* The LEDs                                                                *)

\* p1_n_on is the packet sent last, and the level in the flag was copied since
\* that packet if it differs.
LedInv == on = led /\ \A p \in Pins : OUT[p] # led[p] => OUT[p] \in driven[p]

Driven == \A p \in Pins : led'[p] # led[p] => led'[p] \in driven[p]

LEMMA LedStep ==
    ASSUME PeripheralsTypeOK, LedInv, [Next]_vars
    PROVE  LedInv' /\ Driven
<1> USE DEF LedInv, Driven, port1Vars, registers, flags, webVars
<1>0. /\ DIR \in [Pins -> BOOLEAN] /\ OUT \in [Pins -> BOOLEAN] /\ polled \in Pins /\ pin \in Pins
      /\ on \in [Pins -> BOOLEAN] /\ led \in [Pins -> BOOLEAN]
      /\ driven \in [Pins -> SUBSET BOOLEAN]
    BY DEF PeripheralsTypeOK, Port1TypeOK
<1>1. CASE UNCHANGED <<on, led, OUT, driven>>
    BY <1>1
<1>2. CASE CopyOut
    <2>1. OUT' = [OUT EXCEPT ![pin] = pin \in P1OUT] /\ UNCHANGED <<on, led>>
          /\ driven' = [driven EXCEPT ![pin] = @ \cup {pin \in P1OUT}]
        BY <1>2 DEF CopyOut
    <2>2. OUT'[pin] = (pin \in P1OUT) /\ driven'[pin] = driven[pin] \cup {pin \in P1OUT}
        BY <1>0, <2>1
    <2>3. \A p \in Pins : p # pin => OUT'[p] = OUT[p] /\ driven'[p] = driven[p]
        BY <1>0, <2>1
    <2> QED BY <2>1, <2>2, <2>3
<1>3. ASSUME NEW level \in BOOLEAN, OUT[polled] = level, led[polled] # level,
             on' = [on EXCEPT ![polled] = level], Send(level), UNCHANGED OUT
      PROVE  LedInv' /\ Driven
    <2>1. on'[polled] = level /\ led'[polled] = level
        BY <1>0, <1>3 DEF Send
    <2>2. \A p \in Pins : p # polled => on'[p] = on[p] /\ led'[p] = led[p] /\ driven'[p] = driven[p]
        BY <1>0, <1>3 DEF Send
    <2>3. on' \in [Pins -> BOOLEAN] /\ led' \in [Pins -> BOOLEAN]
        BY <1>0, <1>3 DEF Send
    <2>4. on' = led'
        BY <1>0, <2>1, <2>2, <2>3
    <2> QED BY <1>0, <1>3, <2>1, <2>2, <2>4
<1>4. CASE PollHigh
    BY <1>0, <1>1, <1>3, <1>4 DEF PollHigh
<1>5. CASE PollLow
    BY <1>0, <1>1, <1>3, <1>5 DEF PollLow
<1> QED BY <1>1, <1>2, <1>4, <1>5
        DEF Next, MainThread, decode, ServoProgram, LedProgram, LedStore, SelectProgram, SelectStore,
            UartProgram, OtherInstruction, ClockTurn, Port1Turn, handle_port_1, CopyDirection,
            UsciTurn, WaitTurn, LedCallback, Poll, PollStart, PollDirection, SerialMessage,
            SerialThread, vars

(* The browser is shown no level that the guest did not drive on that pin. *)
THEOREM ShownWereDriven == Spec => LevelsWereDriven
<1>1. Init => LedInv
    BY DEF Init, Port1Init, LedInv
<1>2. PeripheralsTypeOK /\ LedInv /\ [Next]_vars => [Driven]_<<led, driven>>
    BY LedStep
<1>3. LevelsWereDriven <=> [][Driven]_<<led, driven>>
    BY DEF LevelsWereDriven, Driven
<1> QED BY <1>1, <1>2, <1>3, TypeCorrect, LedStep, PTL DEF Spec

-----------------------------------------------------------------------------
(* The clock and the servo                                                 *)

LEMMA MulLess ==
    ASSUME NEW m \in Nat, NEW n \in Nat, NEW z \in Nat \ {0}
    PROVE  m < n <=> m * z < n * z
<1>1. ASSUME NEW i \in Nat, NEW j \in Nat, i < j PROVE i * z < j * z
    <2> PICK d \in Nat \ {0} : j = i + d
        <3>1. j - i \in Nat \ {0} /\ j = i + (j - i)
            BY <1>1
        <3> QED BY <3>1
    <2>1. j * z = i * z + d * z
        OBVIOUS
    <2>2. d * z > 0 /\ i * z \in Nat /\ d * z \in Nat
        OBVIOUS
    <2> QED BY <2>1, <2>2
<1>2. CASE m < n
    BY <1>1, <1>2
<1>3. CASE n < m
    <2>1. n * z < m * z /\ n * z \in Nat /\ m * z \in Nat
        BY <1>1, <1>3
    <2> QED BY <1>3, <2>1
<1>4. CASE m = n
    <2>1. m * z = n * z /\ m * z \in Nat
        BY <1>4
    <2> QED BY <1>4, <2>1
<1> QED BY <1>2, <1>3, <1>4

\* Two equal quotients x / p and y / q are below the same bounds b / a.
LEMMA SameQuotient ==
    ASSUME NEW x \in Nat, NEW p \in Nat \ {0}, NEW y \in Nat, NEW q \in Nat \ {0},
           x * q = y * p, NEW a \in Nat, NEW b \in Nat
    PROVE  a * x < b * p <=> a * y < b * q
<1>1. a * x \in Nat /\ b * p \in Nat /\ a * y \in Nat /\ b * q \in Nat
    OBVIOUS
<1>2. a * x < b * p <=> (a * x) * q < (b * p) * q
    BY <1>1, MulLess
<1>3. a * y < b * q <=> (a * y) * p < (b * q) * p
    BY <1>1, MulLess
<1>4. (a * x) * q = a * (x * q) /\ (a * y) * p = a * (y * p)
    OBVIOUS
<1>5. (b * p) * q = (b * q) * p
    OBVIOUS
<1> QED BY <1>2, <1>3, <1>4, <1>5

\* ... and above the same bounds.
LEMMA BoundBelow ==
    ASSUME NEW x \in Nat, NEW p \in Nat \ {0}, NEW y \in Nat, NEW q \in Nat \ {0},
           x * q = y * p, NEW a \in Nat, NEW b \in Nat
    PROVE  a * p < b * x <=> a * q < b * y
<1>1. a * p \in Nat /\ b * x \in Nat /\ a * q \in Nat /\ b * y \in Nat
    OBVIOUS
<1>2. a * p < b * x <=> (a * p) * q < (b * x) * q
    BY <1>1, MulLess
<1>3. a * q < b * y <=> (a * q) * p < (b * y) * p
    BY <1>1, MulLess
<1>4. (b * x) * q = b * (x * q) /\ (b * y) * p = b * (y * p)
    OBVIOUS
<1>5. (a * p) * q = (a * q) * p
    OBVIOUS
<1> QED BY <1>2, <1>3, <1>4, <1>5

Tick == [count : Words, pulse : Words, freq : Nat]

\* What timer_a.c takes for the same setting moves the servo alike.
LEMMA SameSetting ==
    ASSUME NEW t \in Tick, NEW u \in Tick, ~Differs(t, u)
    PROVE  InRange(t) = InRange(u) /\ Angle(t) = Angle(u)
<1>1. /\ t.count \in Nat /\ t.pulse \in Nat /\ t.freq \in Nat \ {0}
      /\ u.count \in Nat /\ u.pulse \in Nat /\ u.freq \in Nat \ {0}
      /\ t.count * u.freq = u.count * t.freq /\ t.pulse * u.freq = u.pulse * t.freq
    BY WordsAre DEF Tick, Differs
<1>2. \A a, b \in Nat : a * t.count < b * t.freq <=> a * u.count < b * u.freq
    BY <1>1, SameQuotient
<1>3. \A a, b \in Nat : a * t.pulse < b * t.freq <=> a * u.pulse < b * u.freq
    BY <1>1, SameQuotient
<1>4. InRange(t) = InRange(u)
    <2>1. 4 * t.count < 75 * t.freq <=> 4 * u.count < 75 * u.freq
        BY <1>2
    <2>2. 4 * t.count <= 125 * t.freq <=> 4 * u.count <= 125 * u.freq
        <3>1. u.count * t.freq = t.count * u.freq
            BY <1>1
        <3>2. 125 * t.freq < 4 * t.count <=> 125 * u.freq < 4 * u.count
            <4> DEFINE x == t.count
                       p == t.freq
                       y == u.count
                       q == u.freq
            <4>1. x \in Nat /\ p \in Nat \ {0} /\ y \in Nat /\ q \in Nat \ {0} /\ x * q = y * p
                BY <1>1
            <4> HIDE DEF x, p, y, q
            <4>2. 125 * p < 4 * x <=> 125 * q < 4 * y
                BY <4>1, BoundBelow
            <4> QED BY <4>2 DEF x, p, y, q
        <3> QED BY <1>1, <3>2
    <2> QED BY <1>1, <2>1, <2>2 DEF InRange
<1>5. Angle(t) = Angle(u)
    <2>1. /\ 8 * t.pulse < 9 * t.freq <=> 8 * u.pulse < 9 * u.freq
          /\ 8 * t.pulse < 12 * t.freq <=> 8 * u.pulse < 12 * u.freq
          /\ 8 * t.pulse < 15 * t.freq <=> 8 * u.pulse < 15 * u.freq
          /\ 8 * t.pulse < 18 * t.freq <=> 8 * u.pulse < 18 * u.freq
          /\ 8 * t.pulse < 21 * t.freq <=> 8 * u.pulse < 21 * u.freq
        BY <1>3
    <2> QED BY <1>1, <2>1 DEF Angle
<1> QED BY <1>4, <1>5

Divider == <<1, 2, 4, 8>>[DIVMx + 1]

\* struct Bcm is what the registers ask for, but for mclk_freq.
UpToDate ==
    /\ mclk_div = Divider
    /\ \A k \in Selected : dco_freq = k[3]
    /\ mclk_source = "DCOCLK" => SELMx \in {0, 1}

\* In the first turn after a store handle_bcm brings the divider and the DCO up
\* to date, in the second mclk_freq; a turn that did not run off the DCO would
\* not end.
ClockInv ==
    /\ quiet >= 1 \/ turn = "timer_a" => UpToDate
    /\ quiet >= 1 /\ turn \in {"decode", "decode_store", "bcm", "timer_a"} => SELMx \in {0, 1}
    /\ quiet = 2 \/ (quiet = 1 /\ turn = "timer_a") =>
           mclk_freq = Quotient(dco_freq, Divider)
    /\ InRange(last) => servo = Angle(last)
    /\ quiet = 2 /\ Driving => last = Ticks(mclk_freq)

\* A step that leaves the clock and the timer alone.
ElsewhereInTurn ==
    /\ UNCHANGED clockVars
    /\ \/ turn' = turn
       \/ turn \in {"decode", "decode_store"} /\ turn' \in {"decode_store", "bcm"}
       \/ turn' \notin {"decode", "decode_store", "bcm", "timer_a"}

LEMMA ClockSteps ==
    ASSUME [Next]_vars
    PROVE  \/ Main("decode", "bcm") /\ ClockStore
           \/ handle_bcm
           \/ handle_timer_a
           \/ mclk_wait_cycles /\ UNCHANGED clockVars
           \/ ElsewhereInTurn
<1> USE DEF ElsewhereInTurn
<1>1. CASE decode
    BY <1>1 DEF decode, ServoProgram, LedProgram, SelectProgram, UartProgram, OtherInstruction, Main,
        Guest, GuestTest, GuestRead, GuestClearLoad, GuestClearStore, GuestSend, GuestWrite,
        Instruction
<1>2. CASE ClockTurn
    BY <1>2 DEF ClockTurn
<1>3. CASE Port1Turn
    BY <1>3 DEF Port1Turn, handle_port_1, CopyDirection, CopyOut, PinDone
<1>4. CASE UsciTurn
    BY <1>4 DEF UsciTurn, handle_usci, UsciTest, UsciLoad, UsciClear, UsciSend, UsciSet, Main
<1>5. CASE WaitTurn
    BY <1>5 DEF WaitTurn
<1>6. CASE LedCallback \/ SerialMessage \/ (\E t \in Serial : SerialThread(t)) \/ UNCHANGED vars
    BY <1>6 DEF LedCallback, SerialMessage, SerialThread, vars
<1> QED BY <1>1, <1>2, <1>3, <1>4, <1>5, <1>6 DEF Next, MainThread

\* The primes of what depends on the registers only.
LEMMA SameRegisters ==
    ASSUME UNCHANGED reg
    PROVE  /\ Divider' = Divider /\ Selected' = Selected /\ SELMx' = SELMx
           /\ Driving' = Driving
           /\ \A f : Ticks(f)' = Ticks(f)
BY DEF Divider, DIVMx, Selected, DCOx, RSELx, SELMx, Driving, CAP, MC0, Ticks

\* handle_timer_a clears bits of its own control register.
LEMMA TimerClears ==
    ASSUME ClockTypeOK, TA0CLR = 1, reg' = [reg EXCEPT !["TA0CTL"] = Cleared(@)]
    PROVE  /\ Divider' = Divider /\ Selected' = Selected /\ SELMx' = SELMx
           /\ ~Driving'
<1>1. /\ reg'["TA0CTL"] = Cleared(reg["TA0CTL"])
      /\ \A r \in ClockRegisters : r # "TA0CTL" => reg'[r] = reg[r]
    BY DEF ClockTypeOK, ClockRegisters
<1>2. /\ reg'["DCOCTL"] = reg["DCOCTL"] /\ reg'["BCSCTL1"] = reg["BCSCTL1"]
      /\ reg'["BCSCTL2"] = reg["BCSCTL2"]
    BY <1>1 DEF ClockRegisters, ByteRegisters
<1>3. \A v \in Nat : (Cleared(v) \div 16) % 4 = 0
    <2> TAKE v \in Nat
    <2> DEFINE h == v \div 256
               l == (v % 4) + 8 * ((v \div 8) % 2)
    <2>1. h \in Nat /\ l \in 0..11 /\ Cleared(v) = h * 256 + l
        BY DEF Cleared
    <2> HIDE DEF h, l
    <2>2. (h * 256 + l) \div 16 = h * 16
        BY <2>1
    <2>3. (h * 16) % 4 = 0
        BY <2>1
    <2> QED BY <2>1, <2>2, <2>3
<1>4. reg["TA0CTL"] \in Nat
    BY WordsAre DEF ClockTypeOK, ClockRegisters
<1>5. ~Driving'
    BY <1>1, <1>3, <1>4 DEF Driving, MC0, UP_MODE
<1> QED BY <1>2, <1>5 DEF Divider, DIVMx, Selected, DCOx, RSELx, SELMx

\* No two known settings have the same bits.
LEMMA OneSelected ==
    \A j, k \in Selected : j[3] = k[3]
BY DEF Selected, KnownDco

LEMMA ClockInvStep ==
    ASSUME PeripheralsTypeOK, ClockInv, [Next]_vars
    PROVE  ClockInv'
<1>0. ClockTypeOK /\ ClockTypeOK'
    BY TypeStep DEF PeripheralsTypeOK
<1>1. CASE Main("decode", "bcm") /\ ClockStore
    <2>1. quiet' = 0 /\ turn' = "bcm" /\ UNCHANGED <<last, servo>>
        BY <1>1 DEF Main, ClockStore
    <2> QED BY <2>1 DEF ClockInv, InRange, Angle
<1>2. CASE handle_bcm
    <2>1. /\ turn = "bcm" /\ turn' = "timer_a" /\ UNCHANGED <<reg, last, servo, quiet>>
          /\ mclk_div' = Divider
          /\ mclk_freq' = IF SELMx \in {0, 1} THEN Quotient(dco_freq, mclk_div) ELSE mclk_freq
        BY <1>2 DEF handle_bcm, Main, Divider
    <2>2. \A k \in Selected : dco_freq' = k[3]
        BY <1>2, OneSelected DEF handle_bcm
    <2>3. mclk_source' = "DCOCLK" => SELMx \in {0, 1}
        <3>1. SELMx \in 0..3
            BY <1>0, WordsAre DEF SELMx, ClockRegisters, ByteRegisters, ClockTypeOK
        <3> QED BY <1>2, <3>1 DEF handle_bcm
    <2>4. UpToDate'
        BY <2>1, <2>2, <2>3, SameRegisters DEF UpToDate
    <2>5. ASSUME quiet >= 1
          PROVE  dco_freq' = dco_freq /\ mclk_freq' = Quotient(dco_freq, Divider) /\ SELMx \in {0, 1}
        <3>1. UpToDate /\ SELMx \in {0, 1}
            BY <2>1, <2>5 DEF ClockInv
        <3>2. dco_freq' = dco_freq
            BY <1>2, <3>1 DEF handle_bcm, UpToDate
        <3> QED BY <2>1, <3>1, <3>2 DEF UpToDate
    <2>6. quiet = 2 => mclk_freq = Quotient(dco_freq, Divider) /\ quiet >= 1
        BY DEF ClockInv
    <2>7. quiet = 1 => quiet >= 1
        OBVIOUS
    <2>8. ASSUME quiet = 2, Driving PROVE last = Ticks(mclk_freq)' /\ Driving
        BY <2>1, <2>5, <2>6, <2>8 DEF ClockInv, Ticks
    <2>9. UNCHANGED <<InRange(last), Angle(last)>>
        BY <2>1 DEF InRange, Angle
    <2> QED BY <2>1, <2>4, <2>5, <2>6, <2>7, <2>8, <2>9, SameRegisters DEF ClockInv
<1>3. CASE handle_timer_a
    <2> DEFINE now == Ticks(mclk_freq)
    <2>1. /\ turn = "timer_a" /\ turn' = "port_1"
          /\ UNCHANGED <<dco_freq, mclk_source, mclk_div, mclk_freq>>
          /\ reg' = IF TA0CLR = 1 THEN [reg EXCEPT !["TA0CTL"] = Cleared(@)] ELSE reg
          /\ servo' = IF Driving /\ Differs(last, now) /\ InRange(now) THEN Angle(now) ELSE servo
          /\ last' = IF Driving THEN now ELSE last
          /\ quiet' = IF quiet < 2 THEN quiet + 1 ELSE 2
        BY <1>3 DEF handle_timer_a, Main
    <2>2. Divider' = Divider /\ Selected' = Selected /\ SELMx' = SELMx
        BY <1>0, <2>1, SameRegisters, TimerClears
    <2>3. Driving' => reg' = reg /\ Driving
        BY <1>0, <2>1, TimerClears, SameRegisters
    <2>4. UpToDate'
        BY <2>1, <2>2 DEF ClockInv, UpToDate
    <2>5. quiet' = 2 => mclk_freq' = Quotient(dco_freq', Divider')
        <3>1. quiet' = 2 => quiet = 1 \/ quiet = 2
            BY <1>0, <2>1 DEF ClockTypeOK
        <3> QED BY <2>1, <2>2, <3>1 DEF ClockInv
    <2>6. Driving' => last' = Ticks(mclk_freq)'
        BY <2>1, <2>3, SameRegisters DEF Ticks
    <2>7. InRange(last') => servo' = Angle(last')
        <3>1. last \in Tick /\ now \in Tick
            BY <1>0, WordsAre DEF ClockTypeOK, Ticks, Tick, ClockRegisters
        <3> HIDE DEF now
        <3>2. CASE Driving /\ ~Differs(last, now)
            BY <2>1, <3>1, <3>2, SameSetting DEF ClockInv
        <3>3. CASE ~Driving
            BY <2>1, <3>3 DEF ClockInv
        <3>4. CASE Driving /\ Differs(last, now)
            BY <2>1, <3>4
        <3> QED BY <3>2, <3>3, <3>4
    <2>8. (InRange(last) => servo = Angle(last))'
        BY <2>7 DEF InRange, Angle
    <2> QED BY <2>1, <2>4, <2>5, <2>6, <2>8 DEF ClockInv, Quotient
<1>4. CASE mclk_wait_cycles /\ UNCHANGED clockVars
    <2>1. /\ turn = "wait" /\ turn' = IF mclk_source = "DCOCLK" THEN "decode" ELSE "wait"
          /\ UNCHANGED <<reg, dco_freq, mclk_source, mclk_div, mclk_freq, last, servo, quiet>>
        BY <1>4 DEF mclk_wait_cycles, clockVars
    <2> QED BY <2>1, SameRegisters DEF ClockInv, UpToDate, InRange, Angle, Quotient, Ticks
<1>5. CASE ElsewhereInTurn
    <2>1. UNCHANGED <<reg, dco_freq, mclk_source, mclk_div, mclk_freq, last, servo, quiet>>
        BY <1>5 DEF ElsewhereInTurn, clockVars
    <2> QED BY <1>5, <2>1, SameRegisters
            DEF ElsewhereInTurn, ClockInv, UpToDate, InRange, Angle, Quotient, Ticks
<1> QED BY <1>1, <1>2, <1>3, <1>4, <1>5, ClockSteps

\* The bytes in info memory select the frequency they are for.
LEMMA CalibrationIsKnown ==
    ASSUME NEW c \in Calibrated
    PROVE  \E k \in Selected : k[3] = c[3]
<1>1. c \in Calibration /\ c[1] = reg["DCOCTL"] /\ c[2] = reg["BCSCTL1"]
    BY DEF Calibrated
<1>2. CASE c = <<149, 143, 12800>>
    <2>1. DCOx = 4 /\ RSELx = 15
        BY <1>1, <1>2 DEF DCOx, RSELx
    <2>2. <<4, 15, 12800>> \in Selected
        BY <2>1 DEF Selected, KnownDco
    <2>3. c[3] = 12800
        BY <1>2
    <2> QED BY <2>2, <2>3
<1>3. CASE c = <<158, 142, 9600>>
    <2>1. DCOx = 4 /\ RSELx = 14
        BY <1>1, <1>3 DEF DCOx, RSELx
    <2>2. <<4, 14, 9600>> \in Selected
        BY <2>1 DEF Selected, KnownDco
    <2>3. c[3] = 9600
        BY <1>3
    <2> QED BY <2>2, <2>3
<1>4. CASE c = <<146, 141, 6400>>
    <2>1. DCOx = 4 /\ RSELx = 13
        BY <1>1, <1>4 DEF DCOx, RSELx
    <2>2. <<4, 13, 6400>> \in Selected
        BY <2>1 DEF Selected, KnownDco
    <2>3. c[3] = 6400
        BY <1>4
    <2> QED BY <2>2, <2>3
<1>5. CASE c = <<209, 134, 800>>
    <2>1. DCOx = 6 /\ RSELx = 6
        BY <1>1, <1>5 DEF DCOx, RSELx
    <2>2. <<6, 6, 800>> \in Selected
        BY <2>1 DEF Selected, KnownDco
    <2>3. c[3] = 800
        BY <1>5
    <2> QED BY <2>2, <2>3
<1> QED BY <1>1, <1>2, <1>3, <1>4, <1>5 DEF Calibration

(* Two turns after the guest's last store the servo stands where the       *)
(* registers put it, for every sequence of stores: handle_bcm lags a turn  *)
(* behind the divider and the DCO, and a turn that did not start a packet  *)
(* had a setting of the same angle.                                        *)
THEOREM ServoFollows == Spec => []ServoShowsSettings
<1>1. Init => ClockInv
    BY DEF Init, ClockInit, ClockInv, InRange
<1>2. PeripheralsTypeOK /\ ClockInv => ServoShowsSettings
    <2> SUFFICES ASSUME ClockTypeOK, ClockInv, quiet = 2, Driving, InRange(Ticks(AskedFrequency))
                 PROVE  servo = Angle(Ticks(AskedFrequency))
        BY DEF PeripheralsTypeOK, ServoShowsSettings
    <2>1. UpToDate /\ mclk_freq = Quotient(dco_freq, Divider) /\ last = Ticks(mclk_freq)
        BY DEF ClockInv
    <2>2. AskedFrequency = mclk_freq
        <3>1. CASE Calibrated = {}
            BY <2>1, <3>1 DEF AskedFrequency, Divider
        <3>2. CASE Calibrated # {}
            <4> DEFINE c == CHOOSE c \in Calibrated : TRUE
            <4>1. c \in Calibrated
                BY <3>2
            <4>2. AskedFrequency = Quotient(c[3], Divider)
                BY <3>2 DEF AskedFrequency, Divider
            <4> HIDE DEF c
            <4>3. dco_freq = c[3]
                BY <2>1, <4>1, CalibrationIsKnown DEF UpToDate
            <4> QED BY <2>1, <4>2, <4>3
        <3> QED BY <3>1, <3>2
    <2> QED BY <2>1, <2>2 DEF ClockInv
<1> QED BY <1>1, <1>2, TypeCorrect, ClockInvStep, PTL DEF Spec
=============================================================================
