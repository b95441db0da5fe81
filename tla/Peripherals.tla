---------------------------- MODULE Peripherals ----------------------------
(***************************************************************************)
(* The running machine: the main thread's turns (main.cpp:89-112) with the *)
(* clock, Timer_A, port 1 and the UART, the web thread's polling of port 1 *)
(* and its serial messages, and the threads these start.                   *)
(*                                                                         *)
(* External: the guest.  firmware says which of the peripherals it works   *)
(* with; its stores are bounded by MaxStores.                              *)
(***************************************************************************)
EXTENDS Clock, Port1, Uart

CONSTANTS Firmware, MaxStores
Programs == {"servo", "leds", "uart"}
ASSUME PeripheralsAssumption ==
    Firmware \subseteq Programs /\ MaxStores \in [Programs -> Nat]

VARIABLES
    firmware,   \* the program in the guest's memory
    left        \* bound: the stores it still makes

vars == <<turn, clockVars, port1Vars, uartVars, firmware, left>>

Init ==
    /\ turn = "decode"
    /\ ClockInit /\ Port1Init /\ UartInit
    /\ firmware \in Firmware /\ left = MaxStores[firmware]

\* A store by one of the guest's instructions.
Bounded == left > 0 /\ left' = left - 1

ServoProgram ==
    /\ firmware = "servo" /\ Main("decode", "bcm") /\ Bounded
    /\ ClockStore
    /\ UNCHANGED <<port1Vars, uartVars, firmware>>

LedProgram ==
    /\ firmware = "leds" /\ Main("decode", "bcm") /\ Bounded
    /\ LedStore
    /\ UNCHANGED <<clockVars, uartVars, firmware>>

\* The UART program first selects P1.2 for it, by two stores.
SelectProgram ==
    /\ firmware = "uart" /\ guest = "select" /\ Main("decode", "bcm")
    /\ SelectStore
    /\ guest' = IF P1SEL' # {} /\ P1SEL2' # {} THEN "rx" ELSE "select"
    /\ UNCHANGED <<clockVars, registersU, browserVars, serial, puts, received,
                   written, transmitted, raced, firmware, left>>

UartProgram ==
    /\ firmware = "uart"
    /\ \/ Guest(left) /\ UNCHANGED left
       \/ GuestSend /\ Bounded
    /\ UNCHANGED <<clockVars, port1Vars, firmware>>

\* An instruction that touches no peripheral.
OtherInstruction ==
    /\ firmware # "uart" /\ Main("decode", "bcm")
    /\ UNCHANGED <<clockVars, port1Vars, uartVars, firmware, left>>

decode == ServoProgram \/ LedProgram \/ SelectProgram \/ UartProgram \/ OtherInstruction

ClockTurn ==
    /\ handle_bcm \/ handle_timer_a
    /\ UNCHANGED <<port1Vars, uartVars, firmware, left>>

Port1Turn ==
    /\ handle_port_1
    /\ UNCHANGED <<clockVars, uartVars, firmware, left>>

UsciTurn ==
    /\ handle_usci(SEL_2 /\ SEL2_2)
    /\ UNCHANGED <<clockVars, port1Vars, firmware, left>>

WaitTurn ==
    /\ mclk_wait_cycles
    /\ UNCHANGED <<clockVars, port1Vars, uartVars, firmware, left>>

MainThread == decode \/ ClockTurn \/ Port1Turn \/ UsciTurn \/ WaitTurn

\* Bound: under the other programs no pin is an output and it does nothing.
LedCallback ==
    /\ firmware = "leds" /\ Poll
    /\ UNCHANGED <<turn, clockVars, uartVars, firmware, left>>

SerialMessage ==
    /\ firmware = "uart"
    /\ \E t \in Serial, m \in AnyMessage : Receive(t, m)
    /\ UNCHANGED <<turn, clockVars, port1Vars, firmware, left>>

SerialThread(t) ==
    /\ thrd(t)
    /\ UNCHANGED <<turn, clockVars, port1Vars, firmware, left>>

Next ==
    \/ MainThread \/ LedCallback \/ SerialMessage
    \/ \E t \in Serial : SerialThread(t)

\* Every thread is scheduled; the library calls the writeable callback again
\* each time it asks to be.  The browser need not send anything.
Fairness ==
    /\ WF_vars(MainThread) /\ WF_vars(LedCallback)
    /\ \A t \in Serial : WF_vars(SerialThread(t))

Spec == Init /\ [][Next]_vars /\ Fairness

-----------------------------------------------------------------------------
PeripheralsTypeOK ==
    /\ turn \in MainLabels
    /\ ClockTypeOK /\ Port1TypeOK /\ UartTypeOK
    /\ firmware \in Firmware /\ left \in 0..MaxStores[firmware]
=============================================================================
