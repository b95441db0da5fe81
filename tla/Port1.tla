------------------------------- MODULE Port1 -------------------------------
(***************************************************************************)
(* Port 1 (port1.c) and the LED packets (the LWS_CALLBACK_SERVER_WRITEABLE *)
(* case of emu_server.cpp).  The main thread copies the guest's registers  *)
(* into flags, pin by pin; the web thread polls the flags, pin by pin, and *)
(* sends a packet when one differs from what it sent last.  Nothing is     *)
(* locked: an action is one access to a shared flag.                       *)
(*                                                                         *)
(* Left out: the interrupt flags and the select flags of the pins other    *)
(* than P1.2, which nothing reads.  The packets go to the queue, a FIFO    *)
(* (PacketQueue); led is what the browser shows after the last one.        *)
(***************************************************************************)
EXTENDS MainLoop, Naturals

CONSTANT Pins
ASSUME PinsAssumption == Pins \subseteq 0..7 /\ 2 \in Pins

VARIABLES
    P1DIR, P1OUT, P1SEL, P1SEL2,  \* the guest's registers: the pins whose bit is set
    DIR, OUT,                     \* p->DIR_n and p->OUT_n
    SEL_2, SEL2_2,                \* p->SEL_2 and p->SEL2_2
    pin,                          \* the pin handle_port_1 is at
    poll, polled,                 \* the web thread: its statement, and the pin it is at
    on,                           \* the callback's static p1_n_on
    led,                          \* history: the last packet sent for each pin
    driven                        \* history: the levels copied since that packet

registers == <<P1DIR, P1OUT, P1SEL, P1SEL2>>
flags == <<DIR, OUT, SEL_2, SEL2_2, pin>>
webVars == <<poll, polled, on, led>>
port1Vars == <<registers, flags, webVars, driven>>

After(p) == {q \in Pins : q > p}
FirstPin == CHOOSE p \in Pins : \A q \in Pins : p <= q
NextPin(p) == CHOOSE q \in After(p) : \A r \in After(p) : q <= r

\* setup_port_1
Port1Init ==
    /\ P1DIR = {} /\ P1OUT = {} /\ P1SEL = {} /\ P1SEL2 = {}
    /\ DIR = [p \in Pins |-> FALSE] /\ OUT = [p \in Pins |-> FALSE]
    /\ SEL_2 = FALSE /\ SEL2_2 = FALSE
    /\ pin = FirstPin
    /\ poll = "idle" /\ polled = FirstPin
    /\ on = [p \in Pins |-> FALSE]
    /\ led = [p \in Pins |-> FALSE]
    /\ driven = [p \in Pins |-> {}]

\* Instructions of the guest that store to the port's registers.
LedStore ==
    /\ \/ P1DIR' \in SUBSET Pins /\ UNCHANGED P1OUT
       \/ P1OUT' \in SUBSET Pins /\ UNCHANGED P1DIR
    /\ UNCHANGED <<P1SEL, P1SEL2, flags, webVars, driven>>

SelectStore ==
    /\ \/ P1SEL = {} /\ P1SEL' = {2} /\ UNCHANGED P1SEL2
       \/ P1SEL2 = {} /\ P1SEL2' = {2} /\ UNCHANGED P1SEL
    /\ UNCHANGED <<P1DIR, P1OUT, flags, webVars, driven>>

-----------------------------------------------------------------------------
(* handle_port_1, on the main thread                                       *)

\* On to the next pin, or to the next handler.
PinDone ==
    /\ SEL_2' = IF pin = 2 THEN 2 \in P1SEL ELSE SEL_2
    /\ SEL2_2' = IF pin = 2 THEN 2 \in P1SEL2 ELSE SEL2_2
    /\ IF After(pin) = {} THEN pin' = FirstPin /\ turn' = "usci"
                          ELSE pin' = NextPin(pin) /\ turn' = "port_1"

CopyDirection ==
    /\ turn = "port_1"
    /\ DIR' = [DIR EXCEPT ![pin] = pin \in P1DIR]
    /\ IF pin \in P1DIR THEN turn' = "port_1_out" /\ UNCHANGED <<pin, SEL_2, SEL2_2>>
                        ELSE PinDone
    /\ UNCHANGED <<registers, OUT, webVars, driven>>

CopyOut ==
    /\ turn = "port_1_out"
    /\ OUT' = [OUT EXCEPT ![pin] = pin \in P1OUT]
    /\ driven' = [driven EXCEPT ![pin] = @ \cup {pin \in P1OUT}]
    /\ PinDone
    /\ UNCHANGED <<registers, DIR, webVars>>

handle_port_1 == CopyDirection \/ CopyOut

-----------------------------------------------------------------------------
(* The writeable callback, on the web thread                               *)

PollNext ==
    IF After(polled) = {} THEN poll' = "idle" /\ polled' = FirstPin
                          ELSE poll' = "dir" /\ polled' = NextPin(polled)

\* The library calls back again and again: the callback asks it to each time.
PollStart ==
    /\ poll = "idle"
    /\ poll' = "dir"
    /\ UNCHANGED <<registers, flags, polled, on, led, driven>>

\* if (p1->DIR_n == OUT)
PollDirection ==
    /\ poll = "dir"
    /\ IF DIR[polled] THEN poll' = "high" /\ UNCHANGED polled ELSE PollNext
    /\ UNCHANGED <<registers, flags, on, led, driven>>

Send(level) ==
    /\ led' = [led EXCEPT ![polled] = level]
    /\ driven' = [driven EXCEPT ![polled] = {}]

\* Mutants: the copy of the code for another pin still reads the first pin's
\* flag, and p1_n_on is not reset.
MutantPollHigh ==
    /\ poll = "high"
    /\ IF OUT[FirstPin] THEN
            /\ PollNext
            /\ IF on[polled] THEN UNCHANGED <<on, led, driven>>
                             ELSE on' = [on EXCEPT ![polled] = TRUE] /\ Send(TRUE)
       ELSE poll' = "low" /\ UNCHANGED <<polled, on, led, driven>>
    /\ UNCHANGED <<registers, flags>>
MutantPollLow ==
    /\ poll = "low"
    /\ PollNext
    /\ IF ~OUT[polled] /\ on[polled] THEN UNCHANGED on /\ Send(FALSE)
                                     ELSE UNCHANGED <<on, led, driven>>
    /\ UNCHANGED <<registers, flags>>

\* if (p1->OUT_n == HIGH)
PollHigh ==
    /\ poll = "high"
    /\ IF OUT[polled] THEN
            /\ PollNext
            /\ IF on[polled] THEN UNCHANGED <<on, led, driven>>
                             ELSE on' = [on EXCEPT ![polled] = TRUE] /\ Send(TRUE)
       ELSE poll' = "low" /\ UNCHANGED <<polled, on, led, driven>>
    /\ UNCHANGED <<registers, flags>>

\* else if (p1->OUT_n == LOW): the flag is read again
PollLow ==
    /\ poll = "low"
    /\ PollNext
    /\ IF ~OUT[polled] /\ on[polled] THEN on' = [on EXCEPT ![polled] = FALSE] /\ Send(FALSE)
                                     ELSE UNCHANGED <<on, led, driven>>
    /\ UNCHANGED <<registers, flags>>

Poll == PollStart \/ PollDirection \/ PollHigh \/ PollLow

-----------------------------------------------------------------------------
Port1TypeOK ==
    /\ P1DIR \subseteq Pins /\ P1OUT \subseteq Pins
    /\ P1SEL \subseteq Pins /\ P1SEL2 \subseteq Pins
    /\ DIR \in [Pins -> BOOLEAN] /\ OUT \in [Pins -> BOOLEAN]
    /\ SEL_2 \in BOOLEAN /\ SEL2_2 \in BOOLEAN
    /\ pin \in Pins /\ polled \in Pins
    /\ poll \in {"idle", "dir", "high", "low"}
    /\ on \in [Pins -> BOOLEAN] /\ led \in [Pins -> BOOLEAN]
    /\ driven \in [Pins -> SUBSET BOOLEAN]

(* A packet tells of a level that the guest drove on that very pin since   *)
(* the packet before: the browser never sees a blink more than there was,  *)
(* although it may see a level the guest has left, on a pin whose          *)
(* direction flag has just been raised before its level is copied.         *)
LevelsWereDriven ==
    [][\A p \in Pins : led'[p] # led[p] => led'[p] \in driven[p]]_<<led, driven>>

\* Every output pin is shown at its level.
Shown == \A p \in P1DIR : led[p] = (p \in P1OUT)

(* Once the guest leaves the port alone, every output pin comes to be      *)
(* shown at its level, and stays so.                                       *)
LedsSettle == <>[]Shown
=============================================================================
