------------------------------ MODULE MainLoop ------------------------------
(***************************************************************************)
(* The turn of the main thread (main.cpp:89-112) while the machine runs:   *)
(* one guest instruction, the four peripheral handlers in a fixed order,   *)
(* and the wait for the clock.  Every module of a peripheral extends this  *)
(* one; Peripherals composes them.                                         *)
(***************************************************************************)

VARIABLE turn    \* the statement of the turn the main thread is at

MainLabels == {"decode", "decode_store", "bcm", "timer_a", "port_1", "port_1_out",
               "usci", "usci_load", "usci_clear", "usci_send", "usci_set", "wait"}

Main(label, next) == turn = label /\ turn' = next
=============================================================================
