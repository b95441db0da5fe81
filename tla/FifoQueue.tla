----------------------------- MODULE FifoQueue -----------------------------
(***************************************************************************)
(* What the packet queue promises its callers (packet_queue.c and the      *)
(* LWS_CALLBACK_SERVER_WRITEABLE case of emu_server.cpp): packets leave    *)
(* for the browser one at a time, whole, in the order they were queued,    *)
(* and every queued packet leaves.                                         *)
(*                                                                         *)
(* The promise ends when two threads have met inside the lock: from then   *)
(* on the queue is broken and nothing is said of its contents.             *)
(***************************************************************************)
EXTENDS Sequences

CONSTANTS Items, None

VARIABLES
    queue,    \* the packets waiting
    hand,     \* the packet taken off the queue and not sent yet, or None
    out,      \* the packets given to lws_write
    broken

fifoVars == <<queue, hand, out, broken>>

FifoInit == queue = <<>> /\ hand = None /\ out = <<>> /\ broken = FALSE

Put(x) ==
    /\ ~broken
    /\ queue' = Append(queue, x)
    /\ UNCHANGED <<hand, out, broken>>

Take ==
    /\ ~broken
    /\ hand = None
    /\ queue # <<>>
    /\ hand' = Head(queue)
    /\ queue' = Tail(queue)
    /\ UNCHANGED <<out, broken>>

Send ==
    /\ ~broken
    /\ hand # None
    /\ out' = Append(out, hand)
    /\ hand' = None
    /\ UNCHANGED <<queue, broken>>

Break ==
    /\ ~broken
    /\ broken' = TRUE
    /\ queue' = <<>> /\ hand' = None /\ out' = <<>>

FifoNext == (\E x \in Items : Put(x)) \/ Take \/ Send \/ Break

FifoSafety == FifoInit /\ [][FifoNext]_fifoVars

Fifo == FifoSafety /\ WF_fifoVars(Take) /\ WF_fifoVars(Send)
=============================================================================
