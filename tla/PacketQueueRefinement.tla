----------------------- MODULE PacketQueueRefinement -----------------------
(***************************************************************************)
(* PacketQueue implements FifoQueue up to the first time two threads are   *)
(* inside spin_lock together.  raced is a history variable that remembers  *)
(* that they were; from then on the abstract queue is broken and promises  *)
(* nothing.                                                                *)
(***************************************************************************)
EXTENDS PacketQueue

\* Memory is finite, so that a walk over a list without a cycle comes to its
\* end, and a packet with a message can be told from an empty one.
ASSUME MemoryAssumption == IsFiniteSet(Nodes) /\ NULL \notin Items

VARIABLE raced

RInit == Init /\ raced = FALSE

Met == \E t, u \in Threads : t # u /\ Inside(t) /\ Inside(u)

RNext == Next /\ raced' = (raced \/ Met')

\* Besides the fairness of PacketQueue, the web thread empties the queue.
RSpec == RInit /\ [][RNext]_<<vars, raced>> /\ Fairness /\ WF_vars(Dequeue)

-----------------------------------------------------------------------------
(* The refinement mapping                                                  *)

\* A packet is its message, provided its other fields belong to it too.
Whole(p) == IF p.message = p.length /\ p.length = p.opcode THEN p.message ELSE NULL

\* The packets on the list from a block on.  A list without a race has no
\* cycle: Nodes bounds the walk.
Walk[k \in 0..Cardinality(Nodes)] ==
    [n \in Pointer |->
        IF n = NULL \/ k = 0 THEN <<>>
        ELSE <<Whole(heap[n])>> \o Walk[k - 1][heap[n].next]]

\* The last block of the list is still being filled in.
Filling ==
    \E t \in Threads : pc[t] \in {"message", "length", "opcode", "next"}

listed == Walk[Cardinality(Nodes)][pending_packets_head]

queueBar ==
    IF raced THEN <<>>
    ELSE IF Filling THEN SubSeq(listed, 1, Len(listed) - 1)
    ELSE listed

handBar ==
    CASE raced -> NULL
      [] ~raced /\ pc[Web] \in DOMAIN ReadField -> heap[cur[Web]].message
      [] ~raced /\ pc[Web] \in {"deq_free", "dec_load", "dec_store",
                                "deq_release", "deliver"} -> Whole(ret)
      [] OTHER -> NULL

outBar == IF raced THEN <<>> ELSE [i \in DOMAIN sent |-> Whole(sent[i])]

Abstract == INSTANCE FifoQueue WITH
    None <- NULL, queue <- queueBar, hand <- handBar, out <- outBar,
    broken <- raced

(* Every bad memory access needs two threads inside the lock first.        *)
CrashNeedsRace == crashed => raced

(* While threads have never met inside the lock, every step of the list    *)
(* code is a Put, a Take, a Send or invisible: packets reach lws_write     *)
(* whole and in queue order, and none waits for ever.                      *)
ImplementsFifo == Abstract!Fifo
=============================================================================
