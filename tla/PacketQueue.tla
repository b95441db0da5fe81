---------------------------- MODULE PacketQueue ----------------------------
(***************************************************************************)
(* The queue of packets for the browser (debugger/websockets/              *)
(* packet_queue.c), at the granularity of the loads and stores of the      *)
(* unoptimised build: a linked list guarded by spin_lock, a plain bool     *)
(* that a thread first polls and then sets.                                *)
(*                                                                         *)
(* The CPU thread enqueues (print_console, print_serial, send_control from *)
(* the main loop).  The web server thread enqueues too (from the libweb-   *)
(* sockets callbacks) and is the only one that dequeues.                   *)
(*                                                                         *)
(* pending_packets_tail is written and never read: it is left out.         *)
(***************************************************************************)
EXTENDS Naturals, Sequences, FiniteSets

CONSTANTS
    Producers,   \* the threads that only enqueue
    Web,         \* the web server thread
    Nodes,       \* the heap blocks a calloc of a Packet can return
    NULL,
    MaxCalls     \* bound on the packet_enqueue calls, for each thread

Threads == Producers \cup {Web}

ASSUME PQAssumption ==
    /\ Web \notin Producers
    /\ NULL \notin Nodes
    /\ MaxCalls \in [Threads -> Nat]

\* A packet is named by the call that enqueues it: its message, length and
\* opcode are that name, or NULL in a block calloc has just zeroed.
Items == UNION {{t} \X (1..MaxCalls[t]) : t \in Threads}
Value == Items \cup {NULL}
Pointer == Nodes \cup {NULL}

Packet == [message : Value, length : Value, opcode : Value, next : Pointer]
Zeroed == [message |-> NULL, length |-> NULL, opcode |-> NULL, next |-> NULL]

VARIABLES
    pending_packets_head, packets_queued, spin_lock,    \* struct Server
    heap,      \* the contents of every block, freed ones included
    live,      \* the blocks allocated and not freed
    pc,        \* the statement each thread is about to execute
    cur,       \* local: cur of packet_enqueue, head of packet_dequeue
    first,     \* local: packet_enqueue found the list empty
    item,      \* local: the packet being enqueued
    tmp,       \* register: packets_queued loaded, not yet stored
    nxt,       \* register of Web: head->next loaded, not yet stored
    ret,       \* local of Web: the packet being returned
    calls,     \* the packet_enqueue calls each thread has made
    sent,      \* the packets given to lws_write
    crashed    \* the process died of a bad memory access

server == <<pending_packets_head, packets_queued, spin_lock>>
vars == <<server, heap, live, pc, cur, first, item, tmp, nxt, ret, calls,
          sent, crashed>>

Init ==
    /\ pending_packets_head = NULL
    /\ packets_queued = 0
    /\ spin_lock = FALSE
    /\ heap = [n \in Nodes |-> Zeroed]
    /\ live = {}
    /\ pc = [t \in Threads |-> "idle"]
    /\ cur = [t \in Threads |-> NULL]
    /\ first = [t \in Threads |-> FALSE]
    /\ item = [t \in Threads |-> NULL]
    /\ tmp = [t \in Threads |-> 0]
    /\ nxt = NULL
    /\ ret = Zeroed
    /\ calls = [t \in Threads |-> 0]
    /\ sent = <<>>
    /\ crashed = FALSE

At(t, label) == ~crashed /\ pc[t] = label
Goto(t, label) == pc' = [pc EXCEPT ![t] = label]

\* Mutant: || for &&.
MutantEmpty == ~(packets_queued > 0 \/ pending_packets_head # NULL)

packet_queue_empty == ~(packets_queued > 0 /\ pending_packets_head # NULL)

-----------------------------------------------------------------------------
(* packet_enqueue                                                          *)

EnqueueCall(t) ==
    /\ At(t, "idle")
    /\ calls[t] < MaxCalls[t]
    /\ calls' = [calls EXCEPT ![t] = @ + 1]
    /\ item' = [item EXCEPT ![t] = <<t, calls[t] + 1>>]
    /\ Goto(t, "enq_spin")
    /\ UNCHANGED <<server, heap, live, cur, first, tmp, nxt, ret, sent, crashed>>

\* while (s->spin_lock);
Spin(t, from, to) ==
    /\ At(t, from)
    /\ ~spin_lock
    /\ Goto(t, to)
    /\ UNCHANGED <<server, heap, live, cur, first, item, tmp, nxt, ret, calls,
                   sent, crashed>>

\* s->spin_lock = true;
Acquire(t, from, to) ==
    /\ At(t, from)
    /\ spin_lock' = TRUE
    /\ Goto(t, to)
    /\ UNCHANGED <<pending_packets_head, packets_queued, heap, live, cur,
                   first, item, tmp, nxt, ret, calls, sent, crashed>>

\* Mutant: the new packet goes in front of the list.
MutantInFront(t) ==
    /\ At(t, "test_head")
    /\ \E n \in Nodes \ live :
          /\ heap' = [heap EXCEPT ![n] =
                [message |-> item[t], length |-> item[t], opcode |-> item[t],
                 next |-> pending_packets_head]]
          /\ live' = live \cup {n}
          /\ pending_packets_head' = n
    /\ Goto(t, "inc_load")
    /\ UNCHANGED <<packets_queued, spin_lock, cur, first, item, tmp, nxt, ret,
                   calls, sent, crashed>>

EnqueueTestHead(t) ==
    /\ At(t, "test_head")
    /\ Goto(t, IF pending_packets_head = NULL THEN "set_head" ELSE "load_head")
    /\ UNCHANGED <<server, heap, live, cur, first, item, tmp, nxt, ret, calls,
                   sent, crashed>>

\* head = tail = s->pending_packets_head = ... = calloc(1, sizeof(Packet));
EnqueueSetHead(t) ==
    /\ At(t, "set_head")
    /\ \E n \in Nodes \ live :
          /\ heap' = [heap EXCEPT ![n] = Zeroed]
          /\ live' = live \cup {n}
          /\ pending_packets_head' = n
          /\ cur' = [cur EXCEPT ![t] = n]
    /\ first' = [first EXCEPT ![t] = TRUE]
    /\ Goto(t, "message")
    /\ UNCHANGED <<packets_queued, spin_lock, item, tmp, nxt, ret, calls,
                   sent, crashed>>

\* cur = s->pending_packets_head, loaded a second time
EnqueueLoadHead(t) ==
    /\ At(t, "load_head")
    /\ cur' = [cur EXCEPT ![t] = pending_packets_head]
    /\ first' = [first EXCEPT ![t] = FALSE]
    /\ Goto(t, "walk")
    /\ UNCHANGED <<server, heap, live, item, tmp, nxt, ret, calls, sent, crashed>>

\* Mutant: the packet is linked after the first one of the list.
MutantWalkStops(t) ==
    /\ At(t, "walk")
    /\ cur[t] # NULL
    /\ Goto(t, "link")
    /\ UNCHANGED <<server, heap, live, cur, first, item, tmp, nxt, ret, calls,
                   sent, crashed>>

\* while (cur->next != NULL)
EnqueueWalk(t) ==
    /\ At(t, "walk")
    /\ cur[t] # NULL
    /\ Goto(t, IF heap[cur[t]].next = NULL THEN "link" ELSE "advance")
    /\ UNCHANGED <<server, heap, live, cur, first, item, tmp, nxt, ret, calls,
                   sent, crashed>>

\* Mutant: the walk stays where it is.
MutantAdvanceStays(t) ==
    /\ At(t, "advance")
    /\ cur[t] # NULL
    /\ Goto(t, "walk")
    /\ UNCHANGED <<server, heap, live, cur, first, item, tmp, nxt, ret, calls,
                   sent, crashed>>

\* cur = cur->next, loaded a second time
EnqueueAdvance(t) ==
    /\ At(t, "advance")
    /\ cur[t] # NULL
    /\ cur' = [cur EXCEPT ![t] = heap[cur[t]].next]
    /\ Goto(t, "walk")
    /\ UNCHANGED <<server, heap, live, first, item, tmp, nxt, ret, calls, sent,
                   crashed>>

\* cur->next = tail = calloc(1, sizeof(Packet));
EnqueueLink(t) ==
    /\ At(t, "link")
    /\ cur[t] # NULL
    /\ \E n \in Nodes \ live :
          /\ heap' = [heap EXCEPT ![n] = Zeroed, ![cur[t]].next = n]
          /\ live' = live \cup {n}
    /\ Goto(t, "message")
    /\ UNCHANGED <<server, cur, first, item, tmp, nxt, ret, calls, sent, crashed>>

\* The block the initialisation writes to: the local head in one branch,
\* cur->next, loaded again for every field, in the other.
Target(t) == IF first[t] THEN cur[t] ELSE heap[cur[t]].next

StoreAfter == [message |-> "length", length |-> "opcode", opcode |-> "next"]

EnqueueStore(t, field) ==
    /\ At(t, field)
    /\ Target(t) # NULL
    /\ heap' = [heap EXCEPT ![Target(t)][field] = item[t]]
    /\ Goto(t, StoreAfter[field])
    /\ UNCHANGED <<server, live, cur, first, item, tmp, nxt, ret, calls, sent,
                   crashed>>

EnqueueStoreNext(t) ==
    /\ At(t, "next")
    /\ Target(t) # NULL
    /\ heap' = [heap EXCEPT ![Target(t)].next = NULL]
    /\ Goto(t, "inc_load")
    /\ UNCHANGED <<server, live, cur, first, item, tmp, nxt, ret, calls, sent,
                   crashed>>

\* s->packets_queued++ and s->packets_queued--, a load and a store each
CountLoad(t, from, to) ==
    /\ At(t, from)
    /\ tmp' = [tmp EXCEPT ![t] = packets_queued]
    /\ Goto(t, to)
    /\ UNCHANGED <<server, heap, live, cur, first, item, nxt, ret, calls, sent,
                   crashed>>

CountStore(t, from, value, to) ==
    /\ At(t, from)
    /\ packets_queued' = value
    /\ Goto(t, to)
    /\ UNCHANGED <<pending_packets_head, spin_lock, heap, live, cur, first,
                   item, tmp, nxt, ret, calls, sent, crashed>>

\* Mutant: a return that leaves the lock set.
MutantReleaseForgets(t, from, to) ==
    /\ At(t, from)
    /\ Goto(t, to)
    /\ UNCHANGED <<server, heap, live, cur, first, item, tmp, nxt, ret, calls,
                   sent, crashed>>

\* s->spin_lock = false;
Release(t, from, to) ==
    /\ At(t, from)
    /\ spin_lock' = FALSE
    /\ Goto(t, to)
    /\ UNCHANGED <<pending_packets_head, packets_queued, heap, live, cur,
                   first, item, tmp, nxt, ret, calls, sent, crashed>>

Enqueue(t) ==
    \/ EnqueueCall(t)
    \/ Spin(t, "enq_spin", "enq_acquire")
    \/ Acquire(t, "enq_acquire", "test_head")
    \/ EnqueueTestHead(t)
    \/ EnqueueSetHead(t)
    \/ EnqueueLoadHead(t)
    \/ EnqueueWalk(t)
    \/ EnqueueAdvance(t)
    \/ EnqueueLink(t)
    \/ \E field \in DOMAIN StoreAfter : EnqueueStore(t, field)
    \/ EnqueueStoreNext(t)
    \/ CountLoad(t, "inc_load", "inc_store")
    \/ CountStore(t, "inc_store", tmp[t] + 1, "enq_release")
    \/ Release(t, "enq_release", "idle")

-----------------------------------------------------------------------------
(* packet_dequeue, and the callback around it                              *)

\* Mutant: the callback looks at the count only.
MutantTestsCount ==
    /\ At(Web, "idle")
    /\ Goto(Web, IF packets_queued = 0 THEN "idle" ELSE "deq_spin")
    /\ UNCHANGED <<server, heap, live, cur, first, item, tmp, nxt, ret, calls,
                   sent, crashed>>

\* LWS_CALLBACK_SERVER_WRITEABLE: if ( !packet_queue_empty(emu) )
WriteableCallback ==
    /\ At(Web, "idle")
    /\ Goto(Web, IF packet_queue_empty THEN "idle" ELSE "deq_spin")
    /\ UNCHANGED <<server, heap, live, cur, first, item, tmp, nxt, ret, calls,
                   sent, crashed>>

DequeueLoadHead ==
    /\ At(Web, "deq_head")
    /\ cur' = [cur EXCEPT ![Web] = pending_packets_head]
    /\ Goto(Web, "deq_check")
    /\ UNCHANGED <<server, heap, live, first, item, tmp, nxt, ret, calls, sent,
                   crashed>>

\* if ( packet_queue_empty(emu) ) { ...; return ret; }
\* This return leaves spin_lock set and gives the caller an uninitialised
\* packet ("garbage").
DequeueCheck ==
    /\ At(Web, "deq_check")
    /\ Goto(Web, IF packet_queue_empty THEN "garbage" ELSE "deq_next")
    /\ UNCHANGED <<server, heap, live, cur, first, item, tmp, nxt, ret, calls,
                   sent, crashed>>

\* s->pending_packets_head = head->next; the load ...
DequeueLoadNext ==
    /\ At(Web, "deq_next")
    /\ cur[Web] # NULL
    /\ nxt' = heap[cur[Web]].next
    /\ Goto(Web, "deq_unlink")
    /\ UNCHANGED <<server, heap, live, cur, first, item, tmp, ret, calls, sent,
                   crashed>>

\* Mutants: the head stays on the list; the block is freed too early.
MutantKeepsHead ==
    /\ At(Web, "deq_unlink")
    /\ pending_packets_head' = cur[Web]
    /\ Goto(Web, "ret_message")
    /\ UNCHANGED <<packets_queued, spin_lock, heap, live, cur, first, item, tmp,
                   nxt, ret, calls, sent, crashed>>
MutantFreesEarly ==
    /\ At(Web, "deq_unlink")
    /\ pending_packets_head' = nxt
    /\ live' = live \ {cur[Web]}
    /\ Goto(Web, "ret_message")
    /\ UNCHANGED <<packets_queued, spin_lock, heap, cur, first, item, tmp, nxt,
                   ret, calls, sent, crashed>>

\* ... and the store
DequeueUnlink ==
    /\ At(Web, "deq_unlink")
    /\ pending_packets_head' = nxt
    /\ Goto(Web, "ret_message")
    /\ UNCHANGED <<packets_queued, spin_lock, heap, live, cur, first, item, tmp,
                   nxt, ret, calls, sent, crashed>>

ReadField == [ret_message |-> "message", ret_length |-> "length",
              ret_opcode |-> "opcode"]
ReadAfter == [ret_message |-> "ret_length", ret_length |-> "ret_opcode",
              ret_opcode |-> "deq_free"]

DequeueRead(label) ==
    /\ At(Web, label)
    /\ ret' = [ret EXCEPT ![ReadField[label]] = heap[cur[Web]][ReadField[label]]]
    /\ Goto(Web, ReadAfter[label])
    /\ UNCHANGED <<server, heap, live, cur, first, item, tmp, nxt, calls, sent,
                   crashed>>

\* free(head);
DequeueFree ==
    /\ At(Web, "deq_free")
    /\ live' = live \ {cur[Web]}
    /\ Goto(Web, "dec_load")
    /\ UNCHANGED <<server, heap, cur, first, item, tmp, nxt, ret, calls, sent,
                   crashed>>

\* The callback copies the packet from its message, length bytes, hands the
\* copy to lws_write and frees the message.  No bytes are copied from NULL.
Deliver ==
    /\ At(Web, "deliver")
    /\ ret.message = NULL => ret.length = NULL
    /\ sent' = Append(sent, ret)
    /\ Goto(Web, "idle")
    /\ UNCHANGED <<server, heap, live, cur, first, item, tmp, nxt, ret, calls,
                   crashed>>

Dequeue ==
    \/ WriteableCallback
    \/ Spin(Web, "deq_spin", "deq_acquire")
    \/ Acquire(Web, "deq_acquire", "deq_head")
    \/ DequeueLoadHead
    \/ DequeueCheck
    \/ DequeueLoadNext
    \/ DequeueUnlink
    \/ \E label \in DOMAIN ReadField : DequeueRead(label)
    \/ DequeueFree
    \/ CountLoad(Web, "dec_load", "dec_store")
    \/ CountStore(Web, "dec_store", tmp[Web] - 1, "deq_release")
    \/ Release(Web, "deq_release", "deliver")
    \/ Deliver

-----------------------------------------------------------------------------
(* A bad memory access, and the end of the process                         *)

\* The statements that follow a pointer, and the pointer they follow.  The
\* memcpy of the callback runs off a message of another length than the
\* packet's: NULL stands for the memory that is not there.
Dereferenced(t) ==
    CASE pc[t] \in {"walk", "advance", "link"} -> {cur[t]}
      [] pc[t] \in {"message", "length", "opcode", "next"} ->
            IF first[t] THEN {cur[t]} ELSE {cur[t], Target(t)}
      [] pc[t] \in {"deq_next"} \cup DOMAIN ReadField -> {cur[t]}
      [] pc[t] = "deliver" /\ ret.message # ret.length -> {NULL}
      [] OTHER -> {}

\* Following NULL ends the process.  Following a pointer into a freed block,
\* or off the end of a message, is undefined: the process ends here or the
\* statement runs on the block's old contents, as the actions above do.
Crash(t) ==
    /\ ~crashed
    /\ Dereferenced(t) \ live # {}
    /\ crashed' = TRUE
    /\ UNCHANGED <<server, heap, live, pc, cur, first, item, tmp, nxt, ret,
                   calls, sent>>

Exited == crashed /\ UNCHANGED vars

Next ==
    \/ \E t \in Threads : Enqueue(t) \/ Crash(t)
    \/ Dequeue
    \/ Exited

\* The operating system preempts the threads: none is stopped for ever.
Fairness == \A t \in Threads : WF_vars(Enqueue(t)) /\ WF_vars(Crash(t))
SpecSafety == Init /\ [][Next]_vars
Spec == SpecSafety /\ Fairness /\ WF_vars(Dequeue)

-----------------------------------------------------------------------------
EnqueueInside == {"test_head", "set_head", "load_head", "walk", "advance",
                  "link", "message", "length", "opcode", "next", "inc_load",
                  "inc_store", "enq_release"}
DequeueInside == {"deq_head", "deq_check", "deq_next", "deq_unlink",
                  "ret_message", "ret_length", "ret_opcode", "deq_free",
                  "dec_load", "dec_store", "deq_release"}
Outside == {"idle", "enq_spin", "enq_acquire", "deq_spin", "deq_acquire",
            "deliver", "garbage"}

\* The thread is between its acquisition and its release of spin_lock.
Inside(t) == pc[t] \in EnqueueInside \cup DequeueInside

TypeOK ==
    /\ pending_packets_head \in Pointer
    /\ packets_queued \in Nat
    /\ spin_lock \in BOOLEAN
    /\ heap \in [Nodes -> Packet]
    /\ live \subseteq Nodes
    /\ pc \in [Threads -> Outside \cup EnqueueInside \cup DequeueInside]
    /\ cur \in [Threads -> Pointer]
    /\ first \in [Threads -> BOOLEAN]
    /\ item \in [Threads -> Value]
    /\ tmp \in [Threads -> Nat]
    /\ nxt \in Pointer
    /\ ret \in Packet
    /\ calls \in [Threads -> Nat]
    /\ sent \in Seq(Packet)
    /\ crashed \in BOOLEAN

(* spin_lock is never left set by nobody: whenever it is set some thread   *)
(* is inside and has its own s->spin_lock = false still to come.  Several  *)
(* threads may be inside at once, and the exit of packet_dequeue that      *)
(* forgets the lock does not count as inside.                              *)
LockOwned == spin_lock => \E t \in Threads : Inside(t)

(* Between the callback's unlocked packet_queue_empty and the moment it    *)
(* follows the head, no other thread can empty the queue, whatever races   *)
(* the lock lets through: packet_dequeue never takes its EMPTY QUEUE exit, *)
(* which would keep the lock and return an uninitialised packet, never     *)
(* follows a NULL head, and never decrements packets_queued below zero.    *)
DequeueFindsPacket ==
    /\ pc[Web] # "garbage"
    /\ pc[Web] = "deq_next" => cur[Web] # NULL
    /\ pc[Web] = "dec_store" => tmp[Web] > 0

(* The web thread reads and frees allocated blocks only: its use of head   *)
(* cannot go wrong, only an enqueuer's cur can.                            *)
DequeueNeverDangles ==
    pc[Web] \in DequeueInside =>
        /\ Dereferenced(Web) \subseteq live
        /\ pc[Web] = "deq_free" => cur[Web] \in live

Message(i) == sent[i].message
Real(i) == Message(i) # NULL

(* No message reaches lws_write twice, so free(p.message) is never a       *)
(* double free, even when the lock fails to exclude.                       *)
SentOnce ==
    \A i, j \in DOMAIN sent :
        Real(i) /\ Message(i) = Message(j) => i = j

(* The browser sees the packets of one thread in the order that thread     *)
(* enqueued them: a race can lose one, never overtake.                     *)
SentInOrder ==
    \A i, j \in DOMAIN sent :
        i < j /\ Real(i) /\ Real(j) /\ Message(i)[1] = Message(j)[1]
            => Message(i)[2] < Message(j)[2]

(* spin_lock only excludes threads if at most one is inside; the code      *)
(* polls and sets it in two separate statements.                           *)
MutualExclusion == \A t, u \in Threads : Inside(t) /\ Inside(u) => t = u

(* The lock is released again and again, or the process has died: no       *)
(* interleaving of the walks over the list makes a holder walk for ever.   *)
LockReleased == []<>(~spin_lock \/ crashed)

(* Every packet_enqueue returns, and the writeable callback with its       *)
(* packet_dequeue too, or the process has died.                            *)
CallsReturn == \A t \in Threads : []<>(pc[t] = "idle" \/ crashed)
=============================================================================
