------------------------- MODULE PacketQueue_proofs -------------------------
(***************************************************************************)
(* For any number of producers, calls and heap blocks, and with a lock     *)
(* that excludes nobody: types, lock ownership, what packet_dequeue finds  *)
(* once the unlocked test has let it start, and which blocks are used.     *)
(***************************************************************************)
EXTENDS PacketQueueRefinement, TLAPS

\* From the unlocked test of packet_queue_empty to the decrement.
Committed == {"deq_spin", "deq_acquire", "deq_head", "deq_check", "deq_next",
              "deq_unlink", "ret_message", "ret_length", "ret_opcode",
              "deq_free", "dec_load"}

(* Others only ever store a positive packets_queued and a head that is not *)
(* NULL, so what the unlocked test saw stays true until the web thread     *)
(* itself changes it.                                                      *)
WebCommitted ==
    /\ pc[Web] # "garbage"
    /\ pc[Web] \in Committed => packets_queued > 0
    /\ pc[Web] \in {"deq_spin", "deq_acquire", "deq_head", "deq_check"}
          => pending_packets_head # NULL
    /\ pc[Web] \in {"deq_check", "deq_next", "deq_unlink", "ret_message",
                    "ret_length", "ret_opcode", "deq_free"} => cur[Web] # NULL
    /\ pc[Web] = "dec_store" => tmp[Web] > 0

EnqueueHasBlock ==
    \A t \in Threads :
        pc[t] \in {"message", "length", "opcode", "next"} => cur[t] # NULL

IInv == TypeOK /\ LockOwned /\ WebCommitted /\ EnqueueHasBlock

(* The initial state satisfies the inductive invariant.                    *)
LEMMA InitIInv == Init => IInv
<1> SUFFICES ASSUME Init PROVE IInv
  OBVIOUS
<1>1. Zeroed \in Packet
  BY DEF Zeroed, Packet, Value, Pointer
<1>2. sent \in Seq(Packet)
  BY DEF Init
<1>3. pc \in [Threads -> Outside \cup EnqueueInside \cup DequeueInside]
  BY DEF Init, Outside
<1>4. heap \in [Nodes -> Packet] /\ ret \in Packet
  BY <1>1 DEF Init
<1>5. TypeOK
  BY <1>2, <1>3, <1>4 DEF Init, TypeOK, Pointer, Value
<1>6. pc[Web] = "idle" /\ \A t \in Threads : pc[t] = "idle"
  BY DEF Init, Threads
<1> QED
  BY <1>5, <1>6 DEF Init, IInv, LockOwned, WebCommitted, Committed, EnqueueHasBlock

\* A block whose next is stored is a block.
LEMMA LinkedIs ==
  ASSUME NEW h \in [Nodes -> Packet], NEW c, NEW n \in Pointer
  PROVE  [h EXCEPT ![c].next = n] \in [Nodes -> Packet]
<1>1. \A p \in Packet : [p EXCEPT !.next = n] \in Packet
  BY DEF Packet, Pointer
<1>2. CASE c \in Nodes
  <2>1. [h EXCEPT ![c].next = n] = [h EXCEPT ![c] = [h[c] EXCEPT !.next = n]]
    OBVIOUS
  <2> QED BY <1>1, <1>2, <2>1
<1>3. CASE c \notin Nodes
  BY <1>3
<1> QED BY <1>2, <1>3

LEMMA EnqueueTypeOK ==
  ASSUME IInv, NEW t \in Threads, Enqueue(t)
  PROVE  TypeOK'
<1> USE PQAssumption DEF IInv, TypeOK, At, Goto, Outside, EnqueueInside, DequeueInside, server
<1>1. CASE EnqueueCall(t)
  BY <1>1, SMTT(60) DEF EnqueueCall, Value, Items
<1>2. CASE Spin(t, "enq_spin", "enq_acquire")
  BY <1>2 DEF Spin
<1>3. CASE Acquire(t, "enq_acquire", "test_head")
  BY <1>3 DEF Acquire
<1>4. CASE EnqueueTestHead(t)
  BY <1>4 DEF EnqueueTestHead
<1>5. CASE EnqueueSetHead(t)
  BY <1>5 DEF EnqueueSetHead, Pointer, Packet, Zeroed, Value
<1>6. CASE EnqueueLoadHead(t)
  BY <1>6 DEF EnqueueLoadHead
<1>7. CASE EnqueueWalk(t)
  BY <1>7 DEF EnqueueWalk
<1>8. CASE EnqueueAdvance(t)
  BY <1>8 DEF EnqueueAdvance, Pointer, Packet
<1>9. CASE EnqueueLink(t)
  <2>1. PICK n \in Nodes :
            /\ heap' = [heap EXCEPT ![n] = Zeroed, ![cur[t]].next = n]
            /\ live' = live \cup {n}
    BY <1>9 DEF EnqueueLink
  <2> DEFINE calloced == [heap EXCEPT ![n] = Zeroed]
  <2>2. calloced \in [Nodes -> Packet]
    BY DEF Packet, Zeroed, Value, Pointer
  <2>3. heap' = [calloced EXCEPT ![cur[t]].next = n]
    BY <2>1
  <2> HIDE DEF calloced
  <2>4. heap' \in [Nodes -> Packet]
    BY <2>2, <2>3, LinkedIs DEF Pointer
  <2> QED
    BY <1>9, <2>1, <2>4 DEF EnqueueLink
<1>10. CASE \E field \in DOMAIN StoreAfter : EnqueueStore(t, field)
  <2>1. PICK field \in {"message", "length", "opcode"} : EnqueueStore(t, field)
    BY <1>10 DEF StoreAfter
  <2>2. cur[t] \in Nodes
    BY <2>1 DEF EnqueueStore, EnqueueHasBlock, Pointer
  <2>3. Target(t) \in Nodes
    BY <2>1, <2>2 DEF EnqueueStore, Target, Pointer, Packet
  <2>4. heap' \in [Nodes -> Packet]
    BY <2>1, <2>3 DEF EnqueueStore, Packet
  <2>5. pc' \in [Threads -> Outside \cup EnqueueInside \cup DequeueInside]
    BY <2>1 DEF EnqueueStore, StoreAfter
  <2> QED
    BY <2>1, <2>4, <2>5 DEF EnqueueStore
<1>11. CASE EnqueueStoreNext(t)
  <2>1. /\ heap' = [heap EXCEPT ![Target(t)].next = NULL]
        /\ Goto(t, "inc_load")
        /\ UNCHANGED <<server, live, cur, first, item, tmp, nxt, ret, calls, sent, crashed>>
    BY <1>11 DEF EnqueueStoreNext
  <2>2. heap' \in [Nodes -> Packet]
    BY <2>1, LinkedIs DEF Pointer
  <2> QED
    BY <2>1, <2>2
<1>12. CASE CountLoad(t, "inc_load", "inc_store")
  BY <1>12 DEF CountLoad
<1>13. CASE CountStore(t, "inc_store", tmp[t] + 1, "enq_release")
  BY <1>13 DEF CountStore
<1>14. CASE Release(t, "enq_release", "idle")
  BY <1>14 DEF Release
<1> QED BY <1>1, <1>2, <1>3, <1>4, <1>5, <1>6, <1>7, <1>8, <1>9, <1>10, <1>11, <1>12, <1>13, <1>14 DEF Enqueue

(* An enqueuer is inside from Acquire to Release, and only its Acquire     *)
(* sets the lock.                                                          *)
LEMMA EnqueueLockOwned ==
  ASSUME IInv, NEW t \in Threads, Enqueue(t)
  PROVE  LockOwned'
<1> USE DEF IInv, TypeOK, LockOwned, Inside, At, Goto, server
<1>1. CASE EnqueueCall(t)
  BY <1>1 DEF EnqueueCall, EnqueueInside, DequeueInside
<1>2. CASE Spin(t, "enq_spin", "enq_acquire")
  BY <1>2 DEF Spin
<1>3. CASE Acquire(t, "enq_acquire", "test_head")
  BY <1>3 DEF Acquire, EnqueueInside
<1>4. CASE Release(t, "enq_release", "idle")
  BY <1>4 DEF Release
<1>5. CASE \/ EnqueueTestHead(t) \/ EnqueueSetHead(t) \/ EnqueueLoadHead(t)
           \/ EnqueueWalk(t) \/ EnqueueAdvance(t) \/ EnqueueLink(t)
           \/ (\E field \in DOMAIN StoreAfter : EnqueueStore(t, field))
           \/ EnqueueStoreNext(t) \/ CountLoad(t, "inc_load", "inc_store")
           \/ CountStore(t, "inc_store", tmp[t] + 1, "enq_release")
  <2>1. spin_lock' = spin_lock
    BY <1>5 DEF EnqueueTestHead, EnqueueSetHead, EnqueueLoadHead, EnqueueWalk,
       EnqueueAdvance, EnqueueLink, EnqueueStore, EnqueueStoreNext, CountLoad,
       CountStore
  <2>2. /\ pc'[t] \in EnqueueInside
        /\ \A u \in Threads \ {t} : pc'[u] = pc[u]
    BY <1>5 DEF EnqueueTestHead, EnqueueSetHead, EnqueueLoadHead, EnqueueWalk,
       EnqueueAdvance, EnqueueLink, EnqueueStore, EnqueueStoreNext, CountLoad,
       CountStore, StoreAfter, EnqueueInside
  <2> QED
    BY <2>1, <2>2
<1> QED
  BY <1>1, <1>2, <1>3, <1>4, <1>5 DEF Enqueue

(* An enqueue step, the web thread's own included, leaves alone what the   *)
(* web thread's packet_dequeue relies on.                                  *)
LEMMA EnqueueWebCommitted ==
  ASSUME IInv, NEW t \in Threads, Enqueue(t)
  PROVE  WebCommitted' /\ EnqueueHasBlock'
<1> USE PQAssumption DEF IInv, TypeOK, WebCommitted, EnqueueHasBlock, Committed,
        At, Goto, server, Threads
<1>1. CASE EnqueueCall(t)
  BY <1>1 DEF EnqueueCall
<1>2. CASE Spin(t, "enq_spin", "enq_acquire")
  BY <1>2 DEF Spin
<1>3. CASE Acquire(t, "enq_acquire", "test_head")
  BY <1>3 DEF Acquire
<1>4. CASE EnqueueTestHead(t)
  BY <1>4 DEF EnqueueTestHead
<1>5. CASE EnqueueSetHead(t)
  BY <1>5 DEF EnqueueSetHead
<1>6. CASE EnqueueLoadHead(t)
  BY <1>6 DEF EnqueueLoadHead
<1>7. CASE EnqueueWalk(t)
  BY <1>7 DEF EnqueueWalk
<1>8. CASE EnqueueAdvance(t)
  BY <1>8 DEF EnqueueAdvance
<1>9. CASE EnqueueLink(t)
  BY <1>9 DEF EnqueueLink
<1>10. CASE \E field \in DOMAIN StoreAfter : EnqueueStore(t, field)
  BY <1>10 DEF EnqueueStore, StoreAfter
<1>11. CASE EnqueueStoreNext(t)
  BY <1>11 DEF EnqueueStoreNext
<1>12. CASE CountLoad(t, "inc_load", "inc_store")
  BY <1>12 DEF CountLoad
<1>13. CASE CountStore(t, "inc_store", tmp[t] + 1, "enq_release")
  BY <1>13 DEF CountStore
<1>14. CASE Release(t, "enq_release", "idle")
  BY <1>14 DEF Release
<1> QED
  BY <1>1, <1>2, <1>3, <1>4, <1>5, <1>6, <1>7, <1>8, <1>9, <1>10, <1>11,
     <1>12, <1>13, <1>14 DEF Enqueue

(* packet_dequeue and its callback preserve the types.                     *)
LEMMA DequeueTypeOK ==
  ASSUME IInv, Dequeue
  PROVE  TypeOK'
<1> USE PQAssumption DEF IInv, TypeOK, WebCommitted, At, Goto, Outside,
        EnqueueInside, DequeueInside, server, Threads
<1>1. CASE WriteableCallback
  BY <1>1 DEF WriteableCallback
<1>2. CASE Spin(Web, "deq_spin", "deq_acquire")
  BY <1>2 DEF Spin
<1>3. CASE Acquire(Web, "deq_acquire", "deq_head")
  BY <1>3 DEF Acquire
<1>4. CASE DequeueLoadHead
  BY <1>4 DEF DequeueLoadHead
<1>5. CASE DequeueCheck
  BY <1>5 DEF DequeueCheck
<1>6. CASE DequeueLoadNext
  BY <1>6 DEF DequeueLoadNext, Pointer, Packet
<1>7. CASE DequeueUnlink
  BY <1>7 DEF DequeueUnlink
<1>8. CASE \E label \in DOMAIN ReadField : DequeueRead(label)
  <2>1. PICK label \in {"ret_message", "ret_length", "ret_opcode"} : DequeueRead(label)
    BY <1>8 DEF ReadField
  <2>2. cur[Web] \in Nodes
    BY <2>1 DEF DequeueRead, Pointer
  <2>3. ret' \in Packet
    BY <2>1, <2>2 DEF DequeueRead, ReadField, Packet
  <2>4. pc' \in [Threads -> Outside \cup EnqueueInside \cup DequeueInside]
    BY <2>1 DEF DequeueRead, ReadAfter
  <2> QED
    BY <2>1, <2>3, <2>4 DEF DequeueRead
<1>9. CASE DequeueFree
  BY <1>9 DEF DequeueFree
<1>10. CASE CountLoad(Web, "dec_load", "dec_store")
  BY <1>10 DEF CountLoad
<1>11. CASE CountStore(Web, "dec_store", tmp[Web] - 1, "deq_release")
  BY <1>11 DEF CountStore
<1>12. CASE Release(Web, "deq_release", "deliver")
  BY <1>12 DEF Release
<1>13. CASE Deliver
  <2>1. sent' \in Seq(Packet)
    BY <1>13 DEF Deliver
  <2> QED
    BY <1>13, <2>1 DEF Deliver
<1> QED
  BY <1>1, <1>2, <1>3, <1>4, <1>5, <1>6, <1>7, <1>8, <1>9, <1>10, <1>11,
     <1>12, <1>13 DEF Dequeue

(* packet_dequeue is inside from Acquire to Release: its EMPTY QUEUE exit, *)
(* which would break this, is never taken.                                 *)
LEMMA DequeueLockOwned ==
  ASSUME IInv, Dequeue
  PROVE  LockOwned'
<1> USE DEF IInv, TypeOK, LockOwned, Inside, At, Goto, server, Threads
<1>1. CASE WriteableCallback
  BY <1>1 DEF WriteableCallback, EnqueueInside, DequeueInside
<1>2. CASE Spin(Web, "deq_spin", "deq_acquire")
  BY <1>2 DEF Spin
<1>3. CASE Acquire(Web, "deq_acquire", "deq_head")
  BY <1>3 DEF Acquire, DequeueInside
<1>4. CASE Release(Web, "deq_release", "deliver")
  BY <1>4 DEF Release
<1>5. CASE Deliver
  BY <1>5 DEF Deliver, EnqueueInside, DequeueInside
<1>6. CASE \/ DequeueLoadHead \/ DequeueCheck \/ DequeueLoadNext \/ DequeueUnlink
           \/ (\E label \in DOMAIN ReadField : DequeueRead(label)) \/ DequeueFree
           \/ CountLoad(Web, "dec_load", "dec_store")
           \/ CountStore(Web, "dec_store", tmp[Web] - 1, "deq_release")
  <2>1. spin_lock' = spin_lock
    BY <1>6 DEF DequeueLoadHead, DequeueCheck, DequeueLoadNext, DequeueUnlink,
       DequeueRead, DequeueFree, CountLoad, CountStore
  <2>2. /\ pc'[Web] \in DequeueInside
        /\ \A u \in Threads \ {Web} : pc'[u] = pc[u]
    BY <1>6 DEF DequeueLoadHead, DequeueCheck, DequeueLoadNext, DequeueUnlink,
       DequeueRead, DequeueFree, CountLoad, CountStore, ReadField, ReadAfter,
       DequeueInside, WebCommitted, Committed, packet_queue_empty
  <2> QED
    BY <2>1, <2>2
<1> QED
  BY <1>1, <1>2, <1>3, <1>4, <1>5, <1>6 DEF Dequeue

(* Each step of packet_dequeue hands what it relies on to the next one.    *)
LEMMA DequeueWebCommitted ==
  ASSUME IInv, Dequeue
  PROVE  WebCommitted' /\ EnqueueHasBlock'
<1> USE PQAssumption DEF IInv, TypeOK, WebCommitted, EnqueueHasBlock, Committed,
        At, Goto, server, Threads
<1>1. CASE WriteableCallback
  BY <1>1 DEF WriteableCallback, packet_queue_empty
<1>2. CASE Spin(Web, "deq_spin", "deq_acquire")
  BY <1>2 DEF Spin
<1>3. CASE Acquire(Web, "deq_acquire", "deq_head")
  BY <1>3 DEF Acquire
<1>4. CASE DequeueLoadHead
  BY <1>4 DEF DequeueLoadHead
<1>5. CASE DequeueCheck
  BY <1>5 DEF DequeueCheck, packet_queue_empty
<1>6. CASE DequeueLoadNext
  BY <1>6 DEF DequeueLoadNext
<1>7. CASE DequeueUnlink
  BY <1>7 DEF DequeueUnlink
<1>8. CASE \E label \in DOMAIN ReadField : DequeueRead(label)
  BY <1>8 DEF DequeueRead, ReadField, ReadAfter
<1>9. CASE DequeueFree
  BY <1>9 DEF DequeueFree
<1>10. CASE CountLoad(Web, "dec_load", "dec_store")
  BY <1>10 DEF CountLoad
<1>11. CASE CountStore(Web, "dec_store", tmp[Web] - 1, "deq_release")
  BY <1>11 DEF CountStore
<1>12. CASE Release(Web, "deq_release", "deliver")
  BY <1>12 DEF Release
<1>13. CASE Deliver
  BY <1>13 DEF Deliver
<1> QED
  BY <1>1, <1>2, <1>3, <1>4, <1>5, <1>6, <1>7, <1>8, <1>9, <1>10, <1>11,
     <1>12, <1>13 DEF Dequeue

(* Every step, and every stutter, preserves the inductive invariant.       *)
LEMMA StepIInv == IInv /\ [Next]_vars => IInv'
<1> SUFFICES ASSUME IInv, [Next]_vars PROVE IInv'
  OBVIOUS
<1>1. ASSUME NEW t \in Threads, Enqueue(t) PROVE IInv'
  BY <1>1, EnqueueTypeOK, EnqueueLockOwned, EnqueueWebCommitted DEF IInv
<1>2. CASE Dequeue
  BY <1>2, DequeueTypeOK, DequeueLockOwned, DequeueWebCommitted DEF IInv
<1>3. ASSUME NEW t \in Threads, Crash(t) PROVE IInv'
  BY <1>3 DEF Crash, IInv, TypeOK, LockOwned, WebCommitted, EnqueueHasBlock,
     Inside, server
<1>4. CASE UNCHANGED vars
  BY <1>4 DEF vars, IInv, TypeOK, LockOwned, WebCommitted, EnqueueHasBlock,
     Inside, server
<1> QED
  BY <1>1, <1>2, <1>3, <1>4 DEF Next, Exited

(* The invariant holds in every reachable state.                           *)
LEMMA SafetyIInv == SpecSafety => []IInv
<1> QED
  BY InitIInv, StepIInv, PTL DEF SpecSafety

(* Type correctness of the queue, whatever the interleaving: in particular *)
(* packets_queued never wraps below zero.                                  *)
THEOREM TypeCorrect == SpecSafety => []TypeOK
<1>1. IInv => TypeOK
  BY DEF IInv
<1> QED
  BY SafetyIInv, <1>1, PTL

(* The lock is never left set by nobody (packet_queue.c:62-63, 97-98,      *)
(* 123-136, 152), for any number of threads.                               *)
THEOREM LockAlwaysOwned == SpecSafety => []LockOwned
<1>1. IInv => LockOwned
  BY DEF IInv
<1> QED
  BY SafetyIInv, <1>1, PTL

(* The test of packet_queue_empty made without the lock is still good      *)
(* under it (emu_server.cpp:112, packet_queue.c:129-137, 150): the         *)
(* EMPTY QUEUE exit is dead code, for any number of threads and although   *)
(* the lock excludes nobody.                                               *)
THEOREM DequeueAlwaysFindsPacket == SpecSafety => []DequeueFindsPacket
<1>1. IInv => DequeueFindsPacket
  BY DEF IInv, WebCommitted, DequeueFindsPacket
<1> QED
  BY SafetyIInv, <1>1, PTL

-----------------------------------------------------------------------------
(* What the race that spin_lock lets through can and cannot do to the      *)
(* blocks of the list.  The web thread never uses a freed block and never  *)
(* sends a message twice, and only a race makes an enqueuer use one.       *)

\* packet_dequeue between its load of the head and its free of it, and the
\* part of that after the head has been taken off the list.
Unlinked == {"ret_message", "ret_length", "ret_opcode", "deq_free"}
Holding == {"deq_check", "deq_next", "deq_unlink"} \cup Unlinked

Succ(n) == heap[n].next

(* The list, with races: head and next point to allocated blocks, no two   *)
(* of them to one block, but that the block the web thread is taking off   *)
(* still points to the new head.  An enqueuer, whatever its cur is, makes  *)
(* only a block it has just allocated the target of a pointer.             *)
ListInv ==
    /\ pending_packets_head \in live \cup {NULL}
    /\ \A n \in live : Succ(n) \in live \cup {NULL}
    /\ \A m, n \in live : Succ(m) = Succ(n) /\ Succ(m) # NULL => m = n
    /\ \A n \in live :
           pending_packets_head # NULL /\ Succ(n) = pending_packets_head
               => pc[Web] \in Unlinked /\ n = cur[Web]
    /\ pc[Web] \in Holding => cur[Web] \in live /\ \A n \in live : Succ(n) # cur[Web]
    /\ pc[Web] \in Unlinked => pending_packets_head # cur[Web]
    /\ pc[Web] = "deq_unlink" =>
           /\ nxt \in live \cup {NULL} /\ nxt # cur[Web]
           /\ \A n \in live : nxt # NULL /\ Succ(n) = nxt => n = cur[Web]

\* Of the web thread an enqueue step changes nothing, or it is its own.
WebAside ==
    /\ nxt' = nxt /\ ret' = ret /\ sent' = sent
    /\ \/ pc'[Web] = pc[Web] /\ cur'[Web] = cur[Web]
       \/ pc[Web] \notin DequeueInside /\ pc'[Web] \notin DequeueInside \cup {"deliver"}

LEMMA EnqueueAside ==
    ASSUME IInv, NEW t \in Threads, Enqueue(t)
    PROVE  WebAside
<1>0. pc \in [Threads -> Outside \cup EnqueueInside \cup DequeueInside]
      /\ cur \in [Threads -> Pointer] /\ Web \in Threads
    BY DEF IInv, TypeOK, Threads
<1>1. /\ nxt' = nxt /\ ret' = ret /\ sent' = sent
      /\ \A u \in Threads : u # t => pc'[u] = pc[u] /\ cur'[u] = cur[u]
    BY <1>0 DEF Enqueue, EnqueueCall, Spin, Acquire, EnqueueTestHead, EnqueueSetHead,
        EnqueueLoadHead, EnqueueWalk, EnqueueAdvance, EnqueueLink, EnqueueStore,
        EnqueueStoreNext, CountLoad, CountStore, Release, Goto
<1>2. pc[t] \notin DequeueInside /\ pc'[t] \notin DequeueInside \cup {"deliver"}
    BY <1>0 DEF Enqueue, EnqueueCall, Spin, Acquire, EnqueueTestHead, EnqueueSetHead,
        EnqueueLoadHead, EnqueueWalk, EnqueueAdvance, EnqueueLink, EnqueueStore, StoreAfter,
        EnqueueStoreNext, CountLoad, CountStore, Release, Goto, At, DequeueInside
<1> QED BY <1>0, <1>1, <1>2 DEF WebAside

LEMMA HoldingInside == Unlinked \subseteq Holding /\ Holding \subseteq DequeueInside
BY DEF Holding, Unlinked, DequeueInside

\* An enqueue step that leaves the pointers alone.
LEMMA QuietList ==
    ASSUME ListInv, WebAside, UNCHANGED <<pending_packets_head, live>>,
           \A n \in live : Succ(n)' = Succ(n)
    PROVE  ListInv'
<1> QED BY HoldingInside DEF ListInv, WebAside, Holding, Unlinked, DequeueInside

LEMMA EnqueueList ==
    ASSUME IInv, ListInv, NEW t \in Threads, Enqueue(t)
    PROVE  ListInv'
<1> USE DEF At, server
<1>0. /\ heap \in [Nodes -> Packet] /\ cur \in [Threads -> Pointer] /\ live \subseteq Nodes
      /\ item \in [Threads -> Value] /\ NULL \notin Nodes /\ WebAside /\ t \in Threads
    BY EnqueueAside, PQAssumption DEF IInv, TypeOK
<1>1. CASE UNCHANGED <<pending_packets_head, heap, live>>
    BY <1>0, <1>1, QuietList DEF Succ
<1>2. CASE EnqueueSetHead(t)
    <2> PICK n \in Nodes \ live :
            /\ heap' = [heap EXCEPT ![n] = Zeroed]
            /\ live' = live \cup {n} /\ pending_packets_head' = n
        BY <1>2 DEF EnqueueSetHead
    <2>1. Succ(n)' = NULL /\ \A m \in live : Succ(m)' = Succ(m)
        BY <1>0 DEF Succ, Zeroed
    <2> QED BY <1>0, <2>1, HoldingInside DEF ListInv, WebAside, Holding, Unlinked, DequeueInside
<1>3. CASE EnqueueLink(t)
    <2> PICK n \in Nodes \ live :
            /\ heap' = [heap EXCEPT ![n] = Zeroed, ![cur[t]].next = n]
            /\ live' = live \cup {n}
        BY <1>3 DEF EnqueueLink
    <2>1. cur[t] \in Nodes /\ pending_packets_head' = pending_packets_head
        BY <1>0, <1>3 DEF EnqueueLink, Pointer
    <2> DEFINE calloced == [heap EXCEPT ![n] = Zeroed]
    <2>2. calloced \in [Nodes -> Packet]
        BY <1>0 DEF Packet, Zeroed, Value, Pointer
    <2>3. heap' = [calloced EXCEPT ![cur[t]].next = n]
        OBVIOUS
    <2>4. /\ calloced[n].next = NULL
          /\ \A m \in live : calloced[m].next = Succ(m)
        BY <1>0 DEF Succ, Zeroed
    <2> HIDE DEF calloced
    <2>5. \A m \in Nodes : Succ(m)' = IF m = cur[t] THEN n ELSE calloced[m].next
        BY <2>1, <2>2, <2>3 DEF Succ, Packet
    <2>6. \A m \in live : Succ(m)' \in {Succ(m), n} /\ (Succ(m)' = n => m = cur[t])
        BY <1>0, <2>4, <2>5 DEF ListInv
    <2>7. Succ(n)' \in {NULL, n} /\ (Succ(n)' = n => n = cur[t])
        BY <1>0, <2>4, <2>5
    <2> QED BY <1>0, <2>1, <2>6, <2>7, HoldingInside
            DEF ListInv, WebAside, Holding, Unlinked, DequeueInside
<1>4. CASE \E field \in DOMAIN StoreAfter : EnqueueStore(t, field)
    <2> PICK field \in {"message", "length", "opcode"} : EnqueueStore(t, field)
        BY <1>4 DEF StoreAfter
    <2>1. heap' = [heap EXCEPT ![Target(t)][field] = item[t]]
          /\ UNCHANGED <<pending_packets_head, live>>
        BY DEF EnqueueStore
    <2>2. \A n \in live : Succ(n)' = Succ(n)
        BY <1>0, <2>1 DEF Succ, Packet
    <2> QED BY <1>0, <2>1, <2>2, QuietList
<1>5. CASE EnqueueStoreNext(t)
    <2>1. heap' = [heap EXCEPT ![Target(t)].next = NULL]
          /\ UNCHANGED <<pending_packets_head, live>>
        BY <1>5 DEF EnqueueStoreNext
    <2>2. \A n \in live : Succ(n)' \in {Succ(n), NULL}
        BY <1>0, <2>1 DEF Succ, Packet
    <2> QED BY <1>0, <2>1, <2>2, HoldingInside
            DEF ListInv, WebAside, Holding, Unlinked, DequeueInside
<1> QED BY <1>1, <1>2, <1>3, <1>4, <1>5
        DEF Enqueue, EnqueueCall, Spin, Acquire, EnqueueTestHead, EnqueueLoadHead, EnqueueWalk,
            EnqueueAdvance, CountLoad, CountStore, Release

LEMMA DequeueList ==
    ASSUME IInv, ListInv, Dequeue
    PROVE  ListInv'
<1> USE DEF At, server, Goto
<1>0. /\ heap \in [Nodes -> Packet] /\ live \subseteq Nodes /\ NULL \notin Nodes
      /\ pc \in [Threads -> Outside \cup EnqueueInside \cup DequeueInside]
      /\ cur \in [Threads -> Pointer] /\ Web \in Threads /\ WebCommitted
    BY PQAssumption DEF IInv, TypeOK, Threads
<1>1. CASE /\ UNCHANGED <<pending_packets_head, heap, live>>
           /\ pc'[Web] \notin Holding /\ pc[Web] \notin Unlinked
    BY <1>1 DEF ListInv, Succ, Holding, Unlinked
<1>2. CASE DequeueLoadHead
    <2>1. /\ cur'[Web] = pending_packets_head /\ pc'[Web] = "deq_check" /\ pc[Web] = "deq_head"
          /\ UNCHANGED <<pending_packets_head, heap, live>>
        BY <1>0, <1>2 DEF DequeueLoadHead
    <2>2. pending_packets_head # NULL
        BY <1>0, <2>1 DEF WebCommitted
    <2> QED BY <2>1, <2>2 DEF ListInv, Succ, Holding, Unlinked
<1>3. CASE DequeueCheck
    <2>1. /\ pc[Web] = "deq_check" /\ pc'[Web] \in {"garbage", "deq_next"}
          /\ UNCHANGED <<pending_packets_head, heap, live, cur>>
        BY <1>0, <1>3 DEF DequeueCheck
    <2> QED BY <2>1 DEF ListInv, Succ, Holding, Unlinked
<1>4. CASE DequeueLoadNext
    <2>1. /\ pc[Web] = "deq_next" /\ pc'[Web] = "deq_unlink" /\ nxt' = Succ(cur[Web])
          /\ UNCHANGED <<pending_packets_head, heap, live, cur>>
        BY <1>0, <1>4 DEF DequeueLoadNext, Succ
    <2> QED BY <1>0, <2>1 DEF ListInv, Succ, Holding, Unlinked
<1>5. CASE DequeueUnlink
    <2>1. /\ pc[Web] = "deq_unlink" /\ pc'[Web] = "ret_message" /\ pending_packets_head' = nxt
          /\ UNCHANGED <<heap, live, cur>>
        BY <1>0, <1>5 DEF DequeueUnlink
    <2> QED BY <1>0, <2>1 DEF ListInv, Succ, Holding, Unlinked
<1>6. CASE \E label \in DOMAIN ReadField : DequeueRead(label)
    <2>1. /\ pc[Web] \in Unlinked /\ pc'[Web] \in Unlinked
          /\ UNCHANGED <<pending_packets_head, heap, live, cur>>
        BY <1>0, <1>6 DEF DequeueRead, ReadField, ReadAfter, Unlinked
    <2> QED BY <2>1 DEF ListInv, Succ, Holding, Unlinked
<1>7. CASE DequeueFree
    <2>1. /\ pc[Web] = "deq_free" /\ pc'[Web] = "dec_load" /\ live' = live \ {cur[Web]}
          /\ UNCHANGED <<pending_packets_head, heap, cur>>
        BY <1>0, <1>7 DEF DequeueFree
    <2> QED BY <1>0, <2>1 DEF ListInv, Succ, Holding, Unlinked
<1>8. CASE \/ WriteableCallback \/ Spin(Web, "deq_spin", "deq_acquire")
           \/ Acquire(Web, "deq_acquire", "deq_head")
           \/ CountLoad(Web, "dec_load", "dec_store")
           \/ CountStore(Web, "dec_store", tmp[Web] - 1, "deq_release")
           \/ Release(Web, "deq_release", "deliver") \/ Deliver
    BY <1>0, <1>1, <1>8 DEF WriteableCallback, Spin, Acquire, CountLoad, CountStore, Release,
        Deliver, Holding, Unlinked
<1> QED BY <1>2, <1>3, <1>4, <1>5, <1>6, <1>7, <1>8 DEF Dequeue

LEMMA ListStep == IInv /\ ListInv /\ [Next]_vars => ListInv'
<1> SUFFICES ASSUME IInv, ListInv, [Next]_vars PROVE ListInv'
    OBVIOUS
<1>1. CASE \E t \in Threads : Enqueue(t) BY <1>1, EnqueueList
<1>2. CASE Dequeue BY <1>2, DequeueList
<1>3. CASE \E t \in Threads : Crash(t)
    BY <1>3 DEF Crash, ListInv, Succ, server
<1>4. CASE UNCHANGED vars
    BY <1>4 DEF vars, ListInv, Succ, server
<1> QED BY <1>1, <1>2, <1>3, <1>4 DEF Next, Exited

LEMMA SafetyList == SpecSafety => []ListInv
<1>1. Init => ListInv
    BY DEF Init, ListInv, Holding, Unlinked, Threads
<1> QED BY <1>1, SafetyIInv, ListStep, PTL DEF SpecSafety

(* packet_dequeue reads and frees allocated blocks only (packet_queue.c:   *)
(* 134-147), whatever the enqueuers inside with it do.                     *)
THEOREM DequeueIsSafe == SpecSafety => []DequeueNeverDangles
<1>1. ListInv => DequeueNeverDangles
    BY DEF ListInv, DequeueNeverDangles, Dereferenced, Holding, Unlinked, ReadField, DequeueInside
<1> QED BY <1>1, SafetyList, PTL

-----------------------------------------------------------------------------
(* No message is sent twice                                                *)

\* The item of a packet_enqueue is not in any block yet.
Preparing == {"enq_spin", "enq_acquire", "test_head", "set_head", "load_head", "walk",
              "advance", "link", "message"}

\* A message that has been stored in a block.
Stored(x) ==
    x # NULL => \E t \in Threads : \E k \in 1..calls[t] :
                    x = <<t, k>> /\ (pc[t] \in Preparing => k < calls[t])

Taken == {"ret_length", "ret_opcode", "deq_free"}
Dropped == {"dec_load", "dec_store", "deq_release", "deliver"}

(* A message is in one block at most, and in no allocated one once it has  *)
(* been sent: with an enqueuer's wild stores too, for it stores its own.   *)
SentInv ==
    /\ \A t \in Threads : pc[t] \in Preparing => item[t] = <<t, calls[t]>> /\ calls[t] > 0
    /\ \A n \in Nodes : Stored(heap[n].message)
    /\ \A m, n \in Nodes :
           heap[m].message = heap[n].message /\ heap[m].message # NULL => m = n
    /\ \A i \in DOMAIN sent : Stored(Message(i))
    /\ \A i \in DOMAIN sent, n \in live : Real(i) => heap[n].message # Message(i)
    /\ \A i, j \in DOMAIN sent : Real(i) /\ Message(i) = Message(j) => i = j
    /\ pc[Web] \in Taken \cup Dropped /\ ret.message # NULL =>
           /\ Stored(ret.message)
           /\ \A i \in DOMAIN sent : Message(i) # ret.message
           /\ \A n \in live : heap[n].message = ret.message
                  => pc[Web] \in Taken /\ n = cur[Web]

LEMMA StoredStays ==
    ASSUME NEW x, Stored(x), UNCHANGED calls,
           \A t \in Threads : pc'[t] \in Preparing => pc[t] \in Preparing
    PROVE  Stored(x)'
<1> SUFFICES ASSUME x # NULL PROVE Stored(x)'
    BY DEF Stored
<1> PICK t \in Threads : \E k \in 1..calls[t] :
        x = <<t, k>> /\ (pc[t] \in Preparing => k < calls[t])
    BY DEF Stored
<1> QED BY DEF Stored

\* A thread that has not stored its item yet finds it nowhere.
LEMMA StoredIsOther ==
    ASSUME NEW x, Stored(x), x # NULL, NEW t \in Threads, pc[t] \in Preparing,
           calls[t] \in Nat
    PROVE  x # <<t, calls[t]>>
<1> PICK u \in Threads : \E k \in 1..calls[u] :
        x = <<u, k>> /\ (pc[u] \in Preparing => k < calls[u])
    BY DEF Stored
<1> QED OBVIOUS

\* A step that stores no message, calls nothing and delivers nothing.
LEMMA QuietSent ==
    ASSUME IInv, SentInv, UNCHANGED <<calls, item, ret, sent>>, live' \subseteq Nodes,
           \A t \in Threads : pc'[t] \in Preparing => pc[t] \in Preparing,
           \A n \in Nodes : heap'[n].message = heap[n].message \/ heap'[n].message = NULL,
           \A n \in live' : n \in live \/ heap'[n].message = NULL,
           pc'[Web] \in Taken => pc[Web] \in Taken /\ cur'[Web] = cur[Web],
           pc'[Web] \in Dropped =>
               \/ pc[Web] \in Dropped
               \/ pc[Web] \in Taken /\ live' = live \ {cur[Web]}
    PROVE  SentInv'
<1> USE DEF SentInv
<1>1. \A x : Stored(x) => Stored(x)'
    BY StoredStays
<1>2. \A n \in Nodes : Stored(heap[n].message)'
    <2> TAKE n \in Nodes
    <2>1. CASE heap'[n].message = NULL BY <2>1 DEF Stored
    <2>2. CASE heap'[n].message = heap[n].message BY <1>1, <2>2 DEF Stored
    <2> QED BY <2>1, <2>2
<1>3. \A i : Message(i)' = Message(i) /\ (Real(i)' <=> Real(i))
    BY DEF Message, Real
<1>4. \A i \in DOMAIN sent' : Stored(Message(i))'
    BY <1>1, <1>3
<1>5. \A i \in DOMAIN sent', n \in live' : Real(i)' => heap'[n].message # Message(i)'
    BY <1>3 DEF Real
<1>6. pc'[Web] \in Taken \cup Dropped /\ ret'.message # NULL =>
           /\ Stored(ret.message)'
           /\ \A i \in DOMAIN sent' : Message(i)' # ret'.message
           /\ \A n \in live' : heap'[n].message = ret'.message
                  => pc'[Web] \in Taken /\ n = cur'[Web]
    BY <1>1, <1>3 DEF Taken, Dropped
<1> QED BY <1>2, <1>3, <1>4, <1>5, <1>6

LEMMA EnqueueSent ==
    ASSUME IInv, SentInv, NEW t \in Threads, Enqueue(t)
    PROVE  SentInv'
<1> USE DEF At, Goto, server
<1>0. /\ heap \in [Nodes -> Packet] /\ cur \in [Threads -> Pointer] /\ live \subseteq Nodes
      /\ item \in [Threads -> Value] /\ NULL \notin Nodes /\ Web \in Threads
      /\ calls \in [Threads -> Nat]
      /\ pc \in [Threads -> Outside \cup EnqueueInside \cup DequeueInside]
    BY PQAssumption DEF IInv, TypeOK, Threads
<1>1. WebAside
    BY EnqueueAside
<1>2. ASSUME UNCHANGED <<calls, item>>, live' \subseteq Nodes,
             pc'[t] \in Preparing => pc[t] \in Preparing,
             \A u \in Threads : u # t => pc'[u] = pc[u],
             \A n \in Nodes : heap'[n].message = heap[n].message \/ heap'[n].message = NULL,
             \A n \in live' : n \in live \/ heap'[n].message = NULL
      PROVE  SentInv'
    <2>1. \A u \in Threads : pc'[u] \in Preparing => pc[u] \in Preparing
        BY <1>2
    <2>2. pc'[Web] \in Taken \cup Dropped => pc[Web] = pc'[Web] /\ cur'[Web] = cur[Web]
        BY <1>1 DEF WebAside, Taken, Dropped, DequeueInside
    <2>3. UNCHANGED <<ret, sent>>
        BY <1>1 DEF WebAside
    <2> QED BY <1>2, <2>1, <2>2, <2>3, QuietSent
<1>3. CASE EnqueueCall(t)
    <2>1. /\ calls' = [calls EXCEPT ![t] = @ + 1]
          /\ item' = [item EXCEPT ![t] = <<t, calls[t] + 1>>]
          /\ pc[t] = "idle" /\ pc' = [pc EXCEPT ![t] = "enq_spin"]
          /\ UNCHANGED <<heap, live, cur, ret, sent>>
        BY <1>3 DEF EnqueueCall
    <2>2. \A x : Stored(x) => Stored(x)'
        <3> SUFFICES ASSUME NEW x, Stored(x), x # NULL PROVE Stored(x)'
            BY DEF Stored
        <3> PICK u \in Threads : \E k \in 1..calls[u] :
                x = <<u, k>> /\ (pc[u] \in Preparing => k < calls[u])
            BY DEF Stored
        <3> PICK k \in 1..calls[u] : x = <<u, k>> /\ (pc[u] \in Preparing => k < calls[u])
            OBVIOUS
        <3>1. k \in 1..calls'[u] /\ (pc'[u] \in Preparing => k < calls'[u])
            BY <1>0, <2>1
        <3> QED BY <3>1 DEF Stored
    <2>3. \A u \in Threads : pc'[u] \in Preparing => item'[u] = <<u, calls'[u]>> /\ calls'[u] > 0
        BY <1>0, <2>1 DEF SentInv
    <2>4. pc'[Web] \in Taken \cup Dropped => pc'[Web] = pc[Web]
        BY <1>0, <2>1 DEF Taken, Dropped
    <2>5. \A n \in Nodes : Stored(heap[n].message)'
        BY <2>1, <2>2 DEF SentInv
    <2>6. \A i : Message(i)' = Message(i) /\ (Real(i)' <=> Real(i))
        BY <2>1 DEF Message, Real
    <2>7. \A i \in DOMAIN sent' : Stored(Message(i))'
        BY <2>1, <2>2, <2>6 DEF SentInv
    <2>8. pc'[Web] \in Taken \cup Dropped /\ ret'.message # NULL =>
              /\ Stored(ret.message)'
              /\ \A i \in DOMAIN sent' : Message(i)' # ret'.message
              /\ \A n \in live' : heap'[n].message = ret'.message
                     => pc'[Web] \in Taken /\ n = cur'[Web]
        BY <2>1, <2>2, <2>4, <2>6 DEF SentInv
    <2> QED BY <2>1, <2>3, <2>5, <2>6, <2>7, <2>8 DEF SentInv
<1>4. CASE EnqueueSetHead(t)
    <2> PICK n \in Nodes \ live : heap' = [heap EXCEPT ![n] = Zeroed] /\ live' = live \cup {n}
        BY <1>4 DEF EnqueueSetHead
    <2>1. \A m \in Nodes : heap'[m].message = heap[m].message \/ heap'[m].message = NULL
        BY <1>0 DEF Zeroed
    <2>2. heap'[n].message = NULL
        BY <1>0 DEF Zeroed
    <2>3. /\ pc'[t] = "message" /\ pc[t] = "set_head" /\ UNCHANGED <<calls, item>>
          /\ \A u \in Threads : u # t => pc'[u] = pc[u]
        BY <1>0, <1>4 DEF EnqueueSetHead
    <2> QED BY <1>0, <1>2, <2>1, <2>2, <2>3 DEF Preparing
<1>5. CASE EnqueueLink(t)
    <2> PICK n \in Nodes \ live :
            /\ heap' = [heap EXCEPT ![n] = Zeroed, ![cur[t]].next = n]
            /\ live' = live \cup {n}
        BY <1>5 DEF EnqueueLink
    <2> DEFINE calloced == [heap EXCEPT ![n] = Zeroed]
    <2>1. calloced \in [Nodes -> Packet] /\ cur[t] \in Nodes
        BY <1>0, <1>5 DEF EnqueueLink, Packet, Zeroed, Value, Pointer
    <2>2. heap' = [calloced EXCEPT ![cur[t]].next = n]
        OBVIOUS
    <2>3. /\ calloced[n].message = NULL
          /\ \A m \in Nodes : calloced[m].message = heap[m].message \/ calloced[m].message = NULL
        BY <1>0 DEF Zeroed
    <2> HIDE DEF calloced
    <2>4. \A m \in Nodes : heap'[m].message = calloced[m].message
        BY <2>1, <2>2 DEF Packet
    <2>5. /\ pc'[t] = "message" /\ pc[t] = "link" /\ UNCHANGED <<calls, item>>
          /\ \A u \in Threads : u # t => pc'[u] = pc[u]
        BY <1>0, <1>5 DEF EnqueueLink
    <2> QED BY <1>0, <1>2, <2>3, <2>4, <2>5 DEF Preparing
<1>6. CASE EnqueueStore(t, "message")
    <2>1. /\ heap' = [heap EXCEPT ![Target(t)]["message"] = item[t]]
          /\ pc[t] = "message" /\ pc' = [pc EXCEPT ![t] = "length"] /\ Target(t) # NULL
          /\ UNCHANGED <<live, calls, item, ret, sent, cur>>
        BY <1>6 DEF EnqueueStore, StoreAfter
    <2>2. /\ item[t] = <<t, calls[t]>> /\ calls[t] > 0 /\ calls[t] \in Nat
        BY <1>0, <2>1 DEF SentInv, Preparing
    <2>3. \A x : x = item[t] => Stored(x)'
        <3> SUFFICES ASSUME NEW x, x = item[t] PROVE Stored(x)'
            OBVIOUS
        <3>1. calls[t] \in 1..calls'[t] /\ pc'[t] \notin Preparing
            BY <1>0, <2>1, <2>2 DEF Preparing
        <3> QED BY <2>2, <3>1 DEF Stored
    <2>4. \A u \in Threads : pc'[u] \in Preparing => pc[u] \in Preparing
        BY <1>0, <2>1 DEF Preparing
    <2>5. \A x : Stored(x) => Stored(x)'
        BY <2>1, <2>4, StoredStays
    <2>6. \A x : Stored(x) /\ x # NULL => x # item[t]
        BY <2>1, <2>2, StoredIsOther DEF Preparing
    <2>7. \A n \in Nodes : heap'[n].message =
                               IF n = Target(t) THEN item[t] ELSE heap[n].message
        BY <1>0, <2>1 DEF Packet
    <2>8. \A n \in Nodes : Stored(heap[n].message)'
        <3> TAKE n \in Nodes
        <3>1. CASE n = Target(t)
            <4>1. heap'[n].message = item[t] BY <2>7, <3>1
            <4> QED BY <2>3, <4>1 DEF Stored
        <3>2. CASE n # Target(t)
            <4>1. heap'[n].message = heap[n].message /\ Stored(heap[n].message)
                BY <2>7, <3>2 DEF SentInv
            <4>2. \A x : x = heap[n].message => Stored(x)'
                BY <2>5, <4>1
            <4> QED BY <4>1, <4>2 DEF Stored
        <3> QED BY <3>1, <3>2
    <2>9. \A m, n \in Nodes :
              heap'[m].message = heap'[n].message /\ heap'[m].message # NULL => m = n
        BY <2>6, <2>7 DEF SentInv
    <2>10. \A i : Message(i)' = Message(i) /\ (Real(i)' <=> Real(i))
        BY <2>1 DEF Message, Real
    <2>11. \A i \in DOMAIN sent' : Stored(Message(i))'
        BY <2>1, <2>5, <2>10 DEF SentInv
    <2>12. \A i \in DOMAIN sent', n \in live' : Real(i)' => heap'[n].message # Message(i)'
        BY <1>0, <2>1, <2>6, <2>7, <2>10 DEF SentInv, Real
    <2>13. pc'[Web] \in Taken \cup Dropped => pc'[Web] = pc[Web]
        BY <1>0, <2>1 DEF Taken, Dropped
    <2>14. pc'[Web] \in Taken \cup Dropped /\ ret'.message # NULL =>
              /\ Stored(ret.message)'
              /\ \A i \in DOMAIN sent' : Message(i)' # ret'.message
              /\ \A n \in live' : heap'[n].message = ret'.message
                     => pc'[Web] \in Taken /\ n = cur'[Web]
        BY <1>0, <2>1, <2>5, <2>6, <2>7, <2>10, <2>13 DEF SentInv
    <2>15. \A u \in Threads : pc'[u] \in Preparing => item'[u] = <<u, calls'[u]>> /\ calls'[u] > 0
        BY <2>1, <2>4 DEF SentInv
    <2> QED BY <2>1, <2>8, <2>9, <2>10, <2>11, <2>12, <2>14, <2>15 DEF SentInv
<1>7. CASE \E field \in {"length", "opcode"} : EnqueueStore(t, field)
    <2> PICK field \in {"length", "opcode"} : EnqueueStore(t, field)
        BY <1>7
    <2>1. /\ heap' = [heap EXCEPT ![Target(t)][field] = item[t]]
          /\ pc'[t] \in {"opcode", "next"} /\ UNCHANGED <<live, calls, item>>
          /\ \A u \in Threads : u # t => pc'[u] = pc[u]
        BY <1>0 DEF EnqueueStore, StoreAfter
    <2>2. \A n \in Nodes : heap'[n].message = heap[n].message
        BY <1>0, <2>1 DEF Packet
    <2> QED BY <1>0, <1>2, <2>1, <2>2 DEF Preparing
<1>8. CASE EnqueueStoreNext(t)
    <2>1. /\ heap' = [heap EXCEPT ![Target(t)].next = NULL]
          /\ pc'[t] = "inc_load" /\ UNCHANGED <<live, calls, item>>
          /\ \A u \in Threads : u # t => pc'[u] = pc[u]
        BY <1>0, <1>8 DEF EnqueueStoreNext
    <2>2. \A n \in Nodes : heap'[n].message = heap[n].message
        BY <1>0, <2>1 DEF Packet
    <2> QED BY <1>0, <1>2, <2>1, <2>2 DEF Preparing
<1>9. CASE \/ Spin(t, "enq_spin", "enq_acquire") \/ Acquire(t, "enq_acquire", "test_head")
           \/ EnqueueTestHead(t) \/ EnqueueLoadHead(t) \/ EnqueueWalk(t) \/ EnqueueAdvance(t)
           \/ CountLoad(t, "inc_load", "inc_store")
           \/ CountStore(t, "inc_store", tmp[t] + 1, "enq_release")
           \/ Release(t, "enq_release", "idle")
    <2>1. UNCHANGED <<heap, live, calls, item>> /\ \A u \in Threads : u # t => pc'[u] = pc[u]
        BY <1>0, <1>9 DEF Spin, Acquire, EnqueueTestHead, EnqueueLoadHead, EnqueueWalk,
            EnqueueAdvance, CountLoad, CountStore, Release
    <2>2. pc'[t] \in Preparing => pc[t] \in Preparing
        BY <1>0, <1>9 DEF Spin, Acquire, EnqueueTestHead, EnqueueLoadHead, EnqueueWalk,
            EnqueueAdvance, CountLoad, CountStore, Release, Preparing
    <2> QED BY <1>0, <1>2, <2>1, <2>2
<1> QED BY <1>3, <1>4, <1>5, <1>6, <1>7, <1>8, <1>9 DEF Enqueue, StoreAfter

LEMMA DequeueSent ==
    ASSUME IInv, ListInv, SentInv, Dequeue
    PROVE  SentInv'
<1> USE DEF At, Goto, server
<1>0. /\ heap \in [Nodes -> Packet] /\ cur \in [Threads -> Pointer] /\ live \subseteq Nodes
      /\ Web \in Threads /\ ret \in Packet /\ sent \in Seq(Packet)
      /\ pc \in [Threads -> Outside \cup EnqueueInside \cup DequeueInside]
    BY DEF IInv, TypeOK, Threads
<1>1. UNCHANGED <<heap, calls, item>> /\ live' \subseteq live
      /\ \A t \in Threads : t # Web => pc'[t] = pc[t]
    BY <1>0 DEF Dequeue, WriteableCallback, Spin, Acquire, DequeueLoadHead, DequeueCheck,
        DequeueLoadNext, DequeueUnlink, DequeueRead, DequeueFree, CountLoad, CountStore,
        Release, Deliver
<1>2. pc'[Web] \notin Preparing
    BY <1>0 DEF Dequeue, WriteableCallback, Spin, Acquire, DequeueLoadHead, DequeueCheck,
        DequeueLoadNext, DequeueUnlink, DequeueRead, ReadField, ReadAfter, DequeueFree,
        CountLoad, CountStore, Release, Deliver, Preparing
<1>3. \A t \in Threads : pc'[t] \in Preparing => pc[t] \in Preparing
    BY <1>1, <1>2
<1>4. \A x : Stored(x) => Stored(x)'
    BY <1>1, <1>3, StoredStays
<1>5. CASE \E label \in DOMAIN ReadField : DequeueRead(label)
    <2> PICK label \in {"ret_message", "ret_length", "ret_opcode"} : DequeueRead(label)
        BY <1>5 DEF ReadField
    <2>1. /\ pc[Web] = label /\ pc'[Web] \in Taken /\ UNCHANGED <<live, cur, sent>>
          /\ ret' = [ret EXCEPT ![ReadField[label]] = heap[cur[Web]][ReadField[label]]]
        BY <1>0 DEF DequeueRead, ReadAfter, Taken
    <2>2. \A i : Message(i)' = Message(i) /\ (Real(i)' <=> Real(i))
        BY <2>1 DEF Message, Real
    <2>3. \A n \in Nodes : Stored(heap[n].message)'
        BY <1>1, <1>4 DEF SentInv
    <2>4. \A i \in DOMAIN sent' : Stored(Message(i))'
        BY <1>4, <2>1, <2>2 DEF SentInv
    <2>5. ret'.message # NULL =>
              /\ Stored(ret.message)'
              /\ \A i \in DOMAIN sent' : Message(i)' # ret'.message
              /\ \A n \in live' : heap'[n].message = ret'.message => n = cur'[Web]
        <3>1. CASE label = "ret_message"
            <4>1. cur[Web] \in live
                BY <2>1, <3>1 DEF ListInv, Holding, Unlinked
            <4>2. ret'.message = heap[cur[Web]].message
                BY <1>0, <2>1, <3>1 DEF ReadField, Packet
            <4>3. \A x : x = heap[cur[Web]].message => Stored(x)'
                BY <1>0, <1>4, <4>1 DEF SentInv
            <4>4. ret'.message # NULL => \A i \in DOMAIN sent' : Message(i)' # ret'.message
                BY <2>1, <2>2, <4>1, <4>2 DEF SentInv, Real
            <4>5. ret'.message # NULL =>
                      \A n \in live' : heap'[n].message = ret'.message => n = cur'[Web]
                BY <1>0, <1>1, <2>1, <4>1, <4>2 DEF SentInv
            <4> QED BY <4>2, <4>3, <4>4, <4>5 DEF Stored
        <3>2. CASE label # "ret_message"
            <4>1. ret'.message = ret.message /\ pc[Web] \in Taken
                BY <1>0, <2>1, <3>2 DEF ReadField, Packet, Taken
            <4>2. \A x : x = ret.message /\ x # NULL => Stored(x)'
                BY <1>4, <4>1 DEF SentInv
            <4>3. ret'.message # NULL =>
                      /\ \A i \in DOMAIN sent' : Message(i)' # ret'.message
                      /\ \A n \in live' : heap'[n].message = ret'.message => n = cur'[Web]
                BY <1>1, <2>1, <2>2, <4>1 DEF SentInv
            <4> QED BY <4>1, <4>2, <4>3 DEF Stored
        <3> QED BY <3>1, <3>2
    <2> QED BY <1>1, <1>3, <2>1, <2>2, <2>3, <2>4, <2>5 DEF SentInv
<1>6. CASE Deliver
    <2>1. /\ pc[Web] = "deliver" /\ pc'[Web] = "idle" /\ sent' = Append(sent, ret)
          /\ UNCHANGED <<live, ret>>
        BY <1>0, <1>6 DEF Deliver
    <2>2. \A i \in DOMAIN sent' :
              \/ i \in DOMAIN sent /\ sent'[i] = sent[i]
              \/ i \notin DOMAIN sent /\ i = Len(sent) + 1 /\ sent'[i] = ret
        BY <1>0, <2>1
    <2>3. ret.message # NULL =>
              /\ Stored(ret.message)
              /\ \A i \in DOMAIN sent : Message(i) # ret.message
              /\ \A n \in live : heap[n].message # ret.message
        BY <2>1 DEF SentInv, Dropped, Taken
    <2>4. Stored(ret.message)
        BY <2>3 DEF Stored
    <2>5. \A n \in Nodes : Stored(heap[n].message)'
        BY <1>1, <1>4 DEF SentInv
    <2>6. \A i \in DOMAIN sent' : Stored(Message(i))'
        <3> TAKE i \in DOMAIN sent'
        <3>1. \A x : x = ret.message \/ (i \in DOMAIN sent /\ x = sent[i].message) => Stored(x)'
            BY <1>4, <2>4 DEF SentInv, Message
        <3>2. sent'[i].message = ret.message
              \/ (i \in DOMAIN sent /\ sent'[i].message = sent[i].message)
            BY <2>2
        <3> QED BY <3>1, <3>2 DEF Stored, Message
    <2>7. \A i \in DOMAIN sent', n \in live' : Real(i)' => heap'[n].message # Message(i)'
        BY <1>1, <2>1, <2>2, <2>3 DEF SentInv, Real, Message
    <2>8. \A i, j \in DOMAIN sent' : Real(i)' /\ Message(i)' = Message(j)' => i = j
        <3>1. \A i, j \in DOMAIN sent' :
                  sent'[i].message # NULL /\ sent'[i].message = sent'[j].message => i = j
            <4> TAKE i, j \in DOMAIN sent'
            <4>1. CASE i \in DOMAIN sent /\ j \in DOMAIN sent
                BY <2>2, <4>1 DEF SentInv, Real, Message
            <4>2. CASE i \notin DOMAIN sent \/ j \notin DOMAIN sent
                BY <2>2, <2>3, <4>2 DEF Message
            <4> QED BY <4>1, <4>2
        <3> QED BY <3>1 DEF Real, Message
    <2>9. pc'[Web] \notin Taken \cup Dropped
        BY <2>1 DEF Taken, Dropped
    <2> QED BY <1>1, <1>3, <2>5, <2>6, <2>7, <2>8, <2>9 DEF SentInv
<1>7. CASE DequeueFree
    <2>1. /\ pc[Web] = "deq_free" /\ pc'[Web] = "dec_load" /\ live' = live \ {cur[Web]}
          /\ UNCHANGED <<ret, sent, cur>>
        BY <1>0, <1>7 DEF DequeueFree
    <2> QED BY <1>0, <1>1, <1>3, <2>1, QuietSent DEF Taken, Dropped
<1>8. CASE \/ WriteableCallback \/ DequeueLoadHead \/ DequeueCheck \/ DequeueLoadNext
           \/ DequeueUnlink
           \/ Spin(Web, "deq_spin", "deq_acquire") \/ Acquire(Web, "deq_acquire", "deq_head")
           \/ CountLoad(Web, "dec_load", "dec_store")
           \/ CountStore(Web, "dec_store", tmp[Web] - 1, "deq_release")
           \/ Release(Web, "deq_release", "deliver")
    <2>1. UNCHANGED <<live, ret, sent>> /\ pc'[Web] \notin Taken
          /\ (pc'[Web] \in Dropped => pc[Web] \in Dropped)
        BY <1>0, <1>8 DEF WriteableCallback, Spin, Acquire, DequeueLoadHead, DequeueCheck,
            DequeueLoadNext, DequeueUnlink, CountLoad, CountStore, Release, Taken, Dropped
    <2> QED BY <1>0, <1>1, <1>3, <2>1, QuietSent
<1> QED BY <1>5, <1>6, <1>7, <1>8 DEF Dequeue

LEMMA SentStep == IInv /\ ListInv /\ SentInv /\ [Next]_vars => SentInv'
<1> SUFFICES ASSUME IInv, ListInv, SentInv, [Next]_vars PROVE SentInv'
    OBVIOUS
<1>1. CASE \E t \in Threads : Enqueue(t) BY <1>1, EnqueueSent
<1>2. CASE Dequeue BY <1>2, DequeueSent
<1>3. CASE (\E t \in Threads : Crash(t)) \/ UNCHANGED vars
    <2>1. UNCHANGED <<heap, live, pc, cur, item, ret, calls, sent>>
        BY <1>3 DEF Crash, vars, server
    <2> QED BY <2>1 DEF SentInv, Stored, Message, Real
<1> QED BY <1>1, <1>2, <1>3 DEF Next, Exited

(* No message reaches lws_write twice, whatever races spin_lock lets       *)
(* through: free(p.message) of emu_server.cpp:148 is never a double free.  *)
THEOREM NeverSentTwice == SpecSafety => []SentOnce
<1>1. Init => SentInv
    BY PQAssumption DEF Init, SentInv, Stored, Zeroed, Preparing, Taken, Dropped, Threads
<1>2. SentInv => SentOnce
    BY DEF SentInv, SentOnce
<1> QED BY <1>1, <1>2, SafetyIInv, SafetyList, SentStep, PTL DEF SpecSafety

-----------------------------------------------------------------------------
(* What an enqueuer follows before a race                                  *)

\* An enqueuer that has met nobody inside the lock follows good pointers.
Sound(t) ==
    /\ pc[t] = "load_head" => pending_packets_head # NULL
    /\ pc[t] \in {"walk", "advance", "link"} => cur[t] \in live
    /\ pc[t] = "advance" => Succ(cur[t]) # NULL
    /\ pc[t] \in {"message", "length", "opcode", "next"} =>
           cur[t] \in live /\ (first[t] \/ Succ(cur[t]) # NULL)

RaceInv == ~raced => ~Met /\ \A t \in Threads : Sound(t)

\* Only the web thread dequeues and delivers.
OnlyWebDequeues == \A t \in Producers : pc[t] \notin DequeueInside \cup {"deliver"}

LEMMA WebDequeues == IInv /\ OnlyWebDequeues /\ [Next]_vars => OnlyWebDequeues'
<1> SUFFICES ASSUME IInv, OnlyWebDequeues, [Next]_vars, NEW u \in Producers
             PROVE  pc'[u] \notin DequeueInside \cup {"deliver"}
    BY DEF OnlyWebDequeues
<1> USE DEF At, Goto
<1>0. /\ pc \in [Threads -> Outside \cup EnqueueInside \cup DequeueInside]
      /\ u \in Threads /\ u # Web /\ pc[u] \notin DequeueInside \cup {"deliver"}
    BY PQAssumption DEF IInv, TypeOK, Threads, OnlyWebDequeues
<1>1. ASSUME NEW t \in Threads, Enqueue(t) PROVE pc'[u] \notin DequeueInside \cup {"deliver"}
    BY <1>0, <1>1 DEF Enqueue, EnqueueCall, Spin, Acquire, EnqueueTestHead, EnqueueSetHead,
        EnqueueLoadHead, EnqueueWalk, EnqueueAdvance, EnqueueLink, EnqueueStore, StoreAfter,
        EnqueueStoreNext, CountLoad, CountStore, Release, DequeueInside
<1>2. CASE Dequeue
    BY <1>0, <1>2 DEF Dequeue, WriteableCallback, Spin, Acquire, DequeueLoadHead, DequeueCheck,
        DequeueLoadNext, DequeueUnlink, DequeueRead, DequeueFree, CountLoad, CountStore,
        Release, Deliver
<1>3. CASE (\E t \in Threads : Crash(t)) \/ UNCHANGED vars
    BY <1>0, <1>3 DEF Crash, vars
<1> QED BY <1>1, <1>2, <1>3 DEF Next, Exited

LEMMA SoundNeverCrashes ==
    ASSUME ListInv, OnlyWebDequeues, NEW t \in Threads, Sound(t), pc[t] # "deliver"
    PROVE  Dereferenced(t) \subseteq live
<1>1. CASE pc[t] \in {"deq_next"} \cup DOMAIN ReadField /\ t = Web
    BY <1>1 DEF ListInv, Holding, Unlinked, ReadField, Dereferenced
<1> QED BY <1>1 DEF Sound, ListInv, Succ, Dereferenced, Target, ReadField, OnlyWebDequeues,
        DequeueInside, Threads

\* A step from outside the lock: its thread does not get far enough inside
\* to hold a pointer, and disturbs nobody's.
LEMMA OutsideStep ==
    ASSUME NEW t \in Threads, \A u \in Threads : Sound(u),
           UNCHANGED <<pending_packets_head, heap, live, cur, first>>,
           pc'[t] \notin {"load_head", "walk", "advance", "link", "message", "length",
                          "opcode", "next"},
           \A u \in Threads : u # t => pc'[u] = pc[u]
    PROVE  \A u \in Threads : Sound(u)'
BY DEF Sound, Succ

LEMMA EnqueueSound ==
    ASSUME IInv, ListInv, NEW t \in Threads, Enqueue(t), ~Met,
           \A u \in Threads : Sound(u)
    PROVE  \A u \in Threads : Sound(u)'
<1> USE DEF At, Goto, server
<1>0. /\ heap \in [Nodes -> Packet] /\ cur \in [Threads -> Pointer] /\ live \subseteq Nodes
      /\ NULL \notin Nodes /\ first \in [Threads -> BOOLEAN]
      /\ pc \in [Threads -> Outside \cup EnqueueInside \cup DequeueInside]
    BY PQAssumption DEF IInv, TypeOK
<1>1. \A u \in Threads : u # t => pc'[u] = pc[u]
    BY <1>0 DEF Enqueue, EnqueueCall, Spin, Acquire, EnqueueTestHead, EnqueueSetHead,
        EnqueueLoadHead, EnqueueWalk, EnqueueAdvance, EnqueueLink, EnqueueStore,
        EnqueueStoreNext, CountLoad, CountStore, Release
<1>2. CASE \/ EnqueueCall(t) \/ Spin(t, "enq_spin", "enq_acquire")
           \/ Acquire(t, "enq_acquire", "test_head")
    <2>1. /\ UNCHANGED <<pending_packets_head, heap, live, cur, first>>
          /\ pc'[t] \in {"enq_spin", "enq_acquire", "test_head"}
        BY <1>0, <1>2 DEF EnqueueCall, Spin, Acquire
    <2> QED BY <1>1, <2>1, OutsideStep
<1>3. ASSUME pc[t] \in EnqueueInside, Sound(t)' PROVE \A u \in Threads : Sound(u)'
    <2> SUFFICES ASSUME NEW u \in Threads, u # t PROVE Sound(u)'
        BY <1>3
    <2>1. pc'[u] = pc[u] /\ pc[u] \notin EnqueueInside
        BY <1>1, <1>3 DEF Met, Inside
    <2> QED BY <2>1 DEF Sound, EnqueueInside
<1>4. CASE EnqueueTestHead(t)
    <2>1. Sound(t)'
        BY <1>0, <1>4 DEF EnqueueTestHead, Sound
    <2> QED BY <1>3, <1>4, <2>1 DEF EnqueueTestHead, EnqueueInside
<1>5. CASE EnqueueSetHead(t)
    <2>1. Sound(t)'
        BY <1>0, <1>5 DEF EnqueueSetHead, Sound
    <2> QED BY <1>3, <1>5, <2>1 DEF EnqueueSetHead, EnqueueInside
<1>6. CASE EnqueueLoadHead(t)
    <2>1. Sound(t)'
        BY <1>0, <1>6 DEF EnqueueLoadHead, Sound, ListInv
    <2> QED BY <1>3, <1>6, <2>1 DEF EnqueueLoadHead, EnqueueInside
<1>7. CASE EnqueueWalk(t)
    <2>1. Sound(t)'
        BY <1>0, <1>7 DEF EnqueueWalk, Sound, Succ
    <2> QED BY <1>3, <1>7, <2>1 DEF EnqueueWalk, EnqueueInside
<1>8. CASE EnqueueAdvance(t)
    <2>1. Sound(t)'
        BY <1>0, <1>8 DEF EnqueueAdvance, Sound, Succ, ListInv
    <2> QED BY <1>3, <1>8, <2>1 DEF EnqueueAdvance, EnqueueInside
<1>9. CASE EnqueueLink(t)
    <2> PICK n \in Nodes \ live :
            /\ heap' = [heap EXCEPT ![n] = Zeroed, ![cur[t]].next = n]
            /\ live' = live \cup {n}
        BY <1>9 DEF EnqueueLink
    <2> DEFINE calloced == [heap EXCEPT ![n] = Zeroed]
    <2>1. calloced \in [Nodes -> Packet] /\ cur[t] \in Nodes
        BY <1>0, <1>9 DEF EnqueueLink, Packet, Zeroed, Value, Pointer
    <2>2. heap' = [calloced EXCEPT ![cur[t]].next = n]
        OBVIOUS
    <2> HIDE DEF calloced
    <2>3. heap'[cur[t]].next = n
        BY <2>1, <2>2 DEF Packet
    <2>4. cur'[t] = cur[t] /\ cur[t] \in live /\ pc'[t] = "message" /\ pc[t] = "link"
        BY <1>0, <1>9 DEF EnqueueLink, Sound
    <2>5. Sound(t)'
        BY <1>0, <2>3, <2>4 DEF Sound, Succ
    <2> QED BY <1>3, <2>4, <2>5 DEF EnqueueInside
<1>10. CASE \E field \in {"message", "length", "opcode"} : EnqueueStore(t, field)
    <2> PICK field \in {"message", "length", "opcode"} : EnqueueStore(t, field)
        BY <1>10
    <2>1. /\ heap' = [heap EXCEPT ![Target(t)][field] = item[t]]
          /\ pc[t] = field /\ pc'[t] \in {"length", "opcode", "next"}
          /\ UNCHANGED <<live, cur, first>>
        BY <1>0 DEF EnqueueStore, StoreAfter
    <2>2. \A n \in Nodes : heap'[n].next = heap[n].next
        BY <1>0, <2>1 DEF Packet
    <2>3. Sound(t)'
        BY <1>0, <2>1, <2>2 DEF Sound, Succ
    <2> QED BY <1>3, <2>1, <2>3 DEF EnqueueInside
<1>11. CASE \/ EnqueueStoreNext(t) \/ CountLoad(t, "inc_load", "inc_store")
            \/ CountStore(t, "inc_store", tmp[t] + 1, "enq_release")
            \/ Release(t, "enq_release", "idle")
    <2>1. pc[t] \in EnqueueInside /\ pc'[t] \in {"inc_load", "inc_store", "enq_release", "idle"}
        BY <1>0, <1>11 DEF EnqueueStoreNext, CountLoad, CountStore, Release, EnqueueInside
    <2> QED BY <1>3, <2>1 DEF Sound
<1> QED BY <1>2, <1>4, <1>5, <1>6, <1>7, <1>8, <1>9, <1>10, <1>11 DEF Enqueue, StoreAfter

LEMMA DequeueSound ==
    ASSUME IInv, Dequeue, ~Met, \A u \in Threads : Sound(u)
    PROVE  \A u \in Threads : Sound(u)'
<1> USE DEF At, Goto, server
<1>0. /\ pc \in [Threads -> Outside \cup EnqueueInside \cup DequeueInside] /\ Web \in Threads
    BY DEF IInv, TypeOK, Threads
<1>1. \A u \in Threads : u # Web => pc'[u] = pc[u]
    BY <1>0 DEF Dequeue, WriteableCallback, Spin, Acquire, DequeueLoadHead, DequeueCheck,
        DequeueLoadNext, DequeueUnlink, DequeueRead, DequeueFree, CountLoad, CountStore,
        Release, Deliver
<1>2. pc'[Web] \notin EnqueueInside
    BY <1>0 DEF Dequeue, WriteableCallback, Spin, Acquire, DequeueLoadHead, DequeueCheck,
        DequeueLoadNext, DequeueUnlink, DequeueRead, ReadField, ReadAfter, DequeueFree,
        CountLoad, CountStore, Release, Deliver, EnqueueInside
<1>3. CASE \/ WriteableCallback \/ Spin(Web, "deq_spin", "deq_acquire")
           \/ Acquire(Web, "deq_acquire", "deq_head") \/ Deliver
    <2>1. UNCHANGED <<pending_packets_head, heap, live, cur, first>>
        BY <1>3 DEF WriteableCallback, Spin, Acquire, Deliver
    <2> QED BY <1>0, <1>1, <1>2, <2>1, OutsideStep DEF EnqueueInside
<1>4. CASE pc[Web] \in DequeueInside
    <2>1. \A u \in Threads : pc'[u] \notin EnqueueInside
        BY <1>0, <1>1, <1>2, <1>4 DEF Met, Inside
    <2> QED BY <2>1 DEF Sound, EnqueueInside
<1> QED BY <1>3, <1>4 DEF Dequeue, DequeueLoadHead, DequeueCheck, DequeueLoadNext, DequeueUnlink,
        DequeueRead, ReadField, DequeueFree, CountLoad, CountStore, Release, DequeueInside

LEMMA RaceStep ==
    IInv /\ ListInv /\ RaceInv /\ [RNext]_<<vars, raced>> => RaceInv'
<1> SUFFICES ASSUME IInv, ListInv, RaceInv, [RNext]_<<vars, raced>>, ~raced'
             PROVE  (~Met /\ \A t \in Threads : Sound(t))'
    BY DEF RaceInv
<1>1. CASE UNCHANGED <<vars, raced>>
    BY <1>1 DEF RaceInv, vars, server, Met, Inside, Sound, Succ
<1>2. CASE RNext
    <2>1. ~raced /\ ~Met' /\ ~Met /\ \A t \in Threads : Sound(t)
        BY <1>2 DEF RNext, RaceInv
    <2>2. CASE (\E t \in Threads : Crash(t)) \/ Exited
        <3>1. UNCHANGED <<pending_packets_head, heap, live, pc, cur, first>>
            BY <2>2 DEF Crash, Exited, vars, server
        <3> QED BY <2>1, <3>1 DEF Sound, Succ
    <2>3. CASE \E t \in Threads : Enqueue(t)
        BY <2>1, <2>3, EnqueueSound
    <2>4. CASE Dequeue
        BY <2>1, <2>4, DequeueSound
    <2> QED BY <1>2, <2>1, <2>2, <2>3, <2>4 DEF RNext, Next
<1> QED BY <1>1, <1>2
=============================================================================
