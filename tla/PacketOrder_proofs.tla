------------------------- MODULE PacketOrder_proofs -------------------------
(***************************************************************************)
(* In which order the packets leave, for any number of producers, calls    *)
(* and blocks.  Whatever spin_lock lets through, no packet of a thread     *)
(* overtakes another of the same thread.                                   *)
(***************************************************************************)
EXTENDS PacketQueue_proofs

-----------------------------------------------------------------------------
(* The age of blocks.  born says when calloc last returned a block, since  *)
(* when a thread last called calloc, gone how old the block was that was   *)
(* last taken off the list, and now is the last date given.  The dates are *)
(* no part of the state: the invariant says that there are some.           *)

Msg(n) == heap[n].message

\* Messages of one thread are ordered by the calls.
Before(x, y) == x # NULL /\ y # NULL /\ x[1] = y[1] => x[2] < y[2]

\* Pointers lead to younger blocks: only a block just allocated is made the
\* target of a pointer.  A block may point to itself, when the cur of an
\* enqueuer was freed and calloc has just returned it again.
Births(born, since, now) ==
    /\ \A n \in Nodes : born[n] <= now
    /\ \A t \in Threads : since[t] <= now
    /\ \A n \in live : born[n] # 0
    /\ \A m, n \in Nodes : born[m] = born[n] /\ born[m] # 0 => m = n
    /\ \A n \in Nodes : Succ(n) # NULL => born[n] <= born[Succ(n)]

\* The blocks are taken off the list in the order of their age.
Onwards(born, gone, now) ==
    /\ gone <= now
    /\ pending_packets_head # NULL => gone < born[pending_packets_head]
    /\ pc[Web] \in {"deq_check", "deq_next", "deq_unlink"} => gone < born[cur[Web]]
    /\ pc[Web] = "deq_unlink" /\ nxt # NULL => born[cur[Web]] < born[nxt]
    /\ pc[Web] \in Unlinked => gone = born[cur[Web]]

\* A thread about to store its message stores it to its own block or, after
\* a race, to a younger one, and its earlier messages are in older ones.
Filled(born, since) ==
    \A t \in Threads : pc[t] = "message" =>
        /\ first[t] => since[t] <= born[cur[t]]
        /\ ~first[t] /\ Succ(cur[t]) # NULL => since[t] <= born[Succ(cur[t])]
        /\ \A n \in Nodes : Msg(n) # NULL /\ Msg(n)[1] = t => born[n] < since[t]

\* The younger the block, the later the message.
Ordered(born, gone) ==
    /\ \A m, n \in Nodes : born[m] < born[n] => Before(Msg(m), Msg(n))
    /\ \A i \in DOMAIN sent, n \in Nodes :
           gone < born[n] \/ (pc[Web] = "ret_message" /\ n = cur[Web])
               => Before(Message(i), Msg(n))
    /\ pc[Web] \in Taken \cup Dropped =>
           /\ \A i \in DOMAIN sent : Before(Message(i), ret.message)
           /\ \A n \in Nodes : gone < born[n] => Before(ret.message, Msg(n))
    /\ \A i, j \in DOMAIN sent : i < j => Before(Message(i), Message(j))

Aged(born, since, gone, now) ==
    /\ Births(born, since, now) /\ Onwards(born, gone, now)
    /\ Filled(born, since) /\ Ordered(born, gone)

AgeInv ==
    \E born \in [Nodes -> Nat], since \in [Threads -> Nat], gone \in Nat, now \in Nat :
        Aged(born, since, gone, now)

\* A thread that walks over the list has found it not empty.
Walking == \A t \in Threads : pc[t] \in {"walk", "advance", "link"} => ~first[t]

LEMMA WalkingStep == IInv /\ Walking /\ [Next]_vars => Walking'
<1> SUFFICES ASSUME IInv, Walking, [Next]_vars PROVE Walking'
    OBVIOUS
<1> USE DEF At, Goto
<1>0. /\ pc \in [Threads -> Outside \cup EnqueueInside \cup DequeueInside]
      /\ first \in [Threads -> BOOLEAN] /\ Web \in Threads
    BY DEF IInv, TypeOK, Threads
<1>1. ASSUME NEW t \in Threads, Enqueue(t) PROVE Walking'
    <2>1. \A u \in Threads : u # t => pc'[u] = pc[u] /\ first'[u] = first[u]
        BY <1>0, <1>1 DEF Enqueue, EnqueueCall, Spin, Acquire, EnqueueTestHead, EnqueueSetHead,
            EnqueueLoadHead, EnqueueWalk, EnqueueAdvance, EnqueueLink, EnqueueStore,
            EnqueueStoreNext, CountLoad, CountStore, Release
    <2>2. pc'[t] \in {"walk", "advance", "link"} =>
              \/ ~first'[t]
              \/ pc[t] \in {"walk", "advance", "link"} /\ first'[t] = first[t]
        BY <1>0, <1>1 DEF Enqueue, EnqueueCall, Spin, Acquire, EnqueueTestHead, EnqueueSetHead,
            EnqueueLoadHead, EnqueueWalk, EnqueueAdvance, EnqueueLink, EnqueueStore, StoreAfter,
            EnqueueStoreNext, CountLoad, CountStore, Release
    <2> QED BY <2>1, <2>2 DEF Walking
<1>2. CASE Dequeue
    <2>1. /\ first' = first /\ \A u \in Threads : u # Web => pc'[u] = pc[u]
          /\ pc'[Web] \notin {"walk", "advance", "link"}
        BY <1>0, <1>2 DEF Dequeue, WriteableCallback, Spin, Acquire, DequeueLoadHead,
            DequeueCheck, DequeueLoadNext, DequeueUnlink, DequeueRead, ReadField, ReadAfter,
            DequeueFree, CountLoad, CountStore, Release, Deliver
    <2> QED BY <2>1 DEF Walking
<1>3. CASE (\E t \in Threads : Crash(t)) \/ UNCHANGED vars
    BY <1>3 DEF Crash, vars, Walking
<1> QED BY <1>1, <1>2, <1>3 DEF Next, Exited

\* A step that leaves the list and the messages alone.
LEMMA QuietAge ==
    ASSUME NEW born \in [Nodes -> Nat], NEW since \in [Threads -> Nat],
           NEW gone \in Nat, NEW now \in Nat, Aged(born, since, gone, now),
           WebAside, UNCHANGED <<pending_packets_head, live>>,
           \A n \in Nodes : Succ(n)' \in {Succ(n), NULL} /\ Msg(n)' = Msg(n),
           \A t \in Threads : pc'[t] = "message" =>
               pc[t] = "message" /\ cur'[t] = cur[t] /\ first'[t] = first[t]
               /\ cur[t] \in Nodes
    PROVE  Aged(born, since, gone, now)'
<1> USE DEF Aged
<1>1. Births(born, since, now)'
    BY DEF Births
<1>2. Onwards(born, gone, now)'
    BY HoldingInside DEF Onwards, WebAside, Holding, Unlinked, DequeueInside
<1>3. Filled(born, since)'
    BY DEF Filled
<1>4. \A i : Message(i)' = Message(i)
    BY DEF WebAside, Message
<1>5. Ordered(born, gone)'
    BY <1>4 DEF Ordered, WebAside, Taken, Dropped, DequeueInside
<1> QED BY <1>1, <1>2, <1>3, <1>5

\* calloc returns a block, to the thread t: the youngest of all.
LEMMA CallocAge ==
    ASSUME NEW born \in [Nodes -> Nat], NEW since \in [Threads -> Nat],
           NEW gone \in Nat, NEW now \in Nat, Aged(born, since, gone, now),
           IInv, ListInv, WebAside,
           NEW t \in Threads, NEW n \in Nodes \ live, live' = live \cup {n},
           pending_packets_head' \in {pending_packets_head, n},
           Msg(n)' = NULL, Succ(n)' \in {NULL, n},
           \A m \in Nodes : m # n => Msg(m)' = Msg(m) /\ Succ(m)' \in {Succ(m), n},
           \A u \in Threads : u # t =>
               pc'[u] = pc[u] /\ cur'[u] = cur[u] /\ first'[u] = first[u],
           pc'[t] = "message", cur'[t] # NULL,
           IF first'[t] THEN cur'[t] = n ELSE heap'[cur'[t]].next = n
    PROVE  Aged([born EXCEPT ![n] = now + 1], [since EXCEPT ![t] = now + 1], gone, now + 1)'
<1> DEFINE b == [born EXCEPT ![n] = now + 1]
           s == [since EXCEPT ![t] = now + 1]
<1>0. /\ cur \in [Threads -> Pointer] /\ live \subseteq Nodes /\ NULL \notin Nodes
      /\ heap \in [Nodes -> Packet] /\ Web \in Threads /\ EnqueueHasBlock
    BY PQAssumption DEF IInv, TypeOK, Threads
<1>1. /\ b \in [Nodes -> Nat] /\ s \in [Threads -> Nat] /\ now + 1 \in Nat
      /\ b[n] = now + 1 /\ \A m \in Nodes : m # n => b[m] = born[m]
      /\ s[t] = now + 1 /\ \A u \in Threads : u # t => s[u] = since[u]
      /\ \A m \in Nodes : born[m] <= now /\ born[m] <= b[m] /\ b[m] <= now + 1
      /\ \A u \in Threads : since[u] <= now
    BY DEF Aged, Births
<1> HIDE DEF b, s
<1>2. Births(b, s, now + 1)'
    <2>1. \A m \in Nodes : Succ(m) \in Nodes \cup {NULL}
        BY <1>0 DEF Succ, Packet, Pointer
    <2>2. \A m \in Nodes : Succ(m)' # NULL => b[m] <= b[Succ(m)']
        <3> SUFFICES ASSUME NEW m \in Nodes, Succ(m)' # NULL PROVE b[m] <= b[Succ(m)']
            OBVIOUS
        <3>1. CASE Succ(m)' = n BY <1>1, <3>1
        <3>2. CASE Succ(m)' # n
            <4>1. m # n /\ Succ(m)' = Succ(m)
                BY <3>2
            <4>2. born[m] <= born[Succ(m)] /\ Succ(m) \in Nodes
                BY <2>1, <4>1 DEF Aged, Births
            <4> QED BY <1>1, <4>1, <4>2
        <3> QED BY <3>1, <3>2
    <2>3. \A m \in live' : b[m] # 0
        BY <1>0, <1>1 DEF Aged, Births
    <2>4. \A l, m \in Nodes : b[l] = b[m] /\ b[l] # 0 => l = m
        <3> SUFFICES ASSUME NEW l \in Nodes, NEW m \in Nodes, b[l] = b[m], b[l] # 0 PROVE l = m
            OBVIOUS
        <3>1. CASE l # n /\ m # n BY <1>1, <3>1 DEF Aged, Births
        <3>2. CASE l = n \/ m = n BY <1>1, <3>2
        <3> QED BY <3>1, <3>2
    <2>5. \A u \in Threads : s[u] <= now + 1
        BY <1>1
    <2> QED BY <1>1, <2>2, <2>3, <2>4, <2>5 DEF Births
<1>3. Onwards(b, gone, now + 1)'
    <2>1. gone <= now
        BY DEF Aged, Onwards
    <2>2. pending_packets_head' # NULL => gone < b[pending_packets_head']
        BY <1>0, <1>1, <2>1 DEF Aged, Onwards, ListInv
    <2>3. pc'[Web] \in Holding => cur'[Web] = cur[Web] /\ pc'[Web] = pc[Web] /\ cur[Web] \in live
        BY HoldingInside DEF WebAside, ListInv
    <2>4. pc'[Web] = "deq_unlink" /\ nxt' # NULL => nxt \in live /\ nxt' = nxt
        BY <2>3 DEF WebAside, ListInv, Holding
    <2>5. \A m \in live : b[m] = born[m]
        BY <1>0, <1>1
    <2> QED BY <1>1, <2>1, <2>2, <2>3, <2>4, <2>5 DEF Aged, Onwards, Holding, Unlinked
<1>4. Filled(b, s)'
    <2> SUFFICES ASSUME NEW u \in Threads, pc'[u] = "message"
                 PROVE  /\ first'[u] => s[u] <= b[cur'[u]]
                        /\ ~first'[u] /\ heap'[cur'[u]].next # NULL => s[u] <= b[heap'[cur'[u]].next]
                        /\ \A m \in Nodes : Msg(m)' # NULL /\ Msg(m)'[1] = u => b[m] < s[u]
        BY DEF Filled, Succ
    <2>0. \A m \in Nodes : heap'[m].next = Succ(m)'
        BY DEF Succ
    <2>1. CASE u = t
        <3>1. \A m \in Nodes : Msg(m)' # NULL => b[m] < s[t]
            BY <1>1
        <3> QED BY <1>1, <2>1, <3>1
    <2>2. CASE u # t
        <3>1. /\ pc[u] = "message" /\ cur'[u] = cur[u] /\ first'[u] = first[u]
              /\ cur[u] \in Nodes
            BY <1>0, <2>2 DEF EnqueueHasBlock, Pointer
        <3>2. first'[u] => s[u] <= b[cur'[u]]
            <4>1. first[u] => since[u] <= born[cur[u]]
                BY <3>1 DEF Aged, Filled
            <4> QED BY <1>1, <2>2, <3>1, <4>1
        <3>3. ASSUME ~first'[u], heap'[cur'[u]].next # NULL PROVE s[u] <= b[heap'[cur'[u]].next]
            <4>1. CASE heap'[cur[u]].next = n
                BY <1>1, <2>2, <3>1, <4>1
            <4>2. CASE heap'[cur[u]].next # n
                <5>1. heap'[cur[u]].next = Succ(cur[u]) /\ Succ(cur[u]) \in Nodes
                    BY <1>0, <2>0, <3>1, <3>3, <4>2 DEF Succ, Packet, Pointer
                <5>2. since[u] <= born[Succ(cur[u])]
                    BY <3>1, <3>3, <5>1 DEF Aged, Filled
                <5> QED BY <1>1, <2>2, <3>1, <5>1, <5>2
            <4> QED BY <4>1, <4>2
        <3>4. ASSUME NEW m \in Nodes, Msg(m)' # NULL, Msg(m)'[1] = u PROVE b[m] < s[u]
            <4>1. m # n /\ Msg(m)' = Msg(m)
                BY <3>4
            <4>2. born[m] < since[u]
                BY <3>1, <3>4, <4>1 DEF Aged, Filled
            <4> QED BY <1>1, <2>2, <4>1, <4>2
        <3> QED BY <3>2, <3>3, <3>4
    <2> QED BY <2>1, <2>2
<1>5. Ordered(b, gone)'
    <2>1. \A i : Message(i)' = Message(i)
        BY DEF WebAside, Message
    <2>2. ASSUME NEW l \in Nodes, NEW m \in Nodes, b[l] < b[m] PROVE Before(Msg(l)', Msg(m)')
        <3>1. CASE l = n \/ m = n BY <3>1 DEF Before
        <3>2. CASE l # n /\ m # n BY <1>1, <2>2, <3>2 DEF Aged, Ordered
        <3> QED BY <3>1, <3>2
    <2>3. ASSUME NEW i \in DOMAIN sent', NEW m \in Nodes,
                 gone < b[m] \/ (pc'[Web] = "ret_message" /\ m = cur'[Web])
          PROVE  Before(Message(i)', Msg(m)')
        <3>1. CASE m = n BY <3>1 DEF Before
        <3>2. CASE m # n
            <4>1. b[m] = born[m] /\ Msg(m)' = Msg(m) /\ sent' = sent
                BY <1>1, <3>2 DEF WebAside
            <4>2. pc'[Web] = "ret_message" => pc[Web] = "ret_message" /\ cur'[Web] = cur[Web]
                BY DEF WebAside, DequeueInside
            <4> QED BY <2>1, <2>3, <4>1, <4>2 DEF Aged, Ordered
        <3> QED BY <3>1, <3>2
    <2>4. pc'[Web] \in Taken \cup Dropped => pc[Web] \in Taken \cup Dropped
        BY DEF WebAside, DequeueInside, Taken, Dropped
    <2>5. ASSUME pc'[Web] \in Taken \cup Dropped, NEW m \in Nodes, gone < b[m]
          PROVE  Before(ret.message', Msg(m)')
        <3>1. CASE m = n BY <3>1 DEF Before
        <3>2. CASE m # n
            <4>1. b[m] = born[m] /\ Msg(m)' = Msg(m) /\ ret' = ret
                BY <1>1, <3>2 DEF WebAside
            <4> QED BY <2>4, <2>5, <4>1 DEF Aged, Ordered
        <3> QED BY <3>1, <3>2
    <2>6. /\ \A i, j \in DOMAIN sent' : i < j => Before(Message(i)', Message(j)')
          /\ pc'[Web] \in Taken \cup Dropped =>
                 \A i \in DOMAIN sent' : Before(Message(i)', ret.message')
        BY <2>1, <2>4 DEF Aged, Ordered, WebAside
    <2> QED BY <2>2, <2>3, <2>5, <2>6 DEF Ordered, Before
<1> QED BY <1>2, <1>3, <1>4, <1>5 DEF Aged, b, s

\* A thread stores its message, the latest of its messages there is.
LEMMA MessageAge ==
    ASSUME NEW born \in [Nodes -> Nat], NEW since \in [Threads -> Nat],
           NEW gone \in Nat, NEW now \in Nat, Aged(born, since, gone, now),
           IInv, SentInv, WebAside, NEW t \in Threads, EnqueueStore(t, "message")
    PROVE  Aged(born, since, gone, now)'
<1> USE DEF At, Goto, server
<1>0. /\ heap \in [Nodes -> Packet] /\ cur \in [Threads -> Pointer] /\ NULL \notin Nodes
      /\ first \in [Threads -> BOOLEAN] /\ calls \in [Threads -> Nat]
      /\ pc \in [Threads -> Outside \cup EnqueueInside \cup DequeueInside]
      /\ EnqueueHasBlock
    BY PQAssumption DEF IInv, TypeOK
<1>1. /\ heap' = [heap EXCEPT ![Target(t)]["message"] = item[t]]
      /\ pc[t] = "message" /\ pc' = [pc EXCEPT ![t] = "length"] /\ Target(t) # NULL
      /\ UNCHANGED <<pending_packets_head, live, calls, item, cur, first>>
    BY DEF EnqueueStore, StoreAfter
<1>2. item[t] = <<t, calls[t]>>
    BY <1>1 DEF SentInv, Preparing
<1>3. cur[t] \in Nodes /\ Target(t) \in Nodes
    BY <1>0, <1>1 DEF EnqueueHasBlock, Target, Pointer, Packet
<1>4. since[t] <= born[Target(t)]
    BY <1>0, <1>1, <1>3 DEF Aged, Filled, Target, Succ
<1>5. \A n \in Nodes : Succ(n)' = Succ(n)
    BY <1>0, <1>1, <1>3 DEF Succ, Packet
<1>6. \A n \in Nodes : Msg(n)' = IF n = Target(t) THEN <<t, calls[t]>> ELSE Msg(n)
    BY <1>0, <1>1, <1>2, <1>3 DEF Msg, Packet
<1>7. ASSUME NEW x, Stored(x) PROVE Before(x, <<t, calls[t]>>)
    <2> SUFFICES ASSUME x # NULL, x[1] = t PROVE x[2] < calls[t]
        BY DEF Before
    <2> PICK u \in Threads : \E k \in 1..calls[u] :
            x = <<u, k>> /\ (pc[u] \in Preparing => k < calls[u])
        BY <1>7 DEF Stored
    <2> QED BY <1>1 DEF Preparing
<1>8. ASSUME NEW n \in Nodes, Msg(n) # NULL, Msg(n)[1] = t PROVE born[n] < since[t]
    BY <1>1, <1>8 DEF Aged, Filled
<1>9. Births(born, since, now)' /\ Onwards(born, gone, now)'
    <2>1. Births(born, since, now)'
        BY <1>1, <1>5 DEF Aged, Births
    <2>2. Onwards(born, gone, now)'
        BY <1>1, HoldingInside DEF Aged, Onwards, WebAside, Holding, Unlinked, DequeueInside
    <2> QED BY <2>1, <2>2
<1>10. Filled(born, since)'
    <2> SUFFICES ASSUME NEW u \in Threads, pc'[u] = "message"
                 PROVE  /\ first'[u] => since[u] <= born[cur'[u]]
                        /\ ~first'[u] /\ heap'[cur'[u]].next # NULL
                               => since[u] <= born[heap'[cur'[u]].next]
                        /\ \A m \in Nodes : Msg(m)' # NULL /\ Msg(m)'[1] = u => born[m] < since[u]
        BY DEF Filled, Succ
    <2>1. u # t /\ pc[u] = "message" /\ cur[u] \in Nodes
        BY <1>0, <1>1 DEF EnqueueHasBlock, Pointer
    <2>2. heap'[cur[u]].next = Succ(cur[u])
        BY <1>5, <2>1 DEF Succ
    <2> QED BY <1>1, <1>6, <2>1, <2>2 DEF Aged, Filled
<1>11. Ordered(born, gone)'
    <2>1. \A i : Message(i)' = Message(i)
        BY DEF WebAside, Message
    <2>2. ASSUME NEW l \in Nodes, NEW m \in Nodes, born[l] < born[m]
          PROVE  Before(Msg(l)', Msg(m)')
        <3>1. CASE l = Target(t)
            <4>1. m # Target(t) /\ Msg(m)' = Msg(m)
                BY <1>6, <2>2, <3>1
            <4>2. Msg(m) # NULL => Msg(m)[1] # t
                BY <1>4, <1>8, <2>2, <3>1
            <4> QED BY <1>6, <3>1, <4>1, <4>2 DEF Before
        <3>2. CASE m = Target(t)
            <4>1. l # Target(t) /\ Msg(l)' = Msg(l) /\ Stored(Msg(l))
                BY <1>6, <2>2, <3>2 DEF SentInv, Msg
            <4> QED BY <1>6, <1>7, <3>2, <4>1
        <3>3. CASE l # Target(t) /\ m # Target(t)
            BY <1>6, <2>2, <3>3 DEF Aged, Ordered
        <3> QED BY <3>1, <3>2, <3>3
    <2>3. ASSUME NEW i \in DOMAIN sent', NEW m \in Nodes,
                 gone < born[m] \/ (pc'[Web] = "ret_message" /\ m = cur'[Web])
          PROVE  Before(Message(i)', Msg(m)')
        <3>1. i \in DOMAIN sent /\ Stored(Message(i))
            BY DEF WebAside, SentInv
        <3>2. CASE m = Target(t) BY <1>6, <1>7, <2>1, <3>1, <3>2
        <3>3. CASE m # Target(t)
            <4>1. Msg(m)' = Msg(m) /\ sent' = sent
                BY <1>6, <3>3 DEF WebAside
            <4>2. pc'[Web] = "ret_message" => pc[Web] = "ret_message" /\ cur'[Web] = cur[Web]
                BY DEF WebAside, DequeueInside
            <4> QED BY <2>1, <2>3, <4>1, <4>2 DEF Aged, Ordered
        <3> QED BY <3>2, <3>3
    <2>4. pc'[Web] \in Taken \cup Dropped => pc[Web] \in Taken \cup Dropped
        BY DEF WebAside, DequeueInside, Taken, Dropped
    <2>5. ASSUME pc'[Web] \in Taken \cup Dropped, NEW m \in Nodes, gone < born[m]
          PROVE  Before(ret.message', Msg(m)')
        <3>1. CASE m = Target(t)
            <4>1. ret' = ret /\ (ret.message # NULL => Stored(ret.message))
                BY <2>4, <2>5 DEF WebAside, SentInv
            <4> QED BY <1>6, <1>7, <3>1, <4>1 DEF Before
        <3>2. CASE m # Target(t)
            <4>1. Msg(m)' = Msg(m) /\ ret' = ret
                BY <1>6, <3>2 DEF WebAside
            <4> QED BY <2>4, <2>5, <4>1 DEF Aged, Ordered
        <3> QED BY <3>1, <3>2
    <2>6. /\ \A i, j \in DOMAIN sent' : i < j => Before(Message(i)', Message(j)')
          /\ pc'[Web] \in Taken \cup Dropped =>
                 \A i \in DOMAIN sent' : Before(Message(i)', ret.message')
        BY <2>1, <2>4 DEF Aged, Ordered, WebAside
    <2> QED BY <2>2, <2>3, <2>5, <2>6 DEF Ordered, Before
<1> QED BY <1>9, <1>10, <1>11 DEF Aged

LEMMA EnqueueAge ==
    ASSUME IInv, ListInv, SentInv, Walking, AgeInv, NEW t \in Threads, Enqueue(t)
    PROVE  AgeInv'
<1> USE DEF At, Goto, server
<1>0. /\ heap \in [Nodes -> Packet] /\ cur \in [Threads -> Pointer] /\ NULL \notin Nodes
      /\ first \in [Threads -> BOOLEAN] /\ live \subseteq Nodes
      /\ pc \in [Threads -> Outside \cup EnqueueInside \cup DequeueInside]
      /\ EnqueueHasBlock /\ WebAside
    BY PQAssumption, EnqueueAside DEF IInv, TypeOK
<1> PICK born \in [Nodes -> Nat], since \in [Threads -> Nat], gone \in Nat, now \in Nat :
        Aged(born, since, gone, now)
    BY DEF AgeInv
<1>1. Aged(born, since, gone, now)' => AgeInv'
    BY DEF AgeInv
<1>2. ASSUME NEW n \in Nodes,
             Aged([born EXCEPT ![n] = now + 1], [since EXCEPT ![t] = now + 1], gone, now + 1)'
      PROVE  AgeInv'
    <2>1. /\ [born EXCEPT ![n] = now + 1] \in [Nodes -> Nat]
          /\ [since EXCEPT ![t] = now + 1] \in [Threads -> Nat] /\ now + 1 \in Nat
        OBVIOUS
    <2> QED BY <1>2, <2>1 DEF AgeInv
<1>3. ASSUME UNCHANGED <<pending_packets_head, live>>, pc'[t] # "message",
             \A n \in Nodes : Succ(n)' \in {Succ(n), NULL} /\ Msg(n)' = Msg(n),
             \A u \in Threads : u # t =>
                 pc'[u] = pc[u] /\ cur'[u] = cur[u] /\ first'[u] = first[u]
      PROVE  AgeInv'
    <2>1. \A u \in Threads : pc'[u] = "message" =>
              pc[u] = "message" /\ cur'[u] = cur[u] /\ first'[u] = first[u] /\ cur[u] \in Nodes
        BY <1>0, <1>3 DEF EnqueueHasBlock, Pointer
    <2> QED BY <1>0, <1>1, <1>3, <2>1, QuietAge
<1>4. CASE EnqueueSetHead(t)
    <2> PICK n \in Nodes \ live :
            /\ heap' = [heap EXCEPT ![n] = Zeroed] /\ live' = live \cup {n}
            /\ pending_packets_head' = n /\ cur' = [cur EXCEPT ![t] = n]
        BY <1>4 DEF EnqueueSetHead
    <2>1. Msg(n)' = NULL /\ Succ(n)' = NULL
          /\ \A m \in Nodes : m # n => Msg(m)' = Msg(m) /\ Succ(m)' = Succ(m)
        BY <1>0 DEF Msg, Succ, Zeroed
    <2>2. /\ pc'[t] = "message" /\ first'[t] /\ cur'[t] = n /\ n # NULL
          /\ \A u \in Threads : u # t => pc'[u] = pc[u] /\ cur'[u] = cur[u] /\ first'[u] = first[u]
        BY <1>0, <1>4 DEF EnqueueSetHead
    <2> QED BY <1>0, <1>2, <2>1, <2>2, CallocAge
<1>5. CASE EnqueueLink(t)
    <2> PICK n \in Nodes \ live :
            /\ heap' = [heap EXCEPT ![n] = Zeroed, ![cur[t]].next = n]
            /\ live' = live \cup {n}
        BY <1>5 DEF EnqueueLink
    <2> DEFINE calloced == [heap EXCEPT ![n] = Zeroed]
    <2>1. calloced \in [Nodes -> Packet] /\ cur[t] \in Nodes
        BY <1>0, <1>5 DEF EnqueueLink, Packet, Zeroed, Value, Pointer
    <2>2. heap' = [calloced EXCEPT ![cur[t]].next = n]
        OBVIOUS
    <2>3. /\ calloced[n].message = NULL /\ calloced[n].next = NULL
          /\ \A m \in Nodes : m # n => calloced[m] = heap[m]
        BY <1>0 DEF Zeroed
    <2> HIDE DEF calloced
    <2>4. \A m \in Nodes : /\ Msg(m)' = calloced[m].message
                           /\ Succ(m)' = IF m = cur[t] THEN n ELSE calloced[m].next
        BY <2>1, <2>2 DEF Packet, Msg, Succ
    <2>5. Msg(n)' = NULL /\ Succ(n)' \in {NULL, n}
          /\ \A m \in Nodes : m # n => Msg(m)' = Msg(m) /\ Succ(m)' \in {Succ(m), n}
        BY <2>3, <2>4 DEF Msg, Succ
    <2>6. heap'[cur[t]].next = n
        BY <2>1, <2>4 DEF Succ
    <2>7. /\ pc'[t] = "message" /\ cur'[t] = cur[t] /\ first'[t] = first[t]
          /\ pending_packets_head' = pending_packets_head
          /\ \A u \in Threads : u # t => pc'[u] = pc[u] /\ cur'[u] = cur[u] /\ first'[u] = first[u]
        BY <1>0, <1>5 DEF EnqueueLink
    <2>8. ~first[t]
        BY <1>5 DEF Walking, EnqueueLink
    <2> QED BY <1>0, <1>2, <2>1, <2>5, <2>6, <2>7, <2>8, CallocAge, ZenonT(60)
<1>6. CASE EnqueueStore(t, "message")
    BY <1>0, <1>1, <1>6, MessageAge
<1>7. CASE \E field \in {"length", "opcode"} : EnqueueStore(t, field)
    <2> PICK field \in {"length", "opcode"} : EnqueueStore(t, field)
        BY <1>7
    <2>1. /\ heap' = [heap EXCEPT ![Target(t)][field] = item[t]]
          /\ pc'[t] \in {"opcode", "next"} /\ UNCHANGED <<pending_packets_head, live, cur, first>>
          /\ \A u \in Threads : u # t => pc'[u] = pc[u]
        BY <1>0 DEF EnqueueStore, StoreAfter
    <2>2. \A n \in Nodes : Msg(n)' = Msg(n) /\ Succ(n)' = Succ(n)
        BY <1>0, <2>1 DEF Packet, Msg, Succ
    <2> QED BY <1>3, <2>1, <2>2
<1>8. CASE EnqueueStoreNext(t)
    <2>1. /\ heap' = [heap EXCEPT ![Target(t)].next = NULL]
          /\ pc'[t] = "inc_load" /\ UNCHANGED <<pending_packets_head, live, cur, first>>
          /\ \A u \in Threads : u # t => pc'[u] = pc[u]
        BY <1>0, <1>8 DEF EnqueueStoreNext
    <2>2. \A n \in Nodes : Msg(n)' = Msg(n) /\ Succ(n)' \in {Succ(n), NULL}
        BY <1>0, <2>1 DEF Packet, Msg, Succ
    <2> QED BY <1>3, <2>1, <2>2
<1>9. CASE \/ EnqueueCall(t)
           \/ Spin(t, "enq_spin", "enq_acquire") \/ Acquire(t, "enq_acquire", "test_head")
           \/ EnqueueTestHead(t) \/ EnqueueLoadHead(t) \/ EnqueueWalk(t) \/ EnqueueAdvance(t)
           \/ CountLoad(t, "inc_load", "inc_store")
           \/ CountStore(t, "inc_store", tmp[t] + 1, "enq_release")
           \/ Release(t, "enq_release", "idle")
    <2>1. /\ UNCHANGED <<pending_packets_head, heap, live>> /\ pc'[t] # "message"
          /\ \A u \in Threads : u # t =>
                 pc'[u] = pc[u] /\ cur'[u] = cur[u] /\ first'[u] = first[u]
        BY <1>0, <1>9 DEF EnqueueCall, Spin, Acquire, EnqueueTestHead, EnqueueLoadHead,
            EnqueueWalk, EnqueueAdvance, CountLoad, CountStore, Release
    <2> QED BY <1>3, <2>1 DEF Succ, Msg
<1> QED BY <1>4, <1>5, <1>6, <1>7, <1>8, <1>9 DEF Enqueue, StoreAfter

LEMMA DequeueAge ==
    ASSUME IInv, ListInv, AgeInv, Dequeue
    PROVE  AgeInv'
<1> USE DEF At, Goto, server
<1>0. /\ heap \in [Nodes -> Packet] /\ live \subseteq Nodes /\ NULL \notin Nodes
      /\ pc \in [Threads -> Outside \cup EnqueueInside \cup DequeueInside]
      /\ cur \in [Threads -> Pointer] /\ Web \in Threads /\ WebCommitted
      /\ ret \in Packet /\ sent \in Seq(Packet)
    BY PQAssumption DEF IInv, TypeOK, Threads
<1> PICK born \in [Nodes -> Nat], since \in [Threads -> Nat], gone \in Nat, now \in Nat :
        Aged(born, since, gone, now)
    BY DEF AgeInv
<1>1. ASSUME NEW g \in Nat, Aged(born, since, g, now)' PROVE AgeInv'
    BY <1>1 DEF AgeInv
<1>2. /\ UNCHANGED <<heap, first>> /\ live' \subseteq live
      /\ pc'[Web] \notin {"message"}
      /\ \A t \in Threads : t # Web => pc'[t] = pc[t] /\ cur'[t] = cur[t]
    BY <1>0 DEF Dequeue, WriteableCallback, Spin, Acquire, DequeueLoadHead, DequeueCheck,
        DequeueLoadNext, DequeueUnlink, DequeueRead, ReadField, ReadAfter, DequeueFree,
        CountLoad, CountStore, Release, Deliver
<1>3. /\ \A n \in Nodes : Succ(n)' = Succ(n) /\ Msg(n)' = Msg(n)
      /\ \A i : sent' = sent => Message(i)' = Message(i)
    BY <1>2 DEF Succ, Msg, Message
<1>4. Births(born, since, now)'
    BY <1>2, <1>3 DEF Aged, Births
<1>5. Filled(born, since)'
    <2>1. \A t \in Threads : pc'[t] = "message" =>
              t # Web /\ pc[t] = "message" /\ cur'[t] = cur[t] /\ first'[t] = first[t]
        BY <1>2
    <2>2. \A t \in Threads : Succ(cur[t])' = heap[cur'[t]].next
        BY <1>2 DEF Succ
    <2> QED BY <1>3, <2>1, <2>2 DEF Aged, Filled, Succ
<1>6. \A m, n \in Nodes : born[m] < born[n] => Before(Msg(m)', Msg(n)')
    BY <1>3 DEF Aged, Ordered
<1>7. CASE DequeueLoadHead
    <2>1. /\ cur'[Web] = pending_packets_head /\ pc'[Web] = "deq_check" /\ pc[Web] = "deq_head"
          /\ UNCHANGED <<pending_packets_head, heap, live, sent, ret, nxt>>
        BY <1>0, <1>7 DEF DequeueLoadHead
    <2>2. pending_packets_head # NULL
        BY <1>0, <2>1 DEF WebCommitted
    <2>3. Onwards(born, gone, now)'
        BY <2>1, <2>2 DEF Aged, Onwards, Unlinked
    <2>4. Ordered(born, gone)'
        BY <1>3, <1>6, <2>1 DEF Aged, Ordered, Taken, Dropped
    <2> QED BY <1>1, <1>4, <1>5, <2>3, <2>4 DEF Aged
<1>8. CASE DequeueCheck
    <2>1. /\ pc[Web] = "deq_check" /\ pc'[Web] \in {"garbage", "deq_next"}
          /\ UNCHANGED <<pending_packets_head, heap, live, cur, sent, ret, nxt>>
        BY <1>0, <1>8 DEF DequeueCheck
    <2>2. Onwards(born, gone, now)'
        BY <2>1 DEF Aged, Onwards, Unlinked
    <2>3. Ordered(born, gone)'
        BY <1>3, <1>6, <2>1 DEF Aged, Ordered, Taken, Dropped
    <2> QED BY <1>1, <1>4, <1>5, <2>2, <2>3 DEF Aged
<1>9. CASE DequeueLoadNext
    <2>1. /\ pc[Web] = "deq_next" /\ pc'[Web] = "deq_unlink" /\ nxt' = Succ(cur[Web])
          /\ UNCHANGED <<pending_packets_head, heap, live, cur, sent, ret>>
        BY <1>0, <1>9 DEF DequeueLoadNext, Succ
    <2>2. cur[Web] \in live /\ Succ(cur[Web]) # cur[Web] /\ Succ(cur[Web]) \in live \cup {NULL}
        BY <2>1 DEF ListInv, Holding
    <2>3. Succ(cur[Web]) # NULL => born[cur[Web]] < born[Succ(cur[Web])]
        <3> SUFFICES ASSUME Succ(cur[Web]) # NULL PROVE born[cur[Web]] < born[Succ(cur[Web])]
            OBVIOUS
        <3>1. /\ born[cur[Web]] <= born[Succ(cur[Web])] /\ born[cur[Web]] # 0
              /\ cur[Web] \in Nodes /\ Succ(cur[Web]) \in Nodes
            BY <1>0, <2>2 DEF Aged, Births
        <3>2. born[cur[Web]] # born[Succ(cur[Web])]
            BY <2>2, <3>1 DEF Aged, Births
        <3> QED BY <3>1, <3>2
    <2>4. Onwards(born, gone, now)'
        BY <2>1, <2>3 DEF Aged, Onwards, Unlinked
    <2>5. Ordered(born, gone)'
        BY <1>3, <1>6, <2>1 DEF Aged, Ordered, Taken, Dropped
    <2> QED BY <1>1, <1>4, <1>5, <2>4, <2>5 DEF Aged
<1>10. CASE DequeueUnlink
    <2>1. /\ pc[Web] = "deq_unlink" /\ pc'[Web] = "ret_message" /\ pending_packets_head' = nxt
          /\ UNCHANGED <<heap, live, cur, sent, ret, nxt>>
        BY <1>0, <1>10 DEF DequeueUnlink
    <2>2. cur[Web] \in Nodes /\ gone < born[cur[Web]] /\ born[cur[Web]] \in Nat
        BY <1>0, <2>1 DEF Aged, Onwards, ListInv, Holding
    <2>3. Onwards(born, born[cur[Web]], now)'
        BY <1>0, <2>1, <2>2 DEF Aged, Onwards, Births
    <2>4. Ordered(born, born[cur[Web]])'
        <3>1. \A i \in DOMAIN sent', n \in Nodes :
                  born[cur[Web]] < born[n] \/ n = cur[Web] => Before(Message(i)', Msg(n)')
            BY <1>3, <2>1, <2>2 DEF Aged, Ordered
        <3> QED BY <1>3, <1>6, <2>1, <3>1 DEF Aged, Ordered, Taken, Dropped
    <2>5. Aged(born, since, born[cur[Web]], now)'
        BY <1>4, <1>5, <2>1, <2>3, <2>4 DEF Aged
    <2> QED BY <1>1, <2>1, <2>2, <2>5 DEF AgeInv
<1>11. CASE \E label \in DOMAIN ReadField : DequeueRead(label)
    <2> PICK label \in {"ret_message", "ret_length", "ret_opcode"} : DequeueRead(label)
        BY <1>11 DEF ReadField
    <2>1. /\ pc[Web] = label /\ pc'[Web] \in Taken
          /\ UNCHANGED <<pending_packets_head, live, cur, sent, nxt>>
          /\ ret' = [ret EXCEPT ![ReadField[label]] = heap[cur[Web]][ReadField[label]]]
        BY <1>0 DEF DequeueRead, ReadAfter, Taken
    <2>2. Onwards(born, gone, now)'
        BY <2>1 DEF Aged, Onwards, Unlinked, Taken
    <2>3. /\ \A i \in DOMAIN sent : Before(Message(i), ret'.message)
          /\ \A n \in Nodes : gone < born[n] => Before(ret'.message, Msg(n))
        <3>1. CASE label = "ret_message"
            <4>1. ret'.message = Msg(cur[Web])
                BY <1>0, <2>1, <3>1 DEF ReadField, Packet, Msg
            <4>2. gone = born[cur[Web]] /\ cur[Web] \in Nodes
                BY <1>0, <2>1 DEF Aged, Onwards, Unlinked, ListInv, Holding
            <4> QED BY <2>1, <3>1, <4>1, <4>2 DEF Aged, Ordered
        <3>2. CASE label # "ret_message"
            <4>1. ret'.message = ret.message /\ pc[Web] \in Taken
                BY <1>0, <2>1, <3>2 DEF ReadField, Packet, Taken
            <4> QED BY <4>1 DEF Aged, Ordered
        <3> QED BY <3>1, <3>2
    <2>4. Ordered(born, gone)'
        BY <1>3, <1>6, <2>1, <2>3 DEF Aged, Ordered, Taken
    <2> QED BY <1>1, <1>4, <1>5, <2>2, <2>4 DEF Aged
<1>12. CASE DequeueFree
    <2>1. /\ pc[Web] = "deq_free" /\ pc'[Web] = "dec_load"
          /\ UNCHANGED <<pending_packets_head, cur, ret, sent, nxt>>
        BY <1>0, <1>12 DEF DequeueFree
    <2>2. Onwards(born, gone, now)'
        BY <2>1 DEF Aged, Onwards, Unlinked
    <2>3. Ordered(born, gone)'
        BY <1>3, <1>6, <2>1 DEF Aged, Ordered, Taken, Dropped
    <2> QED BY <1>1, <1>4, <1>5, <2>2, <2>3 DEF Aged
<1>13. CASE Deliver
    <2>1. /\ pc[Web] = "deliver" /\ pc'[Web] = "idle" /\ sent' = Append(sent, ret)
          /\ UNCHANGED <<pending_packets_head, ret, nxt>>
        BY <1>0, <1>13 DEF Deliver
    <2>2. \A i \in DOMAIN sent' :
              \/ i \in DOMAIN sent /\ Message(i)' = Message(i)
              \/ i \notin DOMAIN sent /\ i = Len(sent) + 1 /\ Message(i)' = ret.message
        BY <1>0, <2>1 DEF Message
    <2>3. /\ \A i \in DOMAIN sent : Before(Message(i), ret.message) /\ i <= Len(sent)
          /\ \A n \in Nodes : gone < born[n] => Before(ret.message, Msg(n))
        BY <1>0, <2>1 DEF Aged, Ordered, Taken, Dropped
    <2>4. Onwards(born, gone, now)'
        BY <2>1 DEF Aged, Onwards, Unlinked
    <2>5. \A i, j \in DOMAIN sent' : i < j => Before(Message(i)', Message(j)')
        <3> SUFFICES ASSUME NEW i \in DOMAIN sent', NEW j \in DOMAIN sent', i < j
                     PROVE  Before(Message(i)', Message(j)')
            OBVIOUS
        <3>1. i \in DOMAIN sent /\ Message(i)' = Message(i)
            BY <1>0, <2>1, <2>2, <2>3
        <3> QED BY <2>2, <2>3, <3>1 DEF Aged, Ordered
    <2>6. \A i \in DOMAIN sent', n \in Nodes : gone < born[n] => Before(Message(i)', Msg(n)')
        BY <1>3, <2>2, <2>3 DEF Aged, Ordered
    <2>7. Ordered(born, gone)'
        BY <1>6, <2>1, <2>5, <2>6 DEF Ordered, Taken, Dropped
    <2> QED BY <1>1, <1>4, <1>5, <2>4, <2>7 DEF Aged
<1>14. CASE \/ WriteableCallback \/ Spin(Web, "deq_spin", "deq_acquire")
            \/ Acquire(Web, "deq_acquire", "deq_head")
            \/ CountLoad(Web, "dec_load", "dec_store")
            \/ CountStore(Web, "dec_store", tmp[Web] - 1, "deq_release")
            \/ Release(Web, "deq_release", "deliver")
    <2>1. /\ UNCHANGED <<pending_packets_head, live, cur, ret, sent, nxt>>
          /\ pc'[Web] \notin Holding /\ (pc'[Web] \in Taken \cup Dropped => pc[Web] \in Dropped)
        BY <1>0, <1>14 DEF WriteableCallback, Spin, Acquire, CountLoad, CountStore, Release,
            Holding, Unlinked, Taken, Dropped
    <2>2. Onwards(born, gone, now)'
        BY <2>1 DEF Aged, Onwards, Holding, Unlinked
    <2>3. Ordered(born, gone)'
        BY <1>3, <1>6, <2>1 DEF Aged, Ordered, Holding, Unlinked
    <2> QED BY <1>1, <1>4, <1>5, <2>2, <2>3 DEF Aged
<1> QED BY <1>7, <1>8, <1>9, <1>10, <1>11, <1>12, <1>13, <1>14 DEF Dequeue

LEMMA InitAge == Init => AgeInv /\ Walking
<1> SUFFICES ASSUME Init PROVE AgeInv /\ Walking
    OBVIOUS
<1> DEFINE born == [n \in Nodes |-> 0]
           since == [t \in Threads |-> 0]
<1>1. /\ Web \in Threads /\ pc[Web] = "idle" /\ sent = <<>> /\ live = {}
      /\ \A t \in Threads : pc[t] = "idle"
      /\ \A n \in Nodes : Msg(n) = NULL /\ Succ(n) = NULL
    BY DEF Init, Threads, Msg, Succ, Zeroed
<1>2. Births(born, since, 0) /\ Onwards(born, 0, 0) /\ Filled(born, since)
    BY <1>1 DEF Init, Births, Onwards, Unlinked, Filled
<1>3. Ordered(born, 0)
    BY <1>1 DEF Ordered, Before, Taken, Dropped
<1>4. born \in [Nodes -> Nat] /\ since \in [Threads -> Nat]
    OBVIOUS
<1>5. AgeInv
    BY <1>2, <1>3, <1>4 DEF AgeInv, Aged
<1> QED BY <1>1, <1>5 DEF Walking

LEMMA AgeStep ==
    IInv /\ ListInv /\ SentInv /\ Walking /\ AgeInv /\ [Next]_vars => AgeInv'
<1> SUFFICES ASSUME IInv, ListInv, SentInv, Walking, AgeInv, [Next]_vars PROVE AgeInv'
    OBVIOUS
<1>1. CASE \E t \in Threads : Enqueue(t) BY <1>1, EnqueueAge
<1>2. CASE Dequeue BY <1>2, DequeueAge
<1>3. CASE (\E t \in Threads : Crash(t)) \/ UNCHANGED vars
    <2>1. UNCHANGED <<pending_packets_head, heap, live, pc, cur, first, nxt, ret, sent>>
        BY <1>3 DEF Crash, vars, server
    <2>2. \A born, since, gone, now :
              Aged(born, since, gone, now) => Aged(born, since, gone, now)'
        BY <2>1 DEF Aged, Births, Onwards, Filled, Ordered, Succ, Msg, Message
    <2> QED BY <2>2 DEF AgeInv
<1> QED BY <1>1, <1>2, <1>3 DEF Next, Exited

LEMMA SafetySent == SpecSafety => []SentInv
<1>1. Init => SentInv
    BY PQAssumption DEF Init, SentInv, Stored, Zeroed, Preparing, Taken, Dropped, Threads
<1> QED BY <1>1, SafetyIInv, SafetyList, SentStep, PTL DEF SpecSafety

(* The browser gets the packets of a thread in the order the thread called *)
(* packet_enqueue (packet_queue.c:51-110), also when several threads walk  *)
(* over the list and store to it at once: a race loses packets and mixes   *)
(* their fields, but what is on the list stays sorted by age.              *)
THEOREM NeverOvertaken == SpecSafety => []SentInOrder
<1>1. AgeInv => SentInOrder
    BY DEF AgeInv, Aged, Ordered, Before, SentInOrder, Real
<1>2. SpecSafety => []Walking
    BY InitAge, WalkingStep, SafetyIInv, PTL DEF SpecSafety
<1> QED BY <1>1, <1>2, InitAge, AgeStep, SafetyIInv, SafetyList, SafetySent, PTL DEF SpecSafety
=============================================================================
