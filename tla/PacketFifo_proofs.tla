------------------------- MODULE PacketFifo_proofs -------------------------
(***************************************************************************)
(* PacketQueueRefinement implements the safety part of FifoQueue, for any  *)
(* number of producers, calls and blocks of a finite memory.  The mapping  *)
(* of the queue is a walk over the list, so the proof starts with what     *)
(* that recursive function computes.                                       *)
(***************************************************************************)
EXTENDS PacketOrder_proofs, FiniteSetTheorems, WellFoundedInduction, SequenceTheorems

-----------------------------------------------------------------------------
(* Induction                                                               *)

LEMMA LeastNat ==
    ASSUME NEW S \in SUBSET Nat, S # {}
    PROVE  \E n \in S : \A m \in S : n <= m
<1> DEFINE T == {0..n : n \in S}
<1>1. T \subseteq FiniteSubsetsOf(Nat)
    <2> SUFFICES ASSUME NEW n \in S PROVE 0..n \in FiniteSubsetsOf(Nat)
        OBVIOUS
    <2>1. IsFiniteSet(0..n)
        BY FS_Interval
    <2> QED BY <2>1 DEF FiniteSubsetsOf
<1>2. PICK x \in T : \A y \in T : <<y, x>> \notin StrictSubsetOrdering(Nat)
    <2>1. IsWellFoundedOn(StrictSubsetOrdering(Nat), FiniteSubsetsOf(Nat))
        BY FS_StrictSubsetOrderingWellFounded
    <2>2. T # {}
        OBVIOUS
    <2> HIDE DEF T
    <2> QED BY <1>1, <2>1, <2>2, WFMin, Zenon
<1>3. PICK n \in S : x = 0..n
    OBVIOUS
<1>4. ASSUME NEW m \in S, m < n PROVE FALSE
    <2>1. 0..m \in SUBSET Nat /\ 0..n \in SUBSET Nat /\ 0..m \subseteq 0..n
          /\ n \notin 0..m /\ n \in 0..n
        BY <1>4
    <2>2. <<0..m, 0..n>> \in (SUBSET Nat) \X (SUBSET Nat)
        BY <2>1
    <2>3. <<0..m, 0..n>> \in StrictSubsetOrdering(Nat)
        BY <2>1, <2>2 DEF StrictSubsetOrdering
    <2>4. 0..m \in T
        OBVIOUS
    <2> QED BY <1>2, <1>3, <2>3, <2>4
<1> QED BY <1>4

LEMMA Induction ==
    ASSUME NEW S \in SUBSET Nat, 0 \in S, \A n \in S : n + 1 \in S
    PROVE  S = Nat
<1> SUFFICES ASSUME Nat \ S # {} PROVE FALSE
    OBVIOUS
<1>1. PICK n \in Nat \ S : \A m \in Nat \ S : n <= m
    BY LeastNat
<1>2. n # 0 /\ n - 1 \in Nat /\ n - 1 \notin Nat \ S
    BY <1>1
<1> QED BY <1>1, <1>2

-----------------------------------------------------------------------------
(* What a walk over a list returns                                         *)

\* One block and then a walk of j - 1 blocks, over a heap h from any pointer.
WalkAt(h, W, j) ==
    [n \in Pointer |->
        IF n = NULL \/ j = 0 THEN <<>>
        ELSE <<Whole(h[n])>> \o W[j - 1][h[n].next]]

\* The equation of the walks of up to k blocks.
Walks(h, W, k) == W = [j \in 0..k |-> WalkAt(h, W, j)]

LEMMA WalksAt ==
    ASSUME NEW h, NEW W, NEW k, Walks(h, W, k)
    PROVE  \A j \in 0..k : W[j] = WalkAt(h, W, j)
<1> TAKE j \in 0..k
<1> DEFINE V == [i \in 0..k |-> WalkAt(h, W, i)]
<1>1. V[j] = WalkAt(h, W, j)
    OBVIOUS
<1>2. W = V
    BY Zenon DEF Walks
<1> HIDE DEF V
<1> QED BY <1>1, <1>2

\* A walk of one more block.
LEMMA WalkStep ==
    ASSUME NEW h, NEW W, NEW k \in Nat, Walks(h, W, k),
           NEW j \in Nat, j + 1 \in 0..k
    PROVE  /\ W[j + 1][NULL] = <<>>
           /\ \A n \in Nodes : W[j + 1][n] = <<Whole(h[n])>> \o W[j][h[n].next]
<1>1. PICK a \in 0..k : a = j + 1 /\ a # 0 /\ a - 1 = j
    OBVIOUS
<1>2. W[a] = WalkAt(h, W, a)
    BY WalksAt
<1>3. ASSUME NEW n \in Pointer
      PROVE  W[a][n] = IF n = NULL \/ a = 0 THEN <<>>
                       ELSE <<Whole(h[n])>> \o W[a - 1][h[n].next]
    <2>1. WalkAt(h, W, a)[n] = IF n = NULL \/ a = 0 THEN <<>>
                               ELSE <<Whole(h[n])>> \o W[a - 1][h[n].next]
        <3> HIDE <1>1, <1>2
        <3> QED BY DEF WalkAt
    <2> QED BY <1>2, <2>1, Zenon
<1>4. W[a][NULL] = <<>>
    BY <1>3 DEF Pointer
<1>5. ASSUME NEW n \in Nodes
      PROVE  W[a][n] = <<Whole(h[n])>> \o W[j][h[n].next]
    <2>1. n \in Pointer /\ n # NULL
        BY PQAssumption DEF Pointer
    <2>2. W[a][n] = IF n = NULL \/ a = 0 THEN <<>>
                    ELSE <<Whole(h[n])>> \o W[a - 1][h[n].next]
        BY <1>3, <2>1
    <2> QED BY <1>1, <2>1, <2>2
<1> QED BY <1>1, <1>4, <1>5

\* The equation has a solution, so that Walk is one.
LEMMA WalksExist ==
    ASSUME NEW h
    PROVE  \A k \in Nat : \E W : Walks(h, W, k)
<1> DEFINE S == {k \in Nat : \E W : Walks(h, W, k)}
<1>1. 0 \in S
    <2> DEFINE W == [j \in 0..0 |-> [n \in Pointer |-> <<>>]]
    <2>1. Walks(h, W, 0)
        BY DEF Walks, WalkAt
    <2> QED BY <2>1
<1>2. ASSUME NEW k \in S PROVE k + 1 \in S
    <2> PICK W : Walks(h, W, k)
        OBVIOUS
    <2>0. k \in Nat
        OBVIOUS
    <2> HIDE DEF S
    <2>1. \A j \in 0..k : W[j] = WalkAt(h, W, j)
        BY WalksAt
    <2> DEFINE V == [j \in 0..k + 1 |-> WalkAt(h, W, j)]
    <2>2. ASSUME NEW j \in 0..k + 1 PROVE V[j] = WalkAt(h, V, j)
        <3>1. V[j] = WalkAt(h, W, j)
            OBVIOUS
        <3>2. CASE j = 0
            BY <3>1, <3>2 DEF WalkAt
        <3>3. CASE j # 0
            <4>1. j - 1 \in 0..k /\ j - 1 \in 0..k + 1
                BY <2>0, <3>3
            <4>2. V[j - 1] = W[j - 1]
                BY <2>1, <4>1
            <4> HIDE DEF V
            <4>3. WalkAt(h, V, j) = WalkAt(h, W, j)
                BY <4>2 DEF WalkAt
            <4> QED BY <3>1, <4>3
        <3> QED BY <3>2, <3>3
    <2>3. V = [j \in 0..k + 1 |-> V[j]]
        OBVIOUS
    <2> HIDE DEF V
    <2>4. Walks(h, V, k + 1)
        BY <2>2, <2>3 DEF Walks
    <2> QED BY <2>0, <2>4 DEF S
<1> HIDE DEF S
<1>3. S = Nat
    BY <1>1, <1>2, Induction DEF S
<1> QED BY <1>3 DEF S

\* The blocks that c lists are linked in that order, and the last to none.
Linked(h, c) ==
    \A i \in DOMAIN c : h[c[i]].next = IF i = Len(c) THEN NULL ELSE c[i + 1]

\* Where c begins, or continues after i - 1 blocks.
From(c, i) == IF i = Len(c) + 1 THEN NULL ELSE c[i]

\* A walk long enough returns the packets of the list in their order.
LEMMA WalkIs ==
    ASSUME NEW h, NEW W, NEW k \in Nat, Walks(h, W, k),
           NEW c \in Seq(Nodes), Linked(h, c), Len(c) <= k
    PROVE  W[k][From(c, 1)] = [i \in 1..Len(c) |-> Whole(h[c[i]])]
<1> DEFINE Rest(i) == [j \in 1..Len(c) + 1 - i |-> Whole(h[c[i + j - 1]])]
           P(j) == \A i \in 1..Len(c) + 1 : Len(c) + 1 - i <= j => W[j][From(c, i)] = Rest(i)
           S == {j \in Nat : j <= k => P(j)}
<1> HIDE DEF P, Rest
<1>0. NULL \notin Nodes /\ Len(c) \in Nat
    BY PQAssumption
<1>1. 0 \in S
    <2> SUFFICES ASSUME NEW i \in 1..Len(c) + 1, Len(c) + 1 - i <= 0
                 PROVE  W[0][From(c, i)] = Rest(i)
        BY DEF P
    <2>1. From(c, i) = NULL /\ Rest(i) = <<>>
        BY DEF From, Rest
    <2>2. W[0] = [n \in Pointer |-> <<>>]
        BY WalksAt DEF WalkAt
    <2> QED BY <2>1, <2>2 DEF Pointer
<1>2. ASSUME NEW j \in S PROVE j + 1 \in S
    <2> SUFFICES ASSUME j + 1 <= k PROVE P(j + 1)
        OBVIOUS
    <2> SUFFICES ASSUME NEW i \in 1..Len(c) + 1, Len(c) + 1 - i <= j + 1
                 PROVE  W[j + 1][From(c, i)] = Rest(i)
        BY DEF P
    <2>0. P(j) /\ j \in Nat /\ j + 1 \in 0..k
        OBVIOUS
    <2> HIDE DEF S
    <2>1. /\ W[j + 1][NULL] = <<>>
          /\ \A n \in Nodes : W[j + 1][n] = <<Whole(h[n])>> \o W[j][h[n].next]
        BY <2>0, WalkStep
    <2>2. CASE i = Len(c) + 1
        BY <1>0, <2>1, <2>2 DEF From, Rest
    <2>3. CASE i # Len(c) + 1
        <3>1. i \in DOMAIN c /\ i + 1 \in 1..Len(c) + 1 /\ i \in Nat /\ Len(c) - i \in Nat
            BY <2>3
        <3>2. From(c, i) = c[i] /\ c[i] \in Nodes
            BY <2>3, <3>1 DEF From
        <3>3. h[c[i]].next = From(c, i + 1)
            <4>1. h[c[i]].next = IF i = Len(c) THEN NULL ELSE c[i + 1]
                BY <3>1 DEF Linked
            <4>2. i = Len(c) <=> i + 1 = Len(c) + 1
                BY <1>0, <3>1
            <4> QED BY <4>1, <4>2 DEF From
        <3>4. W[j][From(c, i + 1)] = Rest(i + 1)
            <4>1. Len(c) + 1 - (i + 1) <= j
                <5>1. i \in Nat /\ Len(c) + 1 - i <= j + 1
                    OBVIOUS
                <5> QED BY <1>0, <2>0, <5>1
            <4> QED BY <2>0, <3>1, <4>1 DEF P
        <3>5. W[j + 1][From(c, i)] = <<Whole(h[c[i]])>> \o Rest(i + 1)
            <4>1. W[j + 1][c[i]] = <<Whole(h[c[i]])>> \o W[j][h[c[i]].next]
                BY <2>1, <3>2
            <4> QED BY <3>2, <3>3, <3>4, <4>1
        <3>6. <<Whole(h[c[i]])>> \o Rest(i + 1) = Rest(i)
            <4> DEFINE X == {Whole(h[n]) : n \in Nodes}
            <4>0. ASSUME NEW a \in 1..Len(c) + 1
                  PROVE  /\ Rest(a) \in Seq(X) /\ Len(Rest(a)) = Len(c) + 1 - a
                         /\ \A m \in 1..Len(c) + 1 - a : Rest(a)[m] = Whole(h[c[a + m - 1]])
                <5>1. /\ Len(c) + 1 - a \in Nat
                      /\ \A m \in 1..Len(c) + 1 - a : c[a + m - 1] \in Nodes
                    BY <1>0
                <5>2. Rest(a) = [m \in 1..Len(c) + 1 - a |-> Whole(h[c[a + m - 1]])]
                    BY DEF Rest
                <5>3. Rest(a) \in [1..Len(c) + 1 - a -> X]
                    BY <5>1, <5>2
                <5> HIDE DEF X
                <5>4. ASSUME NEW n \in Nat, NEW f \in [1..n -> X]
                      PROVE  f \in Seq(X) /\ Len(f) = n
                    OBVIOUS
                <5>5. Rest(a) \in Seq(X) /\ Len(Rest(a)) = Len(c) + 1 - a
                    BY <5>1, <5>3, <5>4
                <5> QED BY <5>2, <5>5
            <4>1. /\ Rest(i + 1) \in Seq(X) /\ Len(Rest(i + 1)) = Len(c) - i
                  /\ \A m \in 1..Len(c) - i : Rest(i + 1)[m] = Whole(h[c[i + m]])
                <5>1. i + 1 \in 1..Len(c) + 1 /\ i \in Nat
                    BY <3>1
                <5>2. Len(c) + 1 - (i + 1) = Len(c) - i
                    BY <1>0, <5>1
                <5>3. \A m \in 1..Len(c) - i : (i + 1) + m - 1 = i + m
                    BY <1>0, <5>1
                <5> HIDE DEF X
                <5>4. /\ Rest(i + 1) \in Seq(X) /\ Len(Rest(i + 1)) = Len(c) + 1 - (i + 1)
                      /\ \A m \in 1..Len(c) + 1 - (i + 1) :
                             Rest(i + 1)[m] = Whole(h[c[(i + 1) + m - 1]])
                    BY <4>0, <5>1
                <5> QED BY <5>2, <5>3, <5>4
            <4>2. /\ Rest(i) \in Seq(X) /\ Len(Rest(i)) = Len(c) - i + 1
                  /\ \A m \in 1..Len(c) - i + 1 : Rest(i)[m] = Whole(h[c[i + m - 1]])
                <5>1. Len(c) + 1 - i = Len(c) - i + 1
                    BY <1>0, <3>1
                <5> HIDE DEF X
                <5> QED BY <4>0, <5>1
            <4>3. <<Whole(h[c[i]])>> \in Seq(X)
                BY <3>2
            <4> HIDE DEF X
            <4>4. <<Whole(h[c[i]])>> \o Rest(i + 1) \in Seq(X)
                  /\ Len(<<Whole(h[c[i]])>> \o Rest(i + 1)) = Len(c) - i + 1
                BY <1>0, <3>1, <4>1, <4>3, ConcatProperties, SMTT(60)
            <4>5. ASSUME NEW m \in 1..Len(c) - i + 1
                  PROVE  (<<Whole(h[c[i]])>> \o Rest(i + 1))[m] = Rest(i)[m]
                <5>1. CASE m = 1
                    BY <1>0, <3>1, <4>1, <4>2, <4>3, <5>1, SMTT(60)
                <5>2. CASE m # 1
                    <6>1. m - 1 \in 1..Len(c) - i /\ i + (m - 1) = i + m - 1
                        BY <3>1, <5>2
                    <6>2. (<<Whole(h[c[i]])>> \o Rest(i + 1))[m] = Rest(i + 1)[m - 1]
                        BY <4>1, <4>3, <5>2, <6>1
                    <6> QED BY <4>1, <4>2, <6>1, <6>2
                <5> QED BY <5>1, <5>2
            <4> QED BY <4>2, <4>4, <4>5, SeqEqual
        <3> QED BY <3>5, <3>6
    <2> QED BY <2>2, <2>3
<1>3. P(k)
    <2>1. S \in SUBSET Nat
        OBVIOUS
    <2> HIDE DEF S
    <2>2. S = Nat
        BY <1>1, <1>2, <2>1, Induction
    <2> QED BY <2>2 DEF S
<1> QED BY <1>0, <1>3 DEF From, P, Rest

\* A list without a cycle is no longer than the memory.
LEMMA ListLength ==
    ASSUME NEW c \in Seq(Nodes), \A i, j \in DOMAIN c : c[i] = c[j] => i = j
    PROVE  Cardinality(Nodes) \in Nat /\ Len(c) <= Cardinality(Nodes)
<1>1. c \in Injection(1..Len(c), Nodes)
    BY DEF Injection, IsInjective
<1>2. Cardinality(1..Len(c)) = Len(c)
    <2>1. Len(c) \in Nat /\ 1 \in Int /\ Len(c) \in Int
        OBVIOUS
    <2>2. Cardinality(1..Len(c)) = IF 1 > Len(c) THEN 0 ELSE Len(c) - 1 + 1
        BY <2>1, FS_Interval
    <2> QED BY <2>1, <2>2
<1> QED BY <1>1, <1>2, MemoryAssumption, FS_Injection, FS_CardinalityType

-----------------------------------------------------------------------------
(* The invariant that makes the walk a queue                               *)

\* c is the list, block by block.
Chain(c) ==
    /\ \A i \in DOMAIN c : c[i] \in live
    /\ \A i, j \in DOMAIN c : c[i] = c[j] => i = j
    /\ pending_packets_head = From(c, 1)
    /\ Linked(heap, c)

\* Every block of it belongs to one packet, but the one being filled in.
Contents(c) ==
    \A i \in DOMAIN c : (i = Len(c) /\ Filling) \/ Whole(heap[c[i]]) # NULL

\* What the thread that fills the last block has stored so far.
StoredFields(t) ==
    CASE pc[t] = "length" -> {"message"}
      [] pc[t] = "opcode" -> {"message", "length"}
      [] pc[t] = "next" -> {"message", "length", "opcode"}
      [] OTHER -> {}

\* Where an enqueuer is on the list.
Enqueuer(t, c) ==
    /\ pc[t] \in EnqueueInside \cup {"enq_spin", "enq_acquire"} => item[t] # NULL
    /\ pc[t] = "set_head" => c = <<>>
    /\ pc[t] \in {"walk", "advance", "link"} => cur[t] \in {c[i] : i \in DOMAIN c}
    /\ pc[t] = "link" => Succ(cur[t]) = NULL
    /\ pc[t] \in {"message", "length", "opcode", "next"} =>
           /\ c # <<>> /\ Target(t) = c[Len(c)]
           /\ \A field \in StoredFields(t) : heap[Target(t)][field] = item[t]

\* Where packet_dequeue is on it, and what of the packet it has read.
Dequeuer(c) ==
    /\ pc[Web] \in {"deq_check", "deq_next", "deq_unlink"} => c # <<>> /\ cur[Web] = c[1]
    /\ pc[Web] = "deq_unlink" => nxt = Succ(cur[Web])
    /\ pc[Web] \in Unlinked => Whole(heap[cur[Web]]) # NULL
    /\ pc[Web] \in Taken => ret.message = heap[cur[Web]].message
    /\ pc[Web] \in {"ret_opcode", "deq_free"} => ret.length = heap[cur[Web]].length
    /\ pc[Web] = "deq_free" => ret.opcode = heap[cur[Web]].opcode
    /\ pc[Web] \in Dropped => Whole(ret) # NULL

Fifo(c) ==
    /\ Chain(c) /\ Contents(c)
    /\ (\A t \in Threads : Enqueuer(t, c)) /\ Dequeuer(c)

(* Before a race the blocks reachable from the head are a list without a   *)
(* cycle, all but the last of them whole, and the locals of the thread     *)
(* inside the lock say how far it is.  The list is no variable: the        *)
(* invariant says that there is one.                                       *)
FifoInv == ~raced => \E c \in Seq(Nodes) : Fifo(c)

\* The first n packets of a list.
Packets(c, n) == [i \in 1..n |-> Whole(heap[c[i]])]

LEMMA ListedIs == \A c \in Seq(Nodes) : Chain(c) => listed = Packets(c, Len(c))
<1> SUFFICES ASSUME NEW c \in Seq(Nodes), Chain(c) PROVE listed = Packets(c, Len(c))
    OBVIOUS
<1>1. Cardinality(Nodes) \in Nat /\ Len(c) <= Cardinality(Nodes)
    BY ListLength DEF Chain
<1>2. \E W : Walks(heap, W, Cardinality(Nodes))
    BY <1>1, WalksExist, Zenon
<1>3. Walks(heap, Walk, Cardinality(Nodes))
    BY <1>2, Zenon DEF Walk, Walks, WalkAt
<1>4. Walk[Cardinality(Nodes)][From(c, 1)] = [i \in 1..Len(c) |-> Whole(heap[c[i]])]
    BY <1>1, <1>3, WalkIs DEF Chain
<1> QED BY <1>4 DEF listed, Chain, Packets

\* The abstract queue, packet by packet.
QueueIsListed ==
    \A c \in Seq(Nodes) : Chain(c) /\ ~raced =>
        /\ ~Filling => queueBar = Packets(c, Len(c))
        /\ Filling /\ c # <<>> => queueBar = Packets(c, Len(c) - 1)

LEMMA QueueIs == QueueIsListed
<1> SUFFICES ASSUME NEW c \in Seq(Nodes), Chain(c), ~raced
             PROVE  /\ ~Filling => queueBar = Packets(c, Len(c))
                    /\ Filling /\ c # <<>> => queueBar = Packets(c, Len(c) - 1)
    BY DEF QueueIsListed
<1>1. listed = Packets(c, Len(c)) /\ Len(c) \in Nat
    BY ListedIs
<1>2. Len(listed) = Len(c)
    BY <1>1 DEF Packets
<1>3. CASE Filling /\ c # <<>>
    <2>1. queueBar = SubSeq(listed, 1, Len(c) - 1)
        BY <1>2, <1>3 DEF queueBar
    <2>2. SubSeq(listed, 1, Len(c) - 1) = Packets(c, Len(c) - 1)
        BY <1>1, <1>3 DEF Packets
    <2> QED BY <1>3, <2>1, <2>2
<1> QED BY <1>1, <1>3 DEF queueBar

LEMMA QueueThen == QueueIsListed'
BY QueueIs, PTL

\* The threads an enqueue step is not of.
LEMMA EnqueueLocal ==
    ASSUME IInv, NEW t \in Threads, Enqueue(t)
    PROVE  /\ \A u \in Threads : u # t => /\ pc'[u] = pc[u] /\ cur'[u] = cur[u]
                                         /\ first'[u] = first[u] /\ item'[u] = item[u]
           /\ pc[t] \in EnqueueInside \cup {"idle", "enq_spin", "enq_acquire"}
           /\ pc'[t] \in EnqueueInside \cup {"idle", "enq_spin", "enq_acquire"}
           /\ pc[t] \notin EnqueueInside =>
                  /\ UNCHANGED <<pending_packets_head, heap, live, cur, first>>
                  /\ pc'[t] \in {"enq_spin", "enq_acquire", "test_head"}
           /\ pc[t] = "idle" => item'[t] \in Items
           /\ pc[t] # "idle" => item'[t] = item[t]
<1> USE DEF At, Goto, server
<1>0. /\ pc \in [Threads -> Outside \cup EnqueueInside \cup DequeueInside]
      /\ cur \in [Threads -> Pointer] /\ first \in [Threads -> BOOLEAN]
      /\ item \in [Threads -> Value] /\ calls \in [Threads -> Nat]
      /\ MaxCalls \in [Threads -> Nat]
    BY PQAssumption DEF IInv, TypeOK
<1>1. \A u \in Threads : u # t => /\ pc'[u] = pc[u] /\ cur'[u] = cur[u]
                                 /\ first'[u] = first[u] /\ item'[u] = item[u]
    BY <1>0 DEF Enqueue, EnqueueCall, Spin, Acquire, EnqueueTestHead, EnqueueSetHead,
        EnqueueLoadHead, EnqueueWalk, EnqueueAdvance, EnqueueLink, EnqueueStore,
        EnqueueStoreNext, CountLoad, CountStore, Release
<1>2. /\ pc[t] \in EnqueueInside \cup {"idle", "enq_spin", "enq_acquire"}
      /\ pc'[t] \in EnqueueInside \cup {"idle", "enq_spin", "enq_acquire"}
    BY <1>0 DEF Enqueue, EnqueueCall, Spin, Acquire, EnqueueTestHead, EnqueueSetHead,
        EnqueueLoadHead, EnqueueWalk, EnqueueAdvance, EnqueueLink, EnqueueStore, StoreAfter,
        EnqueueStoreNext, CountLoad, CountStore, Release, EnqueueInside
<1>3. pc[t] \notin EnqueueInside =>
          /\ UNCHANGED <<pending_packets_head, heap, live, cur, first>>
          /\ pc'[t] \in {"enq_spin", "enq_acquire", "test_head"}
    BY <1>0 DEF Enqueue, EnqueueCall, Spin, Acquire, EnqueueTestHead, EnqueueSetHead,
        EnqueueLoadHead, EnqueueWalk, EnqueueAdvance, EnqueueLink, EnqueueStore, StoreAfter,
        EnqueueStoreNext, CountLoad, CountStore, Release, EnqueueInside
<1>4. pc[t] # "idle" => item'[t] = item[t]
    BY <1>0 DEF Enqueue, EnqueueCall, Spin, Acquire, EnqueueTestHead, EnqueueSetHead,
        EnqueueLoadHead, EnqueueWalk, EnqueueAdvance, EnqueueLink, EnqueueStore,
        EnqueueStoreNext, CountLoad, CountStore, Release
<1>5. pc[t] = "idle" => item'[t] \in Items
    <2> SUFFICES ASSUME pc[t] = "idle" PROVE item'[t] \in Items
        OBVIOUS
    <2>1. EnqueueCall(t)
        BY DEF Enqueue, Spin, Acquire, EnqueueTestHead, EnqueueSetHead, EnqueueLoadHead,
            EnqueueWalk, EnqueueAdvance, EnqueueLink, EnqueueStore, StoreAfter,
            EnqueueStoreNext, CountLoad, CountStore, Release
    <2>2. item'[t] = <<t, calls[t] + 1>> /\ calls[t] + 1 \in 1..MaxCalls[t]
        BY <1>0, <2>1 DEF EnqueueCall
    <2> QED BY <2>2 DEF Items
<1> QED BY <1>1, <1>2, <1>3, <1>4, <1>5

\* The web thread has no packet in hand while another is inside the lock.
LEMMA EnqueueHand ==
    ASSUME IInv, NEW t \in Threads, Enqueue(t), ~Met, ~raced, ~raced'
    PROVE  UNCHANGED <<handBar, outBar>>
<1>1. WebAside /\ Web \in Threads
    BY EnqueueAside DEF Threads
<1>2. outBar' = outBar
    BY <1>1 DEF outBar, WebAside
<1>3. CASE pc[Web] \in DequeueInside
    <2>1. pc'[Web] = pc[Web] /\ cur'[Web] = cur[Web] /\ ret' = ret
        BY <1>1, <1>3 DEF WebAside
    <2>2. pc[t] \notin EnqueueInside
        BY <1>1, <1>3, EnqueueLocal DEF Met, Inside, EnqueueInside, DequeueInside
    <2>3. heap' = heap
        BY <2>2, EnqueueLocal
    <2> QED BY <1>2, <2>1, <2>3 DEF handBar
<1>4. CASE pc[Web] \notin DequeueInside
    <2>1. ret' = ret /\ pc'[Web] \notin DequeueInside
          /\ (pc'[Web] = "deliver" <=> pc[Web] = "deliver")
        BY <1>1, <1>4, EnqueueLocal DEF WebAside, EnqueueInside
    <2>2. handBar = IF pc[Web] = "deliver" THEN Whole(ret) ELSE NULL
        BY <1>4 DEF handBar, DequeueInside, ReadField
    <2>3. handBar' = IF pc'[Web] = "deliver" THEN Whole(ret') ELSE NULL
        BY <2>1 DEF handBar, DequeueInside, ReadField
    <2> QED BY <1>2, <2>1, <2>2, <2>3
<1> QED BY <1>3, <1>4

\* What a step of the thread inside the lock leaves true of the others.
LEMMA EnqueueOthers ==
    ASSUME IInv, NEW t \in Threads, Enqueue(t), ~Met, pc[t] \in EnqueueInside,
           NEW c, Fifo(c), NEW d
    PROVE  /\ \A u \in Threads : u # t => Enqueuer(u, d)'
           /\ Dequeuer(d)'
<1>1. ASSUME NEW u \in Threads, u # t PROVE Enqueuer(u, d)'
    <2>1. pc'[u] = pc[u] /\ item'[u] = item[u] /\ pc[u] \notin EnqueueInside
        BY <1>1, EnqueueLocal DEF Met, Inside
    <2>2. pc[u] \in {"enq_spin", "enq_acquire"} => item[u] # NULL
        BY DEF Fifo, Enqueuer
    <2> QED BY <2>1, <2>2 DEF Enqueuer, EnqueueInside
<1>2. Dequeuer(d)'
    <2>1. WebAside /\ Web \in Threads
        BY EnqueueAside DEF Threads
    <2>2. pc[Web] \notin DequeueInside
        BY <2>1 DEF Met, Inside, EnqueueInside, DequeueInside
    <2>3. pc'[Web] \notin DequeueInside /\ ret' = ret /\ (pc'[Web] = "deliver" => pc[Web] = "deliver")
        BY <2>1, <2>2 DEF WebAside
    <2> QED BY <2>3 DEF Fifo, Dequeuer, DequeueInside, Unlinked, Taken, Dropped
<1> QED BY <1>1, <1>2

\* The abstract queue before and after a step that leaves the list and the
\* packets on it alone.
LEMMA SameQueue ==
    ASSUME NEW c \in Seq(Nodes), Chain(c), Chain(c)', ~raced, ~raced', Filling' <=> Filling,
           Filling => c # <<>>,
           \A i \in DOMAIN c : ~(i = Len(c) /\ Filling) => Whole(heap'[c[i]]) = Whole(heap[c[i]])
    PROVE  queueBar' = queueBar
<1>1. CASE Filling
    <2>1. queueBar = Packets(c, Len(c) - 1) /\ queueBar' = Packets(c, Len(c) - 1)'
        BY <1>1, QueueIs, QueueThen DEF QueueIsListed
    <2>2. \A i \in 1..Len(c) - 1 : Whole(heap'[c[i]]) = Whole(heap[c[i]])
        OBVIOUS
    <2> QED BY <2>1, <2>2 DEF Packets
<1>2. CASE ~Filling
    <2>1. queueBar = Packets(c, Len(c)) /\ queueBar' = Packets(c, Len(c))'
        BY <1>2, QueueIs, QueueThen DEF QueueIsListed
    <2>2. \A i \in 1..Len(c) : Whole(heap'[c[i]]) = Whole(heap[c[i]])
        BY <1>2
    <2> QED BY <2>1, <2>2 DEF Packets
<1> QED BY <1>1, <1>2

\* An enqueue step that changes nothing of the list.
LEMMA QuietFifo ==
    ASSUME IInv, NEW t \in Threads, Enqueue(t), ~Met, ~raced, ~raced',
           NEW c \in Seq(Nodes), Fifo(c), UNCHANGED <<pending_packets_head, heap, live>>,
           Filling' <=> Filling, Enqueuer(t, c)',
           pc[t] \notin EnqueueInside =>
               (\A u \in Threads : u # t => Enqueuer(u, c)') /\ Dequeuer(c)'
    PROVE  Fifo(c)' /\ UNCHANGED <<queueBar, handBar, outBar>>
<1>1. Chain(c)' /\ Contents(c)'
    BY DEF Fifo, Chain, Contents
<1>2. (\A u \in Threads : Enqueuer(u, c)') /\ Dequeuer(c)'
    BY EnqueueOthers
<1>3. Filling => c # <<>>
    BY DEF Filling, Fifo, Enqueuer
<1>4. queueBar' = queueBar
    BY <1>1, <1>3, SameQueue DEF Fifo
<1> QED BY <1>1, <1>2, <1>4, EnqueueHand DEF Fifo

\* The step of a thread that is not inside the lock, nor gets past its top.
LEMMA OutsideFifo ==
    ASSUME IInv, NEW t \in Threads, Enqueue(t), ~Met, ~raced, ~raced',
           NEW c \in Seq(Nodes), Fifo(c), pc[t] \notin EnqueueInside
    PROVE  Fifo(c)' /\ UNCHANGED <<queueBar, handBar, outBar>>
<1>0. /\ UNCHANGED <<pending_packets_head, heap, live, cur, first>>
      /\ pc'[t] \in {"enq_spin", "enq_acquire", "test_head"}
      /\ pc[t] \in {"idle", "enq_spin", "enq_acquire"}
      /\ \A u \in Threads : u # t => pc'[u] = pc[u] /\ item'[u] = item[u]
    BY EnqueueLocal
<1>1. Filling' <=> Filling
    BY <1>0 DEF Filling
<1>2. Enqueuer(t, c)'
    <2>1. item'[t] # NULL
        BY <1>0, EnqueueLocal, MemoryAssumption DEF Fifo, Enqueuer
    <2> QED BY <1>0, <2>1 DEF Enqueuer
<1>3. ASSUME NEW u \in Threads, u # t PROVE Enqueuer(u, c)'
    <2>1. pc'[u] = pc[u] /\ item'[u] = item[u]
        BY <1>0, <1>3
    <2>2. Target(u)' = Target(u) /\ StoredFields(u)' = StoredFields(u)
        BY <1>0, <2>1 DEF Target, StoredFields
    <2> QED BY <1>0, <2>1, <2>2 DEF Fifo, Enqueuer, Succ
<1>4. Dequeuer(c)'
    <2>1. WebAside
        BY EnqueueAside
    <2>2. CASE pc'[Web] = pc[Web] /\ cur'[Web] = cur[Web]
        BY <1>0, <2>1, <2>2 DEF WebAside, Fifo, Dequeuer, Succ
    <2>3. CASE pc'[Web] \notin DequeueInside \cup {"deliver"}
        BY <2>3 DEF Dequeuer, Unlinked, Taken, Dropped, DequeueInside
    <2> QED BY <2>1, <2>2, <2>3 DEF WebAside
<1> QED BY <1>0, <1>1, <1>2, <1>3, <1>4, QuietFifo

\* The thread inside the lock is the only one that may be filling a block.
LEMMA FillingIsInside ==
    ASSUME ~Met, NEW t \in Threads, pc[t] \in EnqueueInside
    PROVE  Filling <=> pc[t] \in {"message", "length", "opcode", "next"}
BY DEF Met, Inside, Filling, EnqueueInside

LEMMA FillingThen ==
    ASSUME IInv, ~Met, NEW t \in Threads, pc[t] \in EnqueueInside, Enqueue(t)
    PROVE  Filling' <=> pc'[t] \in {"message", "length", "opcode", "next"}
<1>1. \A u \in Threads : u # t => pc'[u] \notin {"message", "length", "opcode", "next"}
    BY EnqueueLocal DEF Met, Inside, EnqueueInside
<1> QED BY <1>1 DEF Filling

\* A chain is a list of nodes: what the steps below need of it.
LEMMA ChainFacts ==
    ASSUME IInv, NEW c \in Seq(Nodes), Fifo(c)
    PROVE  /\ Len(c) \in Nat /\ DOMAIN c = 1..Len(c) /\ NULL \notin Nodes /\ live \subseteq Nodes
           /\ \A i \in 1..Len(c) : c[i] \in live
           /\ pending_packets_head = NULL <=> c = <<>>
           /\ c # <<>> => Len(c) \in 1..Len(c) /\ pending_packets_head = c[1]
           /\ \A i \in 1..Len(c) : Succ(c[i]) = IF i = Len(c) THEN NULL ELSE c[i + 1]
           /\ \A i \in 1..Len(c) : Succ(c[i]) = NULL => i = Len(c)
<1>1. Len(c) \in Nat /\ DOMAIN c = 1..Len(c) /\ NULL \notin Nodes /\ live \subseteq Nodes
    BY PQAssumption DEF IInv, TypeOK
<1>2. \A i \in 1..Len(c) : c[i] \in live
    BY <1>1 DEF Fifo, Chain
<1>3. \A i \in 1..Len(c) : Succ(c[i]) = IF i = Len(c) THEN NULL ELSE c[i + 1]
    BY <1>1, Zenon DEF Fifo, Chain, Linked, Succ
<1>4. c # <<>> => Len(c) \in 1..Len(c) /\ 1 \in 1..Len(c) /\ Len(c) # 0
    OBVIOUS
<1>5. /\ pending_packets_head = NULL <=> c = <<>>
      /\ c # <<>> => pending_packets_head = c[1]
    <2>1. pending_packets_head = From(c, 1)
        BY DEF Fifo, Chain
    <2>2. CASE c = <<>>
        BY <2>1, <2>2 DEF From
    <2>3. CASE c # <<>>
        <3>1. Len(c) + 1 # 1 /\ c[1] \in Nodes
            BY <2>3
        <3> QED BY <1>1, <2>1, <2>3, <3>1 DEF From
    <2> QED BY <2>2, <2>3
<1>6. \A i \in 1..Len(c) : Succ(c[i]) = NULL => i = Len(c)
    <2> SUFFICES ASSUME NEW i \in 1..Len(c), i # Len(c) PROVE Succ(c[i]) # NULL
        OBVIOUS
    <2>1. i + 1 \in 1..Len(c)
        OBVIOUS
    <2> QED BY <1>1, <1>2, <1>3, <2>1, Zenon
<1> QED BY <1>1, <1>2, <1>3, <1>4, <1>5, <1>6, Zenon

\* The steps of the thread inside the lock that read the list.
LEMMA ReadingFifo ==
    ASSUME IInv, NEW t \in Threads, ~Met, ~raced, ~raced', Sound(t),
           NEW c \in Seq(Nodes), Fifo(c),
           \/ EnqueueTestHead(t) \/ EnqueueLoadHead(t) \/ EnqueueWalk(t) \/ EnqueueAdvance(t)
           \/ CountLoad(t, "inc_load", "inc_store")
           \/ CountStore(t, "inc_store", tmp[t] + 1, "enq_release")
           \/ Release(t, "enq_release", "idle")
    PROVE  Fifo(c)' /\ UNCHANGED <<queueBar, handBar, outBar>>
<1> USE DEF At, Goto, server
<1>0. /\ pc \in [Threads -> Outside \cup EnqueueInside \cup DequeueInside]
      /\ cur \in [Threads -> Pointer] /\ Enqueue(t)
    BY DEF IInv, TypeOK, Enqueue
<1>1. /\ UNCHANGED <<pending_packets_head, heap, live, item>> /\ pc[t] \in EnqueueInside
      /\ pc[t] \notin {"message", "length", "opcode", "next"}
      /\ pc'[t] \in {"set_head", "load_head", "walk", "link", "advance", "inc_store",
                      "enq_release", "idle"}
    BY <1>0 DEF EnqueueTestHead, EnqueueLoadHead, EnqueueWalk, EnqueueAdvance, CountLoad,
        CountStore, Release, EnqueueInside
<1>2. Filling' <=> Filling
    BY <1>0, <1>1, FillingIsInside, FillingThen
<1>3. pc'[t] \in EnqueueInside => item'[t] # NULL
    BY <1>1 DEF Fifo, Enqueuer
<1>4. CASE EnqueueTestHead(t)
    <2>1. pc'[t] = IF pending_packets_head = NULL THEN "set_head" ELSE "load_head"
        BY <1>0, <1>4 DEF EnqueueTestHead
    <2>2. Enqueuer(t, c)'
        BY <1>3, <2>1, ChainFacts DEF Enqueuer, EnqueueInside
    <2> QED BY <1>0, <1>1, <1>2, <2>2, QuietFifo
<1>5. CASE EnqueueLoadHead(t)
    <2>1. pc'[t] = "walk" /\ cur'[t] = pending_packets_head /\ pending_packets_head # NULL
        BY <1>0, <1>5 DEF EnqueueLoadHead, Sound
    <2>2. c # <<>> /\ cur'[t] = c[1] /\ 1 \in DOMAIN c
        BY <2>1, ChainFacts
    <2>3. Enqueuer(t, c)'
        BY <1>3, <2>1, <2>2 DEF Enqueuer, EnqueueInside
    <2> QED BY <1>0, <1>1, <1>2, <2>3, QuietFifo
<1>6. CASE EnqueueWalk(t)
    <2>1. /\ pc[t] = "walk" /\ pc'[t] \in {"link", "advance"} /\ cur'[t] = cur[t]
          /\ pc'[t] = "link" => Succ(cur[t]) = NULL
        BY <1>0, <1>6 DEF EnqueueWalk, Succ
    <2>2. Enqueuer(t, c)'
        BY <1>1, <1>3, <2>1 DEF Fifo, Enqueuer, EnqueueInside, Succ
    <2> QED BY <1>0, <1>1, <1>2, <2>2, QuietFifo
<1>7. CASE EnqueueAdvance(t)
    <2>1. /\ pc[t] = "advance" /\ pc'[t] = "walk" /\ cur'[t] = Succ(cur[t])
          /\ Succ(cur[t]) # NULL
        BY <1>0, <1>7 DEF EnqueueAdvance, Succ, Sound
    <2>2. PICK i \in 1..Len(c) : cur[t] = c[i]
        BY <2>1, ChainFacts DEF Fifo, Enqueuer
    <2>3. i + 1 \in DOMAIN c /\ cur'[t] = c[i + 1]
        BY <2>1, <2>2, ChainFacts
    <2>4. Enqueuer(t, c)'
        BY <1>3, <2>1, <2>3 DEF Enqueuer, EnqueueInside
    <2> QED BY <1>0, <1>1, <1>2, <2>4, QuietFifo
<1>8. CASE \/ CountLoad(t, "inc_load", "inc_store")
           \/ CountStore(t, "inc_store", tmp[t] + 1, "enq_release")
           \/ Release(t, "enq_release", "idle")
    <2>1. pc'[t] \in {"inc_store", "enq_release", "idle"}
        BY <1>0, <1>8 DEF CountLoad, CountStore, Release
    <2>2. Enqueuer(t, c)'
        BY <1>3, <2>1 DEF Enqueuer, EnqueueInside
    <2> QED BY <1>0, <1>1, <1>2, <2>2, QuietFifo
<1> QED BY <1>4, <1>5, <1>6, <1>7, <1>8

\* The empty list gets its first block.
LEMMA SetHeadFifo ==
    ASSUME IInv, NEW t \in Threads, ~Met, ~raced, ~raced', EnqueueSetHead(t),
           NEW c \in Seq(Nodes), Fifo(c)
    PROVE  \E d \in Seq(Nodes) : Fifo(d)' /\ UNCHANGED <<queueBar, handBar, outBar>>
<1> PICK n \in Nodes \ live :
        /\ heap' = [heap EXCEPT ![n] = Zeroed] /\ live' = live \cup {n}
        /\ pending_packets_head' = n /\ cur' = [cur EXCEPT ![t] = n]
    BY DEF EnqueueSetHead
<1> DEFINE d == <<n>>
<1>0. /\ pc \in [Threads -> Outside \cup EnqueueInside \cup DequeueInside]
      /\ cur \in [Threads -> Pointer] /\ first \in [Threads -> BOOLEAN]
      /\ heap \in [Nodes -> Packet] /\ Enqueue(t)
    BY DEF IInv, TypeOK, Enqueue
<1>1. /\ pc[t] = "set_head" /\ pc'[t] = "message" /\ first'[t] = TRUE /\ cur'[t] = n
      /\ pc[t] \in EnqueueInside /\ item' = item
    BY <1>0 DEF EnqueueSetHead, At, Goto, EnqueueInside
<1>2. c = <<>> /\ item[t] # NULL
    BY <1>1 DEF Fifo, Enqueuer
<1>3. ~Filling /\ Filling'
    BY <1>0, <1>1, FillingIsInside, FillingThen
<1>4. d \in Seq(Nodes) /\ Len(d) = 1 /\ DOMAIN d = {1} /\ d[1] = n /\ d # <<>>
    OBVIOUS
<1>5. heap'[n].next = NULL
    BY <1>0 DEF Zeroed
<1> HIDE DEF d
<1>6. Chain(d)' /\ Contents(d)'
    BY <1>3, <1>4, <1>5 DEF Chain, Linked, From, Contents
<1>7. Enqueuer(t, d)'
    BY <1>1, <1>2, <1>4 DEF Enqueuer, Target, StoredFields
<1>8. Fifo(d)'
    BY <1>0, <1>1, <1>6, <1>7, EnqueueOthers DEF Fifo
<1>9. queueBar' = queueBar
    <2>1. queueBar = Packets(c, Len(c))
        BY <1>3, QueueIs DEF QueueIsListed, Fifo
    <2>2. queueBar' = Packets(d, Len(d) - 1)'
        BY <1>3, <1>4, <1>6, QueueThen DEF QueueIsListed
    <2>3. 1..Len(c) = {} /\ 1..(Len(d) - 1) = {}
        BY <1>2, <1>4
    <2> QED BY <2>1, <2>2, <2>3 DEF Packets
<1> QED BY <1>0, <1>4, <1>8, <1>9, EnqueueHand

\* The list gets one more block at its end.
LEMMA LinkFifo ==
    ASSUME IInv, Walking, NEW t \in Threads, ~Met, ~raced, ~raced', EnqueueLink(t),
           NEW c \in Seq(Nodes), Fifo(c)
    PROVE  \E d \in Seq(Nodes) : Fifo(d)' /\ UNCHANGED <<queueBar, handBar, outBar>>
<1> PICK n \in Nodes \ live :
        /\ heap' = [heap EXCEPT ![n] = Zeroed, ![cur[t]].next = n]
        /\ live' = live \cup {n}
    BY DEF EnqueueLink
<1> DEFINE d == Append(c, n)
           calloced == [heap EXCEPT ![n] = Zeroed]
           last == c[Len(c)]
<1>0. /\ pc \in [Threads -> Outside \cup EnqueueInside \cup DequeueInside]
      /\ first \in [Threads -> BOOLEAN] /\ heap \in [Nodes -> Packet] /\ Enqueue(t)
    BY DEF IInv, TypeOK, Enqueue
<1>1. /\ pc[t] = "link" /\ pc'[t] = "message" /\ pc[t] \in EnqueueInside
      /\ first'[t] = FALSE /\ cur' = cur /\ item' = item
      /\ pending_packets_head' = pending_packets_head
    BY <1>0 DEF EnqueueLink, At, Goto, EnqueueInside, Walking, server
<1>2. item[t] # NULL /\ c # <<>> /\ cur[t] = last
    <2>1. cur[t] \in {c[i] : i \in DOMAIN c} /\ Succ(cur[t]) = NULL /\ item[t] # NULL
        BY <1>1 DEF Fifo, Enqueuer
    <2>2. PICK i \in 1..Len(c) : cur[t] = c[i]
        BY <2>1, ChainFacts
    <2> QED BY <2>1, <2>2, ChainFacts
<1>3. ~Filling /\ Filling'
    BY <1>0, <1>1, FillingIsInside, FillingThen
<1>4. /\ d \in Seq(Nodes) /\ Len(d) = Len(c) + 1 /\ DOMAIN d = 1..Len(c) + 1
      /\ \A i \in 1..Len(c) : d[i] = c[i]
      /\ d[Len(c) + 1] = n /\ d # <<>>
    OBVIOUS
<1>5. last \in live /\ last # n /\ last \in Nodes
    BY <1>2, ChainFacts
<1>6. /\ calloced \in [Nodes -> Packet] /\ calloced[n].next = NULL
      /\ \A m \in Nodes : m # n => calloced[m] = heap[m]
    BY <1>0 DEF Packet, Zeroed, Value, Pointer
<1>7. heap' = [calloced EXCEPT ![last].next = n]
    BY <1>2
<1> HIDE DEF calloced, d, last
<1>8. /\ \A m \in Nodes : heap'[m].next = IF m = last THEN n ELSE calloced[m].next
      /\ \A m \in Nodes : /\ heap'[m].message = calloced[m].message
                          /\ heap'[m].length = calloced[m].length
                          /\ heap'[m].opcode = calloced[m].opcode
    BY <1>5, <1>6, <1>7 DEF Packet
<1>9. /\ \A m \in Nodes : m # n => Whole(heap'[m]) = Whole(heap[m])
      /\ \A m \in Nodes : m # n /\ m # last => heap'[m].next = heap[m].next
      /\ heap'[n].next = NULL /\ heap'[last].next = n
    <2>1. ASSUME NEW m \in Nodes, m # n PROVE Whole(heap'[m]) = Whole(heap[m])
        <3>1. /\ heap'[m].message = heap[m].message /\ heap'[m].length = heap[m].length
              /\ heap'[m].opcode = heap[m].opcode
            BY <1>6, <1>8, <2>1
        <3> QED BY <3>1 DEF Whole
    <2> QED BY <1>5, <1>6, <1>8, <2>1
<1>10. /\ \A i \in 1..Len(c) : c[i] \in Nodes /\ c[i] # n /\ c[i] \in live
       /\ \A i, j \in 1..Len(c) : c[i] = c[j] => i = j
    BY ChainFacts DEF Fifo, Chain
<1>11. Chain(d)'
    <2>1. \A i \in DOMAIN d : d[i] \in live'
        BY <1>4, <1>10
    <2>2. \A i, j \in DOMAIN d : d[i] = d[j] => i = j
        BY <1>4, <1>10
    <2>3. pending_packets_head' = From(d, 1)
        BY <1>1, <1>2, <1>4, ChainFacts DEF From
    <2>4. Linked(heap', d)
        <3> SUFFICES ASSUME NEW i \in 1..Len(c) + 1
                     PROVE  heap'[d[i]].next = IF i = Len(c) + 1 THEN NULL ELSE d[i + 1]
            BY <1>4 DEF Linked
        <3>1. CASE i = Len(c) + 1
            BY <1>4, <1>9, <3>1
        <3>2. CASE i = Len(c)
            BY <1>4, <1>9, <3>2 DEF last
        <3>3. CASE i \in 1..Len(c) - 1
            <4>1. i \in 1..Len(c) /\ i # Len(c) /\ i + 1 \in 1..Len(c)
                BY <3>3
            <4>2. Len(c) \in 1..Len(c)
                BY <4>1
            <4>3. c[i] # last
                BY <1>10, <4>1, <4>2 DEF last
            <4>4. heap'[c[i]].next = Succ(c[i])
                BY <1>9, <1>10, <4>1, <4>3 DEF Succ
            <4>5. Succ(c[i]) = c[i + 1]
                BY <4>1, ChainFacts
            <4> QED BY <1>4, <3>3, <4>1, <4>4, <4>5
        <3> QED BY <3>1, <3>2, <3>3
    <2> QED BY <2>1, <2>2, <2>3, <2>4 DEF Chain
<1>12. \A i \in 1..Len(c) : Whole(heap'[d[i]]) = Whole(heap[c[i]])
    BY <1>4, <1>9, <1>10
<1>13. Contents(d)'
    <2>1. \A i \in 1..Len(c) : Whole(heap[c[i]]) # NULL
        BY <1>3, ChainFacts DEF Fifo, Contents
    <2>2. ASSUME NEW i \in DOMAIN d PROVE (i = Len(d) /\ Filling') \/ Whole(heap'[d[i]]) # NULL
        <3>1. CASE i \in 1..Len(c)
            BY <1>12, <2>1, <3>1
        <3>2. CASE i = Len(c) + 1
            BY <1>3, <1>4, <3>2
        <3> QED BY <1>4, <3>1, <3>2
    <2> QED BY <2>2 DEF Contents
<1>14. Enqueuer(t, d)'
    <2>1. Target(t)' = n /\ d # <<>>
        BY <1>1, <1>2, <1>4, <1>9 DEF Target
    <2> QED BY <1>1, <1>2, <1>4, <2>1 DEF Enqueuer, StoredFields
<1>15. Fifo(d)'
    BY <1>0, <1>1, <1>11, <1>13, <1>14, EnqueueOthers DEF Fifo
<1>16. queueBar' = queueBar
    <2>1. queueBar = Packets(c, Len(c))
        BY <1>3, QueueIs DEF QueueIsListed, Fifo
    <2>2. queueBar' = Packets(d, Len(d) - 1)'
        BY <1>3, <1>4, <1>11, QueueThen DEF QueueIsListed
    <2>3. Len(d) - 1 = Len(c)
        BY <1>4
    <2> QED BY <1>12, <2>1, <2>2, <2>3 DEF Packets
<1> QED BY <1>0, <1>4, <1>15, <1>16, EnqueueHand

\* A field of the last block is filled in.
LEMMA StoreFifo ==
    ASSUME IInv, NEW t \in Threads, ~Met, ~raced, ~raced',
           NEW field \in {"message", "length", "opcode"}, EnqueueStore(t, field), Sound(t),
           NEW c \in Seq(Nodes), Fifo(c)
    PROVE  Fifo(c)' /\ UNCHANGED <<queueBar, handBar, outBar>>
<1> DEFINE last == c[Len(c)]
<1>0. /\ pc \in [Threads -> Outside \cup EnqueueInside \cup DequeueInside]
      /\ heap \in [Nodes -> Packet] /\ Enqueue(t)
    BY DEF IInv, TypeOK, Enqueue, StoreAfter
<1>1. /\ pc[t] = field /\ pc'[t] = StoreAfter[field] /\ pc[t] \in EnqueueInside
      /\ pc[t] \in {"message", "length", "opcode"} /\ pc'[t] \in {"length", "opcode", "next"}
      /\ UNCHANGED <<pending_packets_head, live, cur, first, item>>
    BY <1>0 DEF EnqueueStore, StoreAfter, At, Goto, EnqueueInside, server
<1>2. c # <<>> /\ Target(t) = last /\ item[t] # NULL
      /\ \A f \in StoredFields(t) : heap[last][f] = item[t]
    BY <1>1 DEF Fifo, Enqueuer
<1>3. Filling /\ Filling'
    BY <1>0, <1>1, FillingIsInside, FillingThen
<1>4. heap' = [heap EXCEPT ![last][field] = item[t]]
    BY <1>2 DEF EnqueueStore
<1>5. last \in live /\ last \in Nodes
    BY <1>2, ChainFacts
<1> HIDE DEF last
<1>6. /\ \A m \in Nodes : heap'[m].next = heap[m].next
      /\ \A m \in Nodes : m # last => heap'[m] = heap[m]
      /\ \A f \in {"message", "length", "opcode"} :
             heap'[last][f] = IF f = field THEN item[t] ELSE heap[last][f]
    BY <1>0, <1>4, <1>5 DEF Packet
<1>7. \A i \in 1..Len(c) : c[i] \in Nodes /\ (i # Len(c) => c[i] # last)
    BY <1>2, ChainFacts DEF Fifo, Chain, last
<1>8. \A i \in DOMAIN c : ~(i = Len(c) /\ Filling) => Whole(heap'[c[i]]) = Whole(heap[c[i]])
    BY <1>3, <1>6, <1>7, ChainFacts
<1>9. Chain(c)'
    BY <1>1, <1>6, <1>7, ChainFacts DEF Fifo, Chain, Linked
<1>10. Contents(c)'
    BY <1>3, <1>8 DEF Fifo, Contents
<1>11. Enqueuer(t, c)'
    <2>1. Target(t)' = Target(t)
        <3>1. CASE first[t]
            BY <1>1, <3>1 DEF Target
        <3>2. CASE ~first[t]
            <4>1. cur[t] \in Nodes
                BY <1>1, ChainFacts DEF Sound
            <4> QED BY <1>1, <1>6, <3>2, <4>1 DEF Target
        <3> QED BY <3>1, <3>2
    <2>2. StoredFields(t)' \subseteq {"message", "length", "opcode"}
          /\ StoredFields(t)' \subseteq StoredFields(t) \cup {field}
        BY <1>1 DEF StoredFields, StoreAfter
    <2>3. \A f \in StoredFields(t)' : heap'[last][f] = item'[t]
        BY <1>1, <1>2, <1>6, <2>2
    <2> QED BY <1>1, <1>2, <2>1, <2>3 DEF Enqueuer, last
<1>12. Fifo(c)'
    BY <1>0, <1>1, <1>9, <1>10, <1>11, EnqueueOthers DEF Fifo
<1>13. queueBar' = queueBar
    BY <1>2, <1>3, <1>8, <1>9, SameQueue DEF Fifo
<1> QED BY <1>0, <1>12, <1>13, EnqueueHand

\* The last field is stored: the packet is in the queue.
LEMMA StoreNextFifo ==
    ASSUME IInv, NEW t \in Threads, ~Met, ~raced, raced' = raced, EnqueueStoreNext(t),
           NEW c \in Seq(Nodes), Fifo(c)
    PROVE  Fifo(c)' /\ Abstract!Put(item[t]) /\ item[t] \in Items
<1> DEFINE last == c[Len(c)]
<1>0. /\ pc \in [Threads -> Outside \cup EnqueueInside \cup DequeueInside]
      /\ heap \in [Nodes -> Packet] /\ item \in [Threads -> Value] /\ Enqueue(t)
    BY DEF IInv, TypeOK, Enqueue
<1>1. /\ pc[t] = "next" /\ pc'[t] = "inc_load" /\ pc[t] \in EnqueueInside
      /\ UNCHANGED <<pending_packets_head, live, cur, first, item>>
    BY <1>0 DEF EnqueueStoreNext, At, Goto, EnqueueInside, server
<1>2. /\ c # <<>> /\ Target(t) = last /\ item[t] # NULL
      /\ heap[last].message = item[t] /\ heap[last].length = item[t]
      /\ heap[last].opcode = item[t]
    BY <1>1 DEF Fifo, Enqueuer, StoredFields
<1>3. Filling /\ ~Filling'
    BY <1>0, <1>1, FillingIsInside, FillingThen
<1>4. heap' = [heap EXCEPT ![last].next = NULL]
    BY <1>2 DEF EnqueueStoreNext
<1>5. last \in live /\ last \in Nodes /\ heap[last].next = NULL /\ Len(c) \in 1..Len(c)
    BY <1>2, ChainFacts DEF Succ
<1> HIDE DEF last
<1>6. /\ \A m \in Nodes : heap'[m].next = heap[m].next
      /\ \A m \in Nodes : /\ heap'[m].message = heap[m].message
                          /\ heap'[m].length = heap[m].length
                          /\ heap'[m].opcode = heap[m].opcode
    BY <1>0, <1>4, <1>5 DEF Packet
<1>7. \A i \in 1..Len(c) : c[i] \in Nodes
    BY ChainFacts
<1>8. \A i \in 1..Len(c) : Whole(heap'[c[i]]) = Whole(heap[c[i]])
    BY <1>6, <1>7 DEF Whole
<1>9. Whole(heap[last]) = item[t]
    BY <1>2 DEF Whole
<1>10. Chain(c)'
    BY <1>1, <1>6, <1>7, ChainFacts DEF Fifo, Chain, Linked
<1>11. Contents(c)'
    <2>1. ASSUME NEW i \in 1..Len(c) PROVE Whole(heap'[c[i]]) # NULL
        <3>1. CASE i = Len(c)
            BY <1>2, <1>8, <1>9, <3>1 DEF last
        <3>2. CASE i # Len(c)
            BY <1>8, <3>2, ChainFacts DEF Fifo, Contents
        <3> QED BY <3>1, <3>2
    <2> QED BY <2>1, ChainFacts DEF Contents
<1>12. Enqueuer(t, c)'
    BY <1>1, <1>2 DEF Enqueuer
<1>13. Fifo(c)'
    BY <1>0, <1>1, <1>10, <1>11, <1>12, EnqueueOthers DEF Fifo
<1>14. queueBar' = Append(queueBar, item[t])
    <2>1. queueBar = Packets(c, Len(c) - 1)
        BY <1>2, <1>3, QueueIs DEF QueueIsListed, Fifo
    <2>2. queueBar' = Packets(c, Len(c))'
        BY <1>3, <1>10, QueueThen DEF QueueIsListed
    <2> DEFINE n == Len(c)
               e(i) == Whole(heap[c[i]])
    <2>3. queueBar' = [i \in 1..n |-> e(i)]
        BY <1>8, <2>2 DEF Packets
    <2>4. queueBar = [i \in 1..n - 1 |-> e(i)]
        BY <2>1 DEF Packets
    <2>5. e(n) = item[t] /\ n - 1 \in Nat /\ n \in Nat
        BY <1>5, <1>9 DEF last
    <2> HIDE DEF e, n
    <2> QED BY <2>3, <2>4, <2>5
<1>15. item[t] \in Items
    BY <1>0, <1>2 DEF Value
<1> QED BY <1>0, <1>13, <1>14, <1>15, EnqueueHand DEF Abstract!Put

LEMMA EnqueueFifo ==
    ASSUME IInv, Walking, NEW t \in Threads, Enqueue(t), ~Met, ~raced, raced' = raced, Sound(t),
           NEW c \in Seq(Nodes), Fifo(c)
    PROVE  (\E d \in Seq(Nodes) : Fifo(d)')
           /\ ((\E x \in Items : Abstract!Put(x)) \/ UNCHANGED Abstract!fifoVars)
<1> USE DEF Abstract!fifoVars
<1>0. ~raced'
    OBVIOUS
<1>1. CASE pc[t] \notin EnqueueInside
    BY <1>0, <1>1, OutsideFifo
<1>2. CASE \/ EnqueueTestHead(t) \/ EnqueueLoadHead(t) \/ EnqueueWalk(t) \/ EnqueueAdvance(t)
           \/ CountLoad(t, "inc_load", "inc_store")
           \/ CountStore(t, "inc_store", tmp[t] + 1, "enq_release")
           \/ Release(t, "enq_release", "idle")
    BY <1>0, <1>2, ReadingFifo
<1>3. CASE EnqueueSetHead(t)
    BY <1>0, <1>3, SetHeadFifo
<1>4. CASE EnqueueLink(t)
    BY <1>0, <1>4, LinkFifo
<1>5. CASE \E field \in DOMAIN StoreAfter : EnqueueStore(t, field)
    BY <1>0, <1>5, StoreFifo DEF StoreAfter
<1>6. CASE EnqueueStoreNext(t)
    BY <1>6, StoreNextFifo
<1>7. CASE \/ EnqueueCall(t) \/ Spin(t, "enq_spin", "enq_acquire")
           \/ Acquire(t, "enq_acquire", "test_head")
    BY <1>1, <1>7 DEF EnqueueCall, Spin, Acquire, At, EnqueueInside
<1> QED BY <1>2, <1>3, <1>4, <1>5, <1>6, <1>7 DEF Enqueue

-----------------------------------------------------------------------------
\* Of the other threads a dequeue step changes nothing.
LEMMA DequeueLocal ==
    ASSUME IInv, Dequeue
    PROVE  /\ \A u \in Threads : u # Web => /\ pc'[u] = pc[u] /\ cur'[u] = cur[u]
           /\ UNCHANGED <<heap, first, item>>
           /\ pc[Web] \in DequeueInside \cup {"idle", "deq_spin", "deq_acquire", "deliver"}
           /\ pc'[Web] \in DequeueInside \cup
                  {"idle", "deq_spin", "deq_acquire", "deliver", "garbage"}
           /\ sent' = sent \/ Deliver
<1> USE DEF At, Goto, server
<1>0. /\ pc \in [Threads -> Outside \cup EnqueueInside \cup DequeueInside]
      /\ cur \in [Threads -> Pointer] /\ Web \in Threads
    BY DEF IInv, TypeOK, Threads
<1>1. /\ \A u \in Threads : u # Web => pc'[u] = pc[u] /\ cur'[u] = cur[u]
      /\ UNCHANGED <<heap, first, item>> /\ (sent' = sent \/ Deliver)
    BY <1>0 DEF Dequeue, WriteableCallback, Spin, Acquire, DequeueLoadHead, DequeueCheck,
        DequeueLoadNext, DequeueUnlink, DequeueRead, DequeueFree, CountLoad, CountStore,
        Release, Deliver
<1>2. /\ pc[Web] \in DequeueInside \cup {"idle", "deq_spin", "deq_acquire", "deliver"}
      /\ pc'[Web] \in DequeueInside \cup
             {"idle", "deq_spin", "deq_acquire", "deliver", "garbage"}
    BY <1>0 DEF Dequeue, WriteableCallback, Spin, Acquire, DequeueLoadHead, DequeueCheck,
        DequeueLoadNext, DequeueUnlink, DequeueRead, ReadField, ReadAfter, DequeueFree,
        CountLoad, CountStore, Release, Deliver, DequeueInside
<1> QED BY <1>1, <1>2

LEMMA DequeueOthers ==
    ASSUME IInv, Dequeue, ~Met, NEW c, Fifo(c), NEW d,
           \/ pc[Web] \in DequeueInside
           \/ d = c /\ UNCHANGED <<pending_packets_head, live, cur>>
    PROVE  (\A u \in Threads : Enqueuer(u, d)') /\ (Filling' <=> Filling)
<1>0. Web \in Threads
    BY DEF Threads
<1>1. Filling' <=> Filling
    BY DequeueLocal DEF Filling, DequeueInside
<1>2. Enqueuer(Web, d)'
    BY DequeueLocal DEF Enqueuer, DequeueInside, EnqueueInside
<1>3. ASSUME NEW u \in Threads, u # Web PROVE Enqueuer(u, d)'
    <2>1. pc'[u] = pc[u] /\ item'[u] = item[u] /\ cur'[u] = cur[u] /\ first'[u] = first[u]
          /\ heap' = heap
        BY <1>3, DequeueLocal
    <2>2. CASE pc[Web] \in DequeueInside
        <3>1. pc[u] \notin EnqueueInside
            BY <1>0, <1>3, <2>2 DEF Met, Inside
        <3>2. pc[u] \in {"enq_spin", "enq_acquire"} => item[u] # NULL
            BY DEF Fifo, Enqueuer
        <3> QED BY <2>1, <3>1, <3>2 DEF Enqueuer, EnqueueInside
    <2>3. CASE d = c /\ UNCHANGED <<pending_packets_head, live, cur>>
        <3>1. Target(u)' = Target(u) /\ StoredFields(u)' = StoredFields(u)
            BY <2>1, <2>3 DEF Target, StoredFields
        <3>2. Enqueuer(u, c)
            BY DEF Fifo
        <3> QED BY <2>1, <2>3, <3>1, <3>2 DEF Enqueuer, Succ
    <2> QED BY <2>2, <2>3
<1> QED BY <1>1, <1>2, <1>3

\* A step of packet_dequeue that takes nothing off the list.
LEMMA KeepFifo ==
    ASSUME IInv, Dequeue, ~Met, ~raced, raced' = raced, NEW c \in Seq(Nodes), Fifo(c),
           pending_packets_head' = pending_packets_head, \A i \in DOMAIN c : c[i] \in live',
           pc[Web] \in DequeueInside \/ UNCHANGED <<live, cur>>,
           Dequeuer(c)'
    PROVE  Fifo(c)' /\ queueBar' = queueBar
<1>1. heap' = heap
    BY DequeueLocal
<1>2. (\A u \in Threads : Enqueuer(u, c)') /\ (Filling' <=> Filling)
    BY DequeueOthers
<1>3. Chain(c)' /\ Contents(c)'
    BY <1>1, <1>2 DEF Fifo, Chain, Linked, Contents
<1>4. Filling => c # <<>>
    BY DEF Filling, Fifo, Enqueuer
<1>5. queueBar' = queueBar
    BY <1>1, <1>2, <1>3, <1>4, SameQueue DEF Fifo
<1> QED BY <1>2, <1>3, <1>5 DEF Fifo

\* What the web thread has in hand at each of its statements.
HandIsHeld ==
    ~raced =>
        /\ pc[Web] \in DOMAIN ReadField => handBar = heap[cur[Web]].message
        /\ pc[Web] \in Dropped \cup {"deq_free"} => handBar = Whole(ret)
        /\ pc[Web] \notin DOMAIN ReadField \cup Dropped \cup {"deq_free"} => handBar = NULL

LEMMA HandHeld == HandIsHeld
BY DEF HandIsHeld, handBar, ReadField, Dropped

LEMMA HandThen == HandIsHeld'
BY HandHeld, PTL

LEMMA TakeFifo ==
    ASSUME IInv, Dequeue, DequeueUnlink, ~Met, ~raced, raced' = raced,
           NEW c \in Seq(Nodes), Fifo(c)
    PROVE  Fifo(Tail(c))' /\ Abstract!Take /\ Tail(c) \in Seq(Nodes)
<1> DEFINE d == Tail(c)
<1>0. /\ pc[Web] = "deq_unlink" /\ pc'[Web] = "ret_message" /\ pending_packets_head' = nxt
      /\ UNCHANGED <<heap, live, cur, sent>>
    BY DEF DequeueUnlink, At, Goto, IInv, TypeOK, Threads
<1>1. c # <<>> /\ cur[Web] = c[1] /\ nxt = Succ(c[1])
    BY <1>0 DEF Fifo, Dequeuer
<1>2. /\ d \in Seq(Nodes) /\ Len(d) = Len(c) - 1 /\ \A i \in 1..Len(c) - 1 : d[i] = c[i + 1]
      /\ DOMAIN d = 1..Len(c) - 1 /\ 1 \in 1..Len(c) /\ Len(c) \in Nat
    BY <1>1
<1>3. ~Filling
    BY <1>0 DEF Met, Inside, Filling, EnqueueInside, DequeueInside, Threads
<1>4. \A i \in 1..Len(c) : Whole(heap[c[i]]) # NULL
    BY <1>3, ChainFacts DEF Fifo, Contents
<1> HIDE DEF d
<1>5. Chain(d)'
    <2>1. ASSUME NEW i \in DOMAIN d PROVE d[i] \in live'
        <3>1. i + 1 \in 1..Len(c) /\ d[i] = c[i + 1]
            BY <1>2
        <3> QED BY <1>0, <3>1, ChainFacts
    <2>2. ASSUME NEW i \in DOMAIN d, NEW j \in DOMAIN d, d[i] = d[j] PROVE i = j
        <3>0. i \in 1..Len(c) - 1 /\ j \in 1..Len(c) - 1
            BY <1>2
        <3>1. i + 1 \in DOMAIN c /\ j + 1 \in DOMAIN c /\ c[i + 1] = c[j + 1]
            <4>1. i + 1 \in DOMAIN c /\ j + 1 \in DOMAIN c
                BY <1>2, <3>0
            <4> QED BY <1>2, <2>2, <3>0, <4>1
        <3>2. i + 1 = j + 1
            BY <3>1 DEF Fifo, Chain
        <3> QED BY <1>2, <2>2, <3>2
    <2>3. pending_packets_head' = From(d, 1)
        BY <1>0, <1>1, <1>2, ChainFacts DEF From
    <2>4. Linked(heap', d)
        <3> SUFFICES ASSUME NEW i \in 1..Len(c) - 1
                     PROVE  heap[d[i]].next = IF i = Len(c) - 1 THEN NULL ELSE d[i + 1]
            BY <1>0, <1>2 DEF Linked
        <3>1. i + 1 \in 1..Len(c) /\ (i # Len(c) - 1 => i + 1 \in 1..Len(c) - 1 /\ i + 1 # Len(c))
            BY <1>2
        <3>2. Succ(c[i + 1]) = IF i + 1 = Len(c) THEN NULL ELSE c[i + 1 + 1]
            BY <3>1, ChainFacts
        <3> QED BY <1>2, <3>1, <3>2 DEF Succ
    <2> QED BY <2>1, <2>2, <2>3, <2>4 DEF Chain
<1>6. \A i \in 1..Len(c) - 1 : Whole(heap'[d[i]]) = Whole(heap[c[i + 1]])
    BY <1>0, <1>2
<1>7. Contents(d)'
    BY <1>2, <1>4, <1>6 DEF Contents
<1>8. (\A u \in Threads : Enqueuer(u, d)') /\ ~Filling'
    BY <1>0, <1>3, DequeueOthers DEF DequeueInside
<1>9. Dequeuer(d)'
    BY <1>0, <1>1, <1>2, <1>4 DEF Dequeuer, Unlinked, Taken, Dropped
<1>10. Fifo(d)'
    BY <1>5, <1>7, <1>8, <1>9 DEF Fifo
<1>11. queueBar = Packets(c, Len(c)) /\ queueBar' = Packets(d, Len(c) - 1)'
    BY <1>2, <1>3, <1>5, <1>8, QueueIs, QueueThen DEF QueueIsListed, Fifo
<1> DEFINE n == Len(c)
           e(i) == Whole(heap[c[i]])
<1>12. queueBar = [i \in 1..n |-> e(i)] /\ queueBar' = [i \in 1..n - 1 |-> e(i + 1)]
    BY <1>6, <1>11 DEF Packets
<1>13. n - 1 \in Nat /\ n \in Nat /\ 1 \in 1..n
    BY <1>2
<1>14. handBar = NULL /\ handBar' = e(1)
    <2>1. handBar = NULL
        BY <1>0, HandHeld DEF HandIsHeld, ReadField, Dropped
    <2>2. handBar' = heap[c[1]].message
        BY <1>0, <1>1, HandThen DEF HandIsHeld, ReadField
    <2>3. Whole(heap[c[1]]) = heap[c[1]].message
        BY <1>2, <1>4 DEF Whole
    <2> QED BY <2>1, <2>2, <2>3
<1>15. queueBar # <<>> /\ handBar' = Head(queueBar) /\ queueBar' = Tail(queueBar)
    <2> HIDE DEF e, n
    <2>1. queueBar # <<>> /\ Head(queueBar) = e(1)
        BY <1>12, <1>13
    <2>2. Tail(queueBar) = [i \in 1..n - 1 |-> e(i + 1)]
        BY <1>12, <1>13
    <2> QED BY <1>12, <1>14, <2>1, <2>2
<1>16. outBar' = outBar
    BY <1>0 DEF outBar
<1> QED BY <1>2, <1>10, <1>14, <1>15, <1>16 DEF Abstract!Take, d

LEMMA DequeueFifo ==
    ASSUME IInv, ListInv, Dequeue, ~Met, ~raced, raced' = raced, NEW c \in Seq(Nodes), Fifo(c)
    PROVE  (\E d \in Seq(Nodes) : Fifo(d)')
           /\ (Abstract!Take \/ Abstract!Send \/ UNCHANGED Abstract!fifoVars)
<1> USE DEF At, Goto, server, Abstract!fifoVars
<1>0. /\ pc \in [Threads -> Outside \cup EnqueueInside \cup DequeueInside]
      /\ cur \in [Threads -> Pointer] /\ Web \in Threads /\ WebCommitted
      /\ heap \in [Nodes -> Packet] /\ ret \in Packet /\ heap' = heap
      /\ live \subseteq Nodes
    BY DequeueLocal DEF IInv, TypeOK, Threads
<1>1. outBar' = outBar \/ Deliver
    BY DequeueLocal DEF outBar
<1>2. \A i \in DOMAIN c : c[i] \in live
    BY ChainFacts
<1>3. CASE \/ WriteableCallback \/ Spin(Web, "deq_spin", "deq_acquire")
           \/ Acquire(Web, "deq_acquire", "deq_head") \/ DequeueCheck
           \/ DequeueLoadHead \/ DequeueLoadNext
    <2>0. /\ UNCHANGED <<pending_packets_head, live, sent>>
          /\ pc[Web] \in DequeueInside \/ UNCHANGED cur
          /\ pc[Web] \in {"idle", "deq_spin", "deq_acquire", "deq_head", "deq_check", "deq_next"}
          /\ pc'[Web] \in {"idle", "deq_spin", "deq_acquire", "deq_head", "deq_check",
                           "deq_next", "deq_unlink", "garbage"}
        BY <1>0, <1>3 DEF WriteableCallback, Spin, Acquire, DequeueCheck, DequeueLoadHead,
            DequeueLoadNext, DequeueInside
    <2>1. Dequeuer(c)'
        <3>1. CASE DequeueLoadHead
            <4>1. pc'[Web] = "deq_check" /\ cur'[Web] = pending_packets_head
                  /\ pending_packets_head # NULL
                BY <1>0, <3>1 DEF DequeueLoadHead, WebCommitted
            <4> QED BY <4>1, ChainFacts DEF Dequeuer, Unlinked, Taken, Dropped
        <3>2. CASE DequeueLoadNext
            <4>1. pc'[Web] = "deq_unlink" /\ pc[Web] = "deq_next" /\ cur' = cur
                  /\ nxt' = heap[cur[Web]].next
                BY <1>0, <3>2 DEF DequeueLoadNext
            <4> QED BY <1>0, <4>1 DEF Fifo, Dequeuer, Unlinked, Taken, Dropped, Succ
        <3>3. CASE DequeueCheck
            <4>1. pc'[Web] \in {"garbage", "deq_next"} /\ pc[Web] = "deq_check" /\ cur' = cur
                BY <1>0, <3>3 DEF DequeueCheck
            <4> QED BY <4>1 DEF Fifo, Dequeuer, Unlinked, Taken, Dropped
        <3>4. CASE pc'[Web] \in {"idle", "deq_spin", "deq_acquire", "deq_head"}
            BY <3>4 DEF Dequeuer, Unlinked, Taken, Dropped
        <3> QED BY <1>0, <1>3, <3>1, <3>2, <3>3, <3>4 DEF WriteableCallback, Spin, Acquire
    <2>2. handBar = NULL /\ handBar' = NULL /\ outBar' = outBar
        BY <2>0, HandHeld, HandThen DEF HandIsHeld, ReadField, Dropped, outBar
    <2> QED BY <1>2, <2>0, <2>1, <2>2, KeepFifo
<1>4. CASE DequeueUnlink
    BY <1>4, TakeFifo
<1>5. CASE \E label \in DOMAIN ReadField : DequeueRead(label)
    <2> PICK label \in {"ret_message", "ret_length", "ret_opcode"} : DequeueRead(label)
        BY <1>5 DEF ReadField
    <2>0. /\ UNCHANGED <<pending_packets_head, live, cur, sent>>
          /\ pc[Web] = label /\ pc'[Web] = ReadAfter[label] /\ pc[Web] \in DequeueInside
          /\ ret' = [ret EXCEPT ![ReadField[label]] = heap[cur[Web]][ReadField[label]]]
        BY <1>0 DEF DequeueRead, DequeueInside
    <2>1. Whole(heap[cur[Web]]) # NULL
        BY <2>0 DEF Fifo, Dequeuer, Unlinked
    <2>2. Dequeuer(c)'
        <3>1. CASE label = "ret_message"
            <4>1. pc'[Web] = "ret_length" /\ ret'.message = heap[cur[Web]].message
                BY <1>0, <2>0, <3>1 DEF ReadField, ReadAfter, Packet
            <4> QED BY <1>0, <2>0, <2>1, <4>1 DEF Dequeuer, Unlinked, Taken, Dropped
        <3>2. CASE label = "ret_length"
            <4>1. pc'[Web] = "ret_opcode" /\ ret'.length = heap[cur[Web]].length
                  /\ ret'.message = ret.message /\ ret.message = heap[cur[Web]].message
                BY <1>0, <2>0, <3>2 DEF ReadField, ReadAfter, Packet, Fifo, Dequeuer, Taken
            <4> QED BY <1>0, <2>0, <2>1, <4>1 DEF Dequeuer, Unlinked, Taken, Dropped
        <3>3. CASE label = "ret_opcode"
            <4>1. pc'[Web] = "deq_free" /\ ret'.opcode = heap[cur[Web]].opcode
                  /\ ret'.message = ret.message /\ ret.message = heap[cur[Web]].message
                  /\ ret'.length = ret.length /\ ret.length = heap[cur[Web]].length
                BY <1>0, <2>0, <3>3 DEF ReadField, ReadAfter, Packet, Fifo, Dequeuer, Taken
            <4> QED BY <1>0, <2>0, <2>1, <4>1 DEF Dequeuer, Unlinked, Taken, Dropped
        <3> QED BY <3>1, <3>2, <3>3
    <2>3. handBar = heap[cur[Web]].message
        BY <2>0, HandHeld DEF HandIsHeld, ReadField
    <2>4. handBar' = heap[cur[Web]].message
        <3>1. CASE label \in {"ret_message", "ret_length"}
            BY <1>0, <2>0, <3>1, HandThen DEF HandIsHeld, ReadField, ReadAfter
        <3>2. CASE label = "ret_opcode"
            <4>1. handBar' = Whole(ret') /\ pc'[Web] = "deq_free"
                BY <2>0, <3>2, HandThen DEF HandIsHeld, ReadAfter
            <4>2. /\ ret'.message = heap[cur[Web]].message /\ ret'.length = heap[cur[Web]].length
                  /\ ret'.opcode = heap[cur[Web]].opcode
                BY <1>0, <2>0, <2>2, <4>1 DEF Dequeuer, Taken
            <4> QED BY <2>1, <4>1, <4>2 DEF Whole
        <3> QED BY <3>1, <3>2
    <2>5. outBar' = outBar
        BY <2>0 DEF outBar
    <2> QED BY <1>2, <2>0, <2>2, <2>3, <2>4, <2>5, KeepFifo
<1>6. CASE DequeueFree
    <2>0. /\ UNCHANGED <<pending_packets_head, cur, sent, ret>>
          /\ pc[Web] = "deq_free" /\ pc'[Web] = "dec_load" /\ live' = live \ {cur[Web]}
        BY <1>0, <1>6 DEF DequeueFree
    <2>1. \A i \in DOMAIN c : c[i] # cur[Web]
        <3> SUFFICES ASSUME NEW i \in 1..Len(c), c[i] = cur[Web] PROVE FALSE
            BY ChainFacts
        <3>1. pending_packets_head # cur[Web] /\ \A n \in live : Succ(n) # cur[Web]
            BY <2>0 DEF ListInv, Holding, Unlinked
        <3>2. i # 1
            BY <3>1, ChainFacts
        <3>3. i - 1 \in 1..Len(c) /\ i - 1 # Len(c) /\ i - 1 + 1 = i
            BY <3>2, ChainFacts
        <3>4. Succ(c[i - 1]) = c[i]
            BY <3>3, ChainFacts
        <3> QED BY <3>1, <3>3, <3>4, ChainFacts
    <2>2. Whole(ret) # NULL
        BY <2>0 DEF Fifo, Dequeuer, Unlinked, Taken, Whole
    <2>3. Dequeuer(c)'
        BY <2>0, <2>2 DEF Dequeuer, Unlinked, Taken, Dropped
    <2>4. handBar' = handBar /\ outBar' = outBar
        BY <2>0, HandHeld, HandThen DEF HandIsHeld, Dropped, outBar
    <2>5. (\A i \in DOMAIN c : c[i] \in live') /\ pc[Web] \in DequeueInside
        BY <1>2, <2>0, <2>1 DEF DequeueInside
    <2> QED BY <2>0, <2>3, <2>4, <2>5, KeepFifo
<1>7. CASE \/ CountLoad(Web, "dec_load", "dec_store")
           \/ CountStore(Web, "dec_store", tmp[Web] - 1, "deq_release")
           \/ Release(Web, "deq_release", "deliver")
    <2>0. /\ UNCHANGED <<pending_packets_head, live, cur, sent, ret>>
          /\ pc[Web] \in Dropped /\ pc'[Web] \in Dropped
        BY <1>0, <1>7 DEF CountLoad, CountStore, Release, Dropped
    <2>1. Dequeuer(c)'
        BY <2>0 DEF Fifo, Dequeuer, Unlinked, Taken, Dropped
    <2>2. handBar' = handBar /\ outBar' = outBar
        BY <2>0, HandHeld, HandThen DEF HandIsHeld, outBar
    <2> QED BY <1>2, <2>0, <2>1, <2>2, KeepFifo
<1>8. CASE Deliver
    <2>0. /\ UNCHANGED <<pending_packets_head, live, cur, ret>> /\ sent' = Append(sent, ret)
          /\ pc[Web] = "deliver" /\ pc'[Web] = "idle"
        BY <1>0, <1>8 DEF Deliver
    <2>1. Dequeuer(c)'
        BY <2>0 DEF Dequeuer, Unlinked, Taken, Dropped
    <2>2. handBar = Whole(ret) /\ handBar # NULL /\ handBar' = NULL
        BY <2>0, HandHeld, HandThen DEF HandIsHeld, ReadField, Fifo, Dequeuer, Dropped
    <2>3. outBar' = Append(outBar, handBar)
        <3>1. sent \in Seq(Packet) /\ ret \in Packet
            BY DEF IInv, TypeOK
        <3> DEFINE n == Len(sent)
                   e(i) == Whole(sent[i])
        <3>2. outBar = [i \in 1..n |-> e(i)] /\ n \in Nat
            BY <3>1 DEF outBar
        <3>3. outBar' = [i \in 1..n + 1 |-> Whole(sent'[i])]
            BY <2>0, <3>1 DEF outBar
        <3>4. /\ \A i \in 1..n : Whole(sent'[i]) = e(i)
              /\ Whole(sent'[n + 1]) = handBar
            BY <2>0, <2>2, <3>1
        <3> HIDE DEF n, e
        <3> QED BY <3>2, <3>3, <3>4
    <2>4. Fifo(c)' /\ queueBar' = queueBar
        BY <1>2, <2>0, <2>1, KeepFifo
    <2> QED BY <2>2, <2>3, <2>4 DEF Abstract!Send
<1> QED BY <1>3, <1>4, <1>5, <1>6, <1>7, <1>8 DEF Dequeue

LEMMA FifoStep ==
    ASSUME IInv, ListInv, Walking, RaceInv, FifoInv, raced \in BOOLEAN,
           [RNext]_<<vars, raced>>
    PROVE  FifoInv' /\ raced' \in BOOLEAN /\ [Abstract!FifoNext]_(Abstract!fifoVars)
<1>1. CASE raced = TRUE
    <2>1. raced' = TRUE
        BY <1>1, Zenon DEF RNext
    <2> QED BY <1>1, <2>1 DEF FifoInv, queueBar, handBar, outBar, Abstract!fifoVars
<1>2. CASE raced = FALSE /\ raced' = TRUE
    <2>1. Abstract!Break
        BY <1>2 DEF Abstract!Break, queueBar, handBar, outBar
    <2> QED BY <1>2, <2>1 DEF FifoInv, Abstract!FifoNext
<1>3. CASE raced = FALSE /\ raced' = FALSE
    <2>0. ~raced /\ raced' = raced /\ ~Met /\ \A t \in Threads : Sound(t)
        BY <1>3 DEF RaceInv
    <2> PICK c \in Seq(Nodes) : Fifo(c)
        BY <2>0 DEF FifoInv
    <2>1. CASE \E t \in Threads : Enqueue(t)
        <3>1. (\E d \in Seq(Nodes) : Fifo(d)')
              /\ ((\E x \in Items : Abstract!Put(x)) \/ UNCHANGED Abstract!fifoVars)
            BY <2>0, <2>1, EnqueueFifo
        <3> QED BY <1>3, <3>1 DEF FifoInv, Abstract!FifoNext
    <2>2. CASE Dequeue
        <3>1. (\E d \in Seq(Nodes) : Fifo(d)')
              /\ (Abstract!Take \/ Abstract!Send \/ UNCHANGED Abstract!fifoVars)
            BY <2>0, <2>2, DequeueFifo
        <3> QED BY <1>3, <3>1 DEF FifoInv, Abstract!FifoNext
    <2>3. CASE (\E t \in Threads : Crash(t)) \/ UNCHANGED vars
        <3>1. UNCHANGED <<pending_packets_head, heap, live, pc, cur, first, item, nxt, ret, sent>>
            BY <2>3 DEF Crash, vars, server
        <3>2. Fifo(c)'
            BY <3>1 DEF Fifo, Chain, Contents, Filling, Enqueuer, Dequeuer, Target, StoredFields, Succ
        <3>3. Chain(c) /\ Chain(c)' /\ (Filling' <=> Filling) /\ (Filling => c # <<>>)
            BY <3>1, <3>2 DEF Fifo, Filling, Enqueuer
        <3>4. queueBar' = queueBar
            BY <2>0, <3>1, <3>3, SameQueue
        <3>5. handBar' = handBar /\ outBar' = outBar
            BY <2>0, <3>1, HandHeld, HandThen DEF HandIsHeld, outBar
        <3> QED BY <2>0, <1>3, <3>2, <3>4, <3>5 DEF FifoInv, Abstract!fifoVars
    <2> QED BY <1>3, <2>1, <2>2, <2>3 DEF RNext, Next, Exited
<1> QED BY <1>1, <1>2, <1>3 DEF RNext

LEMMA FifoStart ==
    ASSUME RInit
    PROVE  FifoInv /\ raced \in BOOLEAN /\ Abstract!FifoInit
<1>1. /\ pending_packets_head = NULL /\ sent = <<>> /\ raced = FALSE
      /\ \A t \in Threads : pc[t] = "idle"
      /\ Web \in Threads
    BY DEF RInit, Init, Threads
<1> DEFINE c == <<>>
<1>2. c \in Seq(Nodes) /\ Len(c) = 0 /\ DOMAIN c = {}
    OBVIOUS
<1>3. ~Filling
    BY <1>1 DEF Filling
<1>4. Chain(c) /\ Contents(c)
    BY <1>1, <1>2 DEF Chain, Linked, From, Contents
<1>5. (\A t \in Threads : Enqueuer(t, c)) /\ Dequeuer(c)
    BY <1>1 DEF Enqueuer, Dequeuer, EnqueueInside, Unlinked, Taken, Dropped
<1>6. FifoInv
    BY <1>2, <1>4, <1>5 DEF FifoInv, Fifo
<1>7. queueBar = <<>>
    <2>1. queueBar = Packets(c, Len(c))
        BY <1>1, <1>2, <1>3, <1>4, QueueIs DEF QueueIsListed
    <2> QED BY <1>2, <2>1 DEF Packets
<1>8. handBar = NULL /\ outBar = <<>>
    BY <1>1, HandHeld DEF HandIsHeld, ReadField, Dropped, outBar
<1> QED BY <1>1, <1>6, <1>7, <1>8 DEF Abstract!FifoInit

LEMMA RaceStart == RInit => RaceInv /\ OnlyWebDequeues /\ ~crashed
BY DEF RInit, Init, RaceInv, Met, Inside, Sound, EnqueueInside, DequeueInside,
    OnlyWebDequeues, Threads

LEMMA RSteps == RSpec => SpecSafety /\ [][RNext]_<<vars, raced>> /\ RInit
<1>1. RInit => Init
    BY DEF RInit
<1>2. [RNext]_<<vars, raced>> => [Next]_vars
    BY DEF RNext
<1> QED BY <1>1, <1>2, PTL DEF RSpec, SpecSafety

LEMMA AlwaysRaceInv == RSpec => []RaceInv
BY RaceStart, RSteps, SafetyIInv, SafetyList, RaceStep, PTL

LEMMA AlwaysFifo ==
    RSpec => []FifoInv /\ [][Abstract!FifoNext]_(Abstract!fifoVars)
<1>1. RInit => FifoInv /\ raced \in BOOLEAN
    BY FifoStart
<1>2. IInv /\ ListInv /\ Walking /\ RaceInv /\ FifoInv /\ raced \in BOOLEAN
      /\ [RNext]_<<vars, raced>>
          => FifoInv' /\ (raced \in BOOLEAN)' /\ [Abstract!FifoNext]_(Abstract!fifoVars)
    BY FifoStep
<1>3. SpecSafety => []Walking
    BY InitAge, WalkingStep, SafetyIInv, PTL DEF SpecSafety
<1> QED BY <1>1, <1>2, <1>3, RSteps, AlwaysRaceInv, SafetyIInv, SafetyList, PTL

(* Until two threads meet inside spin_lock, packet_enqueue and             *)
(* packet_dequeue (packet_queue.c:51-152) are a queue: every step of their *)
(* walks, stores and frees is a Put, a Take, a Send or invisible, so that  *)
(* packets reach lws_write whole, once and in the order they were queued.  *)
THEOREM QueueIsFifo == RSpec => Abstract!FifoSafety
<1>1. RInit => Abstract!FifoInit
    BY FifoStart
<1> QED BY <1>1, RSteps, AlwaysFifo, PTL DEF Abstract!FifoSafety

-----------------------------------------------------------------------------
(* The process                                                             *)

CrashInv == ~raced => ~crashed

LEMMA StatementsKeepAlive ==
    ASSUME Dequeue \/ \E t \in Threads : Enqueue(t)
    PROVE  crashed' = crashed
<1>1. ASSUME NEW t \in Threads, Enqueue(t) PROVE crashed' = crashed
    BY <1>1 DEF Enqueue, EnqueueCall, Spin, Acquire, EnqueueTestHead, EnqueueSetHead,
        EnqueueLoadHead, EnqueueWalk, EnqueueAdvance, EnqueueLink, EnqueueStore,
        EnqueueStoreNext, CountLoad, CountStore, Release
<1>2. CASE Dequeue
    BY <1>2 DEF Dequeue, WriteableCallback, Spin, Acquire, DequeueLoadHead, DequeueCheck,
        DequeueLoadNext, DequeueUnlink, DequeueRead, DequeueFree, CountLoad, CountStore,
        Release, Deliver
<1> QED BY <1>1, <1>2

LEMMA CrashStep ==
    ASSUME ListInv, OnlyWebDequeues, RaceInv, FifoInv, CrashInv, [RNext]_<<vars, raced>>
    PROVE  CrashInv'
<1> SUFFICES ASSUME ~raced' PROVE ~crashed'
    BY DEF CrashInv
<1>1. CASE UNCHANGED <<vars, raced>>
    BY <1>1 DEF CrashInv, vars
<1>2. CASE RNext
    <2>1. ~raced /\ ~crashed /\ \A t \in Threads : Sound(t)
        BY <1>2 DEF RNext, RaceInv, CrashInv
    <2>2. ASSUME NEW t \in Threads, Crash(t) PROVE FALSE
        <3>1. CASE pc[t] # "deliver"
            BY <2>1, <2>2, <3>1, SoundNeverCrashes DEF Crash
        <3>2. CASE pc[t] = "deliver"
            <4>1. t = Web
                BY <3>2 DEF OnlyWebDequeues, Threads
            <4>2. PICK c \in Seq(Nodes) : Fifo(c)
                BY <2>1 DEF FifoInv
            <4>3. Whole(ret) # NULL
                BY <3>2, <4>1, <4>2 DEF Fifo, Dequeuer, Dropped
            <4>4. ret.message = ret.length
                BY <4>3 DEF Whole
            <4>5. Dereferenced(t) = {}
                BY <3>2, <4>4 DEF Dereferenced, ReadField
            <4> QED BY <2>2, <4>5 DEF Crash
        <3> QED BY <3>1, <3>2
    <2>3. CASE Dequeue \/ \E t \in Threads : Enqueue(t)
        BY <2>1, <2>3, StatementsKeepAlive
    <2> QED BY <1>2, <2>1, <2>2, <2>3 DEF RNext, Next, Exited
<1> QED BY <1>1, <1>2

(* No bad memory access before two threads have been inside spin_lock at   *)
(* once: with a lock that excludes, the list code never follows NULL or a  *)
(* freed block (packet_queue.c:51-110, 118-152), and the callback never    *)
(* copies from a message that is not there or is not length bytes          *)
(* (emu_server.cpp:135).                                                   *)
THEOREM OnlyRacesCrash == RSpec => []CrashNeedsRace
<1>1. RInit => OnlyWebDequeues /\ CrashInv
    BY RaceStart DEF CrashInv
<1>2. ListInv /\ OnlyWebDequeues /\ RaceInv /\ FifoInv /\ CrashInv /\ [RNext]_<<vars, raced>>
          => CrashInv'
    BY CrashStep
<1>3. SpecSafety /\ OnlyWebDequeues => []OnlyWebDequeues
    BY SafetyIInv, WebDequeues, PTL DEF SpecSafety
<1>4. CrashInv => CrashNeedsRace
    BY DEF CrashInv, CrashNeedsRace
<1> QED BY <1>1, <1>2, <1>3, <1>4, RSteps, AlwaysRaceInv, AlwaysFifo, SafetyList, PTL
=============================================================================
