-------------------------------- MODULE Uart --------------------------------
(***************************************************************************)
(* The serial port.  A serial message of the browser starts a thread       *)
(* (thrd in emu_server.cpp) that puts its characters into UCA0RXBUF one by *)
(* one; handle_usci (usci.c) sends what the guest stores to UCA0TXBUF.     *)
(* Both change the flags in IFG2, one byte of guest memory, by a load and  *)
(* a store, without a lock: an action is one access to shared memory.      *)
(* A local is reset where it is no longer used, to keep states few.        *)
(*                                                                         *)
(* External: the guest, which polls the flags and clears RXIFG once it has *)
(* read a character, and the buffer of the websocket library, which every  *)
(* message is received into and which ends each with a NUL.                *)
(***************************************************************************)
EXTENDS MainLoop, Sequences, Integers, FiniteSets

CONSTANTS
    Characters,
    Messages,    \* what the browser may send, a set for each message in turn
    Hex,         \* strtoul: pairs of characters to a character
    Texts,       \* what the guest may send
    MaxAlive,    \* bound: how many serial threads are alive at once
    Room         \* bound: the part of the library's buffer that is read

CONSTANT Meaning   \* the characters each message stands for

CONSTANTS NUL, LF, CR, BACKSLASH, LOWER_H, UPPER_H

Specials == {NUL, LF, CR, BACKSLASH, LOWER_H, UPPER_H}

\* A thread for each serial message.
Serial == DOMAIN Messages
AnyMessage == UNION {Messages[t] : t \in Serial}

ASSUME UartAssumption ==
    /\ Specials \subseteq Characters
    /\ Messages \in Seq(SUBSET Seq(Characters))
    /\ Hex \in [Characters \X Characters -> Characters]
    /\ Texts \subseteq Characters
    /\ Meaning \in [AnyMessage -> Seq(Characters)]
    /\ Room \in Nat /\ MaxAlive \in Nat

\* The part of the message m from i to before j stands for the character c: a
\* line feed is a carriage return, \hXX a character in hexadecimal; any other
\* backslash stands for itself and hides what follows it.
Encodes(m, i, j, c) ==
    \/ /\ i \in DOMAIN m /\ m[i] # BACKSLASH
       /\ j = i + 1 /\ c = (IF m[i] = LF THEN CR ELSE m[i])
    \/ /\ i + 1 \in DOMAIN m /\ m[i] = BACKSLASH /\ m[i + 1] \notin {LOWER_H, UPPER_H}
       /\ j = i + 2 /\ c = BACKSLASH
    \/ /\ i + 3 \in DOMAIN m /\ m[i] = BACKSLASH /\ m[i + 1] \in {LOWER_H, UPPER_H}
       /\ j = i + 4 /\ c = Hex[<<m[i + 2], m[i + 3]>>]

\* m, cut before the positions cut[1], cut[2], ..., stands for the characters v.
CutsInto(m, cut, v) ==
    /\ cut[1] = 1 /\ cut[Len(v) + 1] = Len(m) + 1
    /\ \A k \in 1..Len(v) : Encodes(m, cut[k], cut[k + 1], v[k])

\* The page ends a message with a carriage return or a line feed, and sends no
\* other: the serial thread ends at the first.
ASSUME MeaningAssumption ==
    \A m \in AnyMessage :
        LET v == Meaning[m]
        IN  /\ Len(m) <= Room /\ v # <<>>
            /\ \E cut \in [1..Len(v) + 1 -> 1..Len(m) + 1] : CutsInto(m, cut, v)
            /\ \A k \in 1..Len(v) : v[k] = CR <=> k = Len(v)

VARIABLES
    IFG2, RXBUF, TXBUF,   \* the guest's registers; IFG2: which flags are set
    flags_read,           \* IFG2 as the main thread last loaded it to change it
    buffer,               \* what data points at
    serial,               \* the serial threads: statement and locals
    guest,                \* the instruction the guest is at
    sent,                 \* history: the messages
    due,                  \* history: the characters they stand for
    puts, received,       \* history: characters put into RXBUF, and those the
                          \* guest read there: which put, and the character
    written, transmitted, \* history: stored to TXBUF, but for NUL, and given to
                          \* print_serial
    overlapped,           \* history: a message came while a thread was alive
    raced                 \* history: a store of IFG2 undid another thread's

registersU == <<IFG2, RXBUF, TXBUF, flags_read>>
browserVars == <<buffer, sent, due, overlapped>>
uartVars == <<registersU, browserVars, serial, guest, puts, received, written,
              transmitted, raced>>

Flags == {"TX", "RX"}
Position == 1..Room + 4

\* setup_usci; the guest's program starts after it.
UartInit ==
    /\ IFG2 = {"TX"} /\ RXBUF = NUL /\ TXBUF = NUL
    /\ flags_read = {}
    /\ buffer = [i \in 1..Room |-> NUL]
    /\ serial = [t \in Serial |-> [pc |-> "none", at |-> 1, thing |-> NUL, flags |-> {}]]
    /\ guest = "select"
    /\ sent = <<>> /\ due = <<>> /\ puts = 0 /\ received = <<>>
    /\ written = <<>> /\ transmitted = <<>>
    /\ overlapped = FALSE /\ raced = FALSE

\* The store that ends a change of IFG2, with the value loaded before it.
StoreFlags(loaded, value) ==
    /\ IFG2' = value
    /\ raced' = (raced \/ IFG2 # loaded)

-----------------------------------------------------------------------------
(* The web thread: LWS_CALLBACK_RECEIVE of a serial message                *)

Alive(t) == serial[t].pc \notin {"none", "done"}

Receive(t, m) ==
    /\ Cardinality({u \in Serial : Alive(u)}) < MaxAlive
    /\ t = Len(sent) + 1 /\ m \in Messages[t]
    /\ buffer' = [i \in 1..Room |-> IF i <= Len(m) THEN m[i]
                                    ELSE IF i = Len(m) + 1 THEN NUL ELSE buffer[i]]
    /\ serial' = [serial EXCEPT ![t].pc = "wait"]
    /\ sent' = Append(sent, m) /\ due' = due \o Meaning[m]
    /\ overlapped' = (overlapped \/ \E u \in Serial : Alive(u))
    /\ UNCHANGED <<registersU, guest, puts, received, written, transmitted, raced>>

-----------------------------------------------------------------------------
(* thrd                                                                    *)

At(t, pc) == serial[t].pc = pc
Goto(t, pc) == serial' = [serial EXCEPT ![t].pc = pc]

MutantWaitEmpty(t, pc, next) == At(t, pc) /\ Goto(t, next)

\* while (*usci->IFG2 & RXIFG);
WaitEmpty(t, pc, next) == At(t, pc) /\ "RX" \notin IFG2 /\ Goto(t, next)

\* *(bytes): beyond the part of the buffer that is modelled, anything.
Byte(i) == IF i <= Room THEN {buffer[i]} ELSE Characters

\* Mutant: a line feed stays what it is.
MutantDecoded(i) ==
    UNION {CASE c # BACKSLASH -> {<<c, 1>>}
             [] c = BACKSLASH /\ d \notin {LOWER_H, UPPER_H} -> {<<BACKSLASH, 2>>}
             [] c = BACKSLASH /\ d \in {LOWER_H, UPPER_H} ->
                    {<<Hex[h], 4>> : h \in Byte(i + 2) \X Byte(i + 3)}
           : c \in Byte(i), d \in Byte(i + 1)}

\* The character put for the one at i, and how far bytes moves.  An escape is
\* \hXX; a backslash before anything else stands for itself and hides it.
Decoded(i) ==
    UNION {CASE c # BACKSLASH -> {<<IF c = LF THEN CR ELSE c, 1>>}
             [] c = BACKSLASH /\ d \notin {LOWER_H, UPPER_H} -> {<<BACKSLASH, 2>>}
             [] c = BACKSLASH /\ d \in {LOWER_H, UPPER_H} ->
                    {<<Hex[h], 4>> : h \in Byte(i + 2) \X Byte(i + 3)}
           : c \in Byte(i), d \in Byte(i + 1)}

Decode(t) ==
    /\ At(t, "decode")
    /\ serial[t].at <= Room
    /\ \E d \in Decoded(serial[t].at) :
           serial' = [serial EXCEPT ![t].pc = "put", ![t].thing = d[1],
                                    ![t].at = @ + d[2]]
    /\ UNCHANGED <<registersU, puts, raced>>

Put(t) ==
    /\ At(t, "put")
    /\ RXBUF' = serial[t].thing
    /\ puts' = puts + 1
    /\ serial' = [serial EXCEPT ![t].pc = "load", ![t].thing = NUL]
    /\ UNCHANGED <<IFG2, TXBUF, flags_read, raced>>

\* *usci->IFG2 |= RXIFG;
Load(t) ==
    /\ At(t, "load")
    /\ serial' = [serial EXCEPT ![t].pc = "store", ![t].flags = IFG2]
    /\ UNCHANGED <<registersU, puts, raced>>

Store(t) ==
    /\ At(t, "store")
    /\ StoreFlags(serial[t].flags, serial[t].flags \cup {"RX"})
    /\ serial' = [serial EXCEPT ![t].pc = "taken", ![t].flags = {}]
    /\ UNCHANGED <<RXBUF, TXBUF, flags_read, puts>>

Check(t) ==
    /\ At(t, "check")
    /\ IF RXBUF = CR THEN serial' = [serial EXCEPT ![t].pc = "done", ![t].at = 1]
                     ELSE Goto(t, "wait")
    /\ UNCHANGED <<registersU, puts, raced>>

Wait(t) ==
    /\ WaitEmpty(t, "wait", "decode") \/ WaitEmpty(t, "taken", "check")
    /\ UNCHANGED <<registersU, puts, raced>>

thrd(t) ==
    /\ Wait(t) \/ Decode(t) \/ Put(t) \/ Load(t) \/ Store(t) \/ Check(t)
    /\ UNCHANGED <<browserVars, guest, received, written, transmitted>>

-----------------------------------------------------------------------------
(* handle_usci, on the main thread, with port 1's flags for P1.2           *)

UnchangedByUsci == UNCHANGED <<RXBUF, serial, browserVars, guest, puts, received, written>>

\* if (*usci->IFG2 & TXIFG)
UsciTest(selected) ==
    /\ turn = "usci"
    /\ turn' = IF selected /\ "TX" \in IFG2 THEN "usci_load" ELSE "wait"
    /\ UNCHANGED uartVars

UsciLoad ==
    /\ Main("usci_load", "usci_clear")
    /\ flags_read' = IFG2
    /\ UNCHANGED <<IFG2, TXBUF, transmitted, raced>> /\ UnchangedByUsci

UsciClear ==
    /\ Main("usci_clear", "usci_send")
    /\ StoreFlags(flags_read, flags_read \ {"TX"}) /\ flags_read' = {}
    /\ UNCHANGED <<TXBUF, transmitted>> /\ UnchangedByUsci

\* Mutant: the transmit buffer is not emptied.
MutantUsciSend ==
    /\ Main("usci_send", "usci_set")
    /\ transmitted' = IF TXBUF = NUL THEN transmitted ELSE Append(transmitted, TXBUF)
    /\ flags_read' = IFG2
    /\ UNCHANGED <<IFG2, TXBUF, raced>> /\ UnchangedByUsci

\* print_serial, TXBUF = 0, and the load of the second change.
UsciSend ==
    /\ Main("usci_send", "usci_set")
    /\ transmitted' = IF TXBUF = NUL THEN transmitted ELSE Append(transmitted, TXBUF)
    /\ TXBUF' = NUL
    /\ flags_read' = IFG2
    /\ UNCHANGED <<IFG2, raced>> /\ UnchangedByUsci

\* Mutant: the statement commented out above it in usci.c.
MutantUsciSet ==
    /\ Main("usci_set", "wait")
    /\ StoreFlags(flags_read, flags_read \cap {"TX"}) /\ flags_read' = {}
    /\ UNCHANGED <<TXBUF, transmitted>> /\ UnchangedByUsci

UsciSet ==
    /\ Main("usci_set", "wait")
    /\ StoreFlags(flags_read, flags_read \cup {"TX"}) /\ flags_read' = {}
    /\ UNCHANGED <<TXBUF, transmitted>> /\ UnchangedByUsci

handle_usci(selected) ==
    UsciTest(selected) \/ UsciLoad \/ UsciClear \/ UsciSend \/ UsciSet

-----------------------------------------------------------------------------
(* The guest: one instruction a turn.  It polls RXIFG; when it is set, it  *)
(* reads the character and clears the flag.  Then it polls TXIFG; when it  *)
(* is set and there is something left to send, it stores that.             *)

Instruction(from, to) == guest = from /\ guest' = to /\ turn' = "bcm"

GuestTest(left) ==
    /\ \/ Instruction("rx", IF "RX" \in IFG2 THEN "read" ELSE "tx")
       \/ Instruction("tx", IF "TX" \in IFG2 /\ left > 0 THEN "write" ELSE "rx")
    /\ UNCHANGED <<registersU, received, written, raced>>

GuestRead ==
    /\ Instruction("read", "clear")
    /\ received' = Append(received, [put |-> puts, value |-> RXBUF])
    /\ UNCHANGED <<registersU, written, raced>>

GuestWrite ==
    /\ Instruction("write", "rx")
    /\ \E x \in Texts :
           TXBUF' = x /\ written' = IF x = NUL THEN written ELSE Append(written, x)
    /\ UNCHANGED <<IFG2, RXBUF, flags_read, received, raced>>

\* The instruction that clears RXIFG: get_addr_ptr gives its address, the
\* operation loads and stores through it.
GuestClearLoad ==
    /\ guest = "clear" /\ turn' = "decode_store"
    /\ flags_read' = IFG2
    /\ UNCHANGED <<IFG2, RXBUF, TXBUF, guest, received, written, raced>>

GuestClearStore ==
    /\ Instruction("clear", "tx")
    /\ StoreFlags(flags_read, flags_read \ {"RX"}) /\ flags_read' = {}
    /\ UNCHANGED <<RXBUF, TXBUF, received, written>>

Guest(left) ==
    /\ \/ turn = "decode" /\ (GuestTest(left) \/ GuestRead \/ GuestClearLoad)
       \/ turn = "decode_store" /\ GuestClearStore
    /\ UNCHANGED <<serial, browserVars, puts, transmitted>>

\* The store counts as one of the guest's stores.
GuestSend ==
    /\ turn = "decode" /\ GuestWrite
    /\ UNCHANGED <<serial, browserVars, puts, transmitted>>

-----------------------------------------------------------------------------
UartTypeOK ==
    /\ IFG2 \subseteq Flags /\ flags_read \subseteq Flags
    /\ RXBUF \in Characters /\ TXBUF \in Characters
    /\ buffer \in [1..Room -> Characters]
    /\ serial \in [Serial -> [pc : {"none", "wait", "decode", "put", "load", "store",
                                    "taken", "check", "done"},
                              at : Position, thing : Characters, flags : SUBSET Flags]]
    /\ guest \in {"select", "rx", "read", "clear", "tx", "write"}
    /\ sent \in Seq(AnyMessage) /\ due \in Seq(Characters) /\ puts \in Nat
    /\ received \in Seq([put : Nat, value : Characters])
    /\ written \in Seq(Characters) /\ transmitted \in Seq(Characters)
    /\ overlapped \in BOOLEAN /\ raced \in BOOLEAN

(* The guest never receives one put twice, nor in another order: RXIFG     *)
(* stays set from the put until the guest clears it, and no stale value of *)
(* IFG2 that another thread stores brings a cleared flag back.             *)
ReceivedInOrder ==
    ~overlapped =>
        \A i, j \in DOMAIN received : i < j => received[i].put < received[j].put

(* When messages come one at a time and no store to IFG2 undoes another    *)
(* thread's, a thread that has ended has handed over its whole message:    *)
(* escapes decoded, nothing lost, added or changed on the way.             *)
DeliveredWhole ==
    ~overlapped /\ ~raced /\ (\A t \in Serial : ~Alive(t)) =>
        [i \in DOMAIN received |-> received[i].value] = due

(* What handle_usci sends is what the guest stored, each character once    *)
(* and in order, when messages come one at a time, although the serial     *)
(* thread's stale stores may take away TXIFG, or bring it back, at any     *)
(* time; NUL, which handle_usci takes for an empty buffer, is never sent.  *)
TransmittedOnce ==
    ~overlapped =>
        /\ Len(transmitted) <= Len(written)
        /\ transmitted = SubSeq(written, 1, Len(transmitted))

(* Between turns the guest finds TXIFG set, unless a store to IFG2 has     *)
(* undone another thread's: then handle_usci may never set it again.       *)
TxReadyUnlessRaced ==
    ~raced /\ turn \notin {"usci_send", "usci_set"} => "TX" \in IFG2

(* A serial thread ends, if no other message comes meanwhile: the guest    *)
(* takes every character, so the thread never waits for ever, and reaches  *)
(* the carriage return even if a lost update of IFG2 swallows it.          *)
MessagesEnd ==
    (\E t \in Serial : Alive(t)) ~> (overlapped \/ \A t \in Serial : ~Alive(t))

(* "while (! (IFG2 & UCA0TXIFG) ); // USCI_A0 TX buffer ready?"            *)
(* (430x2_firm/uart/main.c:9): a guest that waits for TXIFG gets it.       *)
TxBufferReady == []<>("TX" \in IFG2)
=============================================================================
