# MSP430 Emulator: specifications, model checking and proofs

TLA+ models of the MSP430 emulator in this repository, the TLC runs that check
them on small instances, and theorems about them checked by TLAPS.
`PROJECT.json` lists the runs, the lines of source each definition translates,
the hazards of the code, the findings and the theorems. Paths below are relative
to `src/`.

## 1. The system

One process emulates one chip for one browser. It has two threads that run all
the time, and one more for each serial message. Another program, the spawner,
starts such a process for every connection and tells the browser its port.

| Part | State | Operations | Talks to |
|---|---|---|---|
| CPU (`devices/cpu/*.c`) | 16 registers, SR, a static copy of SR | fetch, decode, execute or disassemble one instruction | memory, `running` and `debug_mode` |
| Memory (`devices/memory/memspace.c`, `devices/utilities.c`) | 64 KB byte array | word and byte pointers into it | everybody, unlocked |
| Main loop (`main.cpp`) | - | start-up, one turn per instruction, quit, free | all of the below |
| Debugger (`debugger/debugger.c`, `disassembler.c`) | flags `running`, `debug_mode`, `quit`; breakpoints | console commands, breakpoint test, disassembly | CPU, packet queue |
| Web server thread (`debugger/websockets/emu_server.cpp`) | upload progress, last LED states | libwebsockets callbacks: connect, close, writeable, receive | flags, `pc`, memory, packet queue |
| Packet queue (`debugger/websockets/packet_queue.c`) | linked list, count, `spin_lock` | enqueue, dequeue | main thread and web thread |
| UART (`devices/peripherals/usci.c`, `thrd` in `emu_server.cpp`) | IFG2, RXBUF, TXBUF in guest memory | transmit each turn, one thread per serial message | guest, packet queue |
| Port 1 (`port1.c`), clock (`bcm.c`), timer (`timer_a.c`) | copies of guest registers | one handler call per turn | guest memory, LED and servo packets |
| Spawner (`debugger/server/server.c`) | next port | fork one emulator per connection | browser |

What is hard here: the two threads share `pc`, the flags, the peripheral
registers and the queue with one lock that is a plain `bool`; the disassembler
runs the CPU's own decoder on the CPU's own registers; the arithmetic goes
through signed and unsigned 16-bit, 8-bit and 32-bit C types; the operand
addressing of 4 x 2 modes is written out case by case.

What makes each part correct:

- queue: packets reach `lws_write` whole, once, in order; no thread spins for ever;
- CPU: each instruction has the result, the flags, the target and the side
  effects its comment states; displaying one has none;
- run control: a stop is prompt, the guest's program order is kept, a breakpoint
  stops the program, quit ends the process;
- UART: a byte reaches the guest once and in order, a message whole, what the
  guest sends leaves once and in order, no flag is lost for good, no thread waits
  for ever;
- port 1: the browser sees no level that was not driven, and in the end the one
  that is;
- clock and timer: the servo ends where the guest's registers put it;
- spawner and upload: each browser gets an emulator and a port of its own, and the
  emulator loads that browser's file, whole.

## 2. Modules

| Module | Models |
|---|---|
| `PacketQueue` | `packet_queue.c` at the granularity of loads and stores, with the heap, and the writeable callback that dequeues |
| `FifoQueue` | the abstract promise: packets leave whole, once, in queue order, until the queue is broken |
| `PacketQueueRefinement` | `PacketQueue` with a history variable, and the refinement mapping to `FifoQueue` |
| `Word` | `flag_handler.c` and the jump offset of `formatIII.c`, as C computes them, next to what they are meant to be |
| `Cpu` | fetch, decode, the formats I, II and III, registers, SR, memory: functions from emulator state to emulator state |
| `CpuMachine` | the state machine that executes and displays instructions, and its properties |
| `RunControl` | `main.cpp`, breakpoints, console commands, disassembly and the browser's messages: two threads on `pc` and the flags |
| `MainLoop` | the statements of one turn of the main loop: `turn`, shared by the four modules below |
| `Clock` | `bcm.c` and `timer_a.c` with the servo packets |
| `Port1` | `port1.c` and the LED part of the writeable callback |
| `Uart` | `usci.c`, `thrd` and the serial message of `emu_server.cpp` |
| `Peripherals` | the composition of `Clock`, `Port1` and `Uart` in the turns of the main thread, with the web and serial threads and a guest |
| `Spawner` | `server.c` |
| `Upload` | the upload in `emu_server.cpp`, the waits of `main.cpp`, `load_firmware`: any number of emulators in one directory |
| `Session` | the composition of `Spawner` and `Upload` with the browsers |
| `PacketQueue_proofs`, `PacketOrder_proofs`, `PacketFifo_proofs`, `Word_proofs`, `Cpu_proofs`, `RunControl_proofs`, `Peripherals_proofs`, `Session_proofs` | theorems |
| `MC...` | constants for TLC |

### PacketQueue

Each thread has a `pc` whose labels are the statements of `packet_enqueue` and
`packet_dequeue`; an action is one load or store of shared memory, in the order
of an unoptimised build. `while (s->spin_lock);` and `s->spin_lock = true;` are
two actions. `heap` keeps the contents of freed blocks and `live` says which are
allocated: following a pointer into a freed block may end the process (`Crash`)
or read what is there, following NULL ends it. So may the callback's copy of a
packet that is half filled or mixed: length bytes from a message that is NULL or
another one's (`Deliver`). A packet is named by the call that enqueued it; `NULL`
in a field means the field has not been written since `calloc`. Left out:
`pending_packets_tail`, written and never read; the copy of the message
(`heap_item`), private until it is stored.

### Cpu and CpuMachine

The operators take the emulator's state and return the state after. They keep
the C code's order where it can be seen: a format I destination offset is
fetched before a register source is read, PUSH and CALL move SP before they use
the operand, `get_reg_ptr(2)` refreshes a static copy of SR and writes to it are
lost. An `int16_t` is a natural below 2^16, widened by `Signed` where the C code
widens it; `is_carried` states what the `uint32_t` computation yields for it.
The uninitialised `source_value` of PUSH in symbolic mode is `garbage`, any
value of a small set. The disassembler is the same decoder with `dis = TRUE`, as
in the code; the text it prints is left out.

`CpuMachine` starts in any state of a set: the debugger's `set` command can
write every register and every address, so all of them are states the program
can be in.

### RunControl

One action per load or store of `pc` and the flags, in both threads. Labels
`x_...` are `decode(emu, fetch(emu), EXECUTE)`, called from the main loop and
from the step command of the web thread; `d_...` are `disassemble(emu, a, 1)`,
called from both threads too. The guest's program is reduced to its addresses:
`Jump` says where its jumps go and `Invalid` which addresses hold no
instruction; every other instruction falls through, every instruction is one
word. `due` is the address the program comes to next, `extra` counts the
instructions begun after `running` fell, `raced` remembers that both threads
were using `pc` at once: history variables, read by properties only.

Abstractions: `step N` and `dis N` are N = 1 (the loop bodies are the same
actions); the scan of the breakpoints is one read of `pc`; register display and
console output are left out (they enqueue packets: `PacketQueue`); the
peripheral handlers and `mclk_wait_cycles` are left out of the turn
(`Peripherals` has them); a failed `load_firmware` ends the process; a message
over 1000 bytes ends it like a closed connection does.

### Peripherals: Clock, Port1, Uart

`turn` is the statement the main thread is at. `handle_bcm` and
`handle_timer_a` read guest registers only the main thread writes, so each is
one action; the handlers of port 1 and the UART are split at every access to
something another thread reads or writes.

`Clock` computes with frequencies in units of 1250 Hz, in which all the code's
frequencies and their quotients are whole numbers, and compares periods as
fractions where the code compares doubles: two equal fractions could differ as
doubles by rounding, which would only repeat a packet. The history `quiet`
counts turns since the last store, `servo` is the last angle sent.

`Port1` keeps the registers as sets of pins. `driven` collects the levels copied
to a pin since its last packet, `led` is the level of the last packet. Packets go
straight to the browser: that the queue between keeps their order is
`PacketQueue`'s business.

`Uart` splits `|=` and `&=` on IFG2 into a load and a store. `raced` remembers
that a store overwrote a value other than the one loaded for it, `overlapped`
that two serial threads were alive at once; `puts`, `received`, `written`,
`transmitted` number the characters. The page that encodes the messages is not in
the repository: `Meaning` is what each message stands for, `Encodes` says how a
character may be written (plainly, as `\hXX`, or a backslash before anything
else) and `MeaningAssumption` that a message is such a text and ends with its only
carriage return; `due` collects what the guest should get. The thread knows none
of that: `Decoded` is its code on the bytes it finds. What lies in the library's
buffer is modelled up to `Room`; beyond it `Byte` is any character. Left out here: a
message with more than 1000 bytes, which ends the process, and a
`pthread_create` that fails, which loses the message with a line on stderr.

The guest is not part of the emulator. It is one of three programs, in one of
which it stores to clock and timer registers, in another to P1DIR and P1OUT, in
the third it selects P1.2 for the UART, polls RXIFG, reads the character,
clears RXIFG, polls TXIFG and sends. Its stores are bounded by `MaxStores`;
instructions that touch no peripheral are not.

The debugger's step command runs the same four handlers from the web thread
(`debugger.c:67-71`), where they may meet those of the main thread. `Peripherals`
does not have it: its properties are about a machine that is run, not stepped.

### Session: Spawner, Upload

An action of `Spawner` is one callback, the spawner being a single thread; `ws`
and `new_ws_port` are its globals. `callback_http` does not look at its reason
and takes over `ws` whatever the library reports of a connection: that it is
there (`Open`), its request or anything else (`Event`), and its end (`Destroy`),
of a connection that waits, has been served or leaves. `SomeoneWaits` is a bound
on these: one that comes while no connection waits for its port is left out, as
it only sets `ws`, which the next `Open` sets before it is used. A port that is
written to a connection which is no more uses freed memory and may end the
spawner (`up`). What the library reports without a connection is left out. A port
is its distance from 9000, and an emulator is named by its port. A process that
gets no further than `execvp`, its thread or its websocket context ends without
listening (`Listen`).

In `Upload` the web thread and the main thread of each emulator take turns in any
order: the loop over the bytes of a message is one action, since only the web
thread touches what it changes, and `fclose`, `objcopy` and the raising of the
flags are one each. `fp` says whether `fopen` has opened a file: with none, the
first byte ends the process. `unflushed` is what the C library has buffered for
`fp`; it reaches the file with `fclose` or with the end of the process. A byte of
a file is the browser and its position, so that a mixture of two uploads is
neither one's file. A file may be empty: its end is never met, and the emulator
takes all that follows for its bytes. `objcopy` is external, and the code ignores
its result: it makes of a browser's whole file its firmware, or fails, on that as
on any other file, and leaves the `tmp.bin` there was, a part of one or none.
`STRAY` is a `tmp.bin` that is nobody's whole firmware: an old one or a part of
one. `SizeLimit` stands for 2^16.

The histories: `crossed` remembers that a `callback_http` for another connection
came while a browser waited, `disturbed` that a command was sent during an upload
or that uploads overlapped, `unconverted` that `objcopy` did not make `tmp.bin` of
the file. An upload that is disturbed gets no further command (a bound: one says
all that the properties ask).

## 3. Runs

| Run | States | What it shows |
|---|---|---|
| `queue` | 1037374 | `LockOwned`, `DequeueFindsPacket`, `DequeueNeverDangles`, `SentOnce`, `SentInOrder` hold although the lock excludes nobody; `ImplementsFifo`: up to the first meeting inside the lock the list is a FIFO queue, liveness included; `CrashNeedsRace`; `LockReleased`, `CallsReturn` under fairness |
| `queue_exclusion` | violation | the lock does not exclude |
| `cpu` | 86136 | ten properties of instructions, below |
| `cpu_borrow`, `cpu_symbolic`, `cpu_sr`, `cpu_display` | violations | four disagreements between the code and its comments |
| `run_control` | 285988 | `StopsWithinOne`, `InOrderUnlessRaced`, `BreakpointReached`, `QuitEnds` |
| `pause_place` | violation | PAUSE's display races with the main thread's fetch |
| `peripherals` | 348162 | `ServoShowsSettings`, `ReceivedInOrder`, `DeliveredWhole`, `TransmittedOnce`, `TxReadyUnlessRaced`, `LevelsWereDriven`, `LedsSettle`, `MessagesEnd` |
| `uart_tx` | violation | TXIFG may be lost for ever |
| `session` | 630578 | `PortToldOnce`, `ToldOwnPort`, `UploadWhole`, `OwnFirmware`, `FirmwareRuns` |

Run them with `tlc -config <cfg> <module>`. Deadlock is checked in all but
`session`, where browsers may leave or have their machines running and nothing
is left to do.

The queue after a race. The surprising part of `queue` is how much
survives. Only the web thread dequeues, and every other thread only stores a
positive count and a non-NULL head, so the unlocked emptiness test cannot become
stale, the early return that would keep the lock is never taken, and the web
thread never frees or reads a dead block. What a race costs is lost or half
filled packets, a count that no longer is the list's length, and an enqueuer
that follows a freed block.

The CPU. `SignFlagsExact`: N, Z and V of the five additive instructions are
those of the exact signed result. `SignedBranchesRight`: CMP and JNE, JEQ, JGE, JL
branch on the signed order. Both except the lowest number as the source of SUB
and CMP, marked TODO in `formatI.c:554,589`; the second except the offset 0, with
which a branch taken and one not taken end in the same place.
`NearJumpsLandRight` is
`JumpsLandRight` without the 256 broken offsets. `PushPop`, `CallReturn` and
`CallGoesToSource`
relate instructions through the stack, for all addressing modes and operands
through SP, but for symbolic operands, which format II looks up one word too far
(`formatII.c:109-115`), and for CALL SP and CALL @SP+, which read what CALL has
just pushed. Their proofs showed that this is not all: a stack pointer in the
program puts the pushed word over the next instruction, the return instruction
or the operand of the CALL, which is read after the push. `Apart` and `Spared`
exclude just these, and the run has such states: stack pointers at both ends of
the memory, in the program and under it. `BoundariesAgree`: the disassembler
consumes the same words as execution. `WritesOnlyDestination`: no byte beside the operand is touched.
`DisassemblyPure`: displaying formats I and III changes nothing.

Run control. `StopsWithinOne` holds for a stop from either thread.
`InOrderUnlessRaced` holds until both threads use `pc` at once, and
`pause_place` shows the race: PAUSE displays while the main loop, past its test
of `running`, is about to fetch.

Peripherals. The three threads that write IFG2 without a lock cost less than it
looks. `ReceivedInOrder` and `TransmittedOnce` hold whatever stores are lost,
because the serial thread waits twice for RXIFG to clear and so never puts a
character while the flag could be raised for the one before, and because
`handle_usci` and the guest are one thread: UCA0TXBUF is empty before the guest
looks at TXIFG again, whoever has brought that back. What a
lost store costs is a byte the guest never sees (`DeliveredWhole` needs `~raced`)
and TXIFG for good (`uart_tx`). `MessagesEnd` holds even then: the serial thread
looks at what it has put, not at what the guest took. `LevelsWereDriven` says
what a browser may conclude from a LED packet; `LedsSettle` that in the end it
shows the port, which needs the reset of `p1_n_on` and every copy of the code
for every pin to be right. `ServoShowsSettings` is about the divider,
the frequency and the comparison that are all one turn late: two turns after the
last store the angle is right.

Sessions. `ToldOwnPort` needs that no `callback_http` for another connection came
while a browser waited, not even the one that reports that connection's end:
`ws` is a global. `PortToldOnce` does not, and survives failing forks.
`UploadWhole` and `OwnFirmware` hold for an upload nothing disturbs, although all
emulators share the file and `tmp.bin`, because the flag is raised last.
`UploadWhole` has a disjunct for the empty file, whose end is looked for only
after a byte. `OwnFirmware` needs that `objcopy` worked (`~unconverted`): when it
fails the emulator loads the `tmp.bin` that is there, which may be another
browser's. `FirmwareRuns` names in `GaveUp` what can come in the way in this model:
the browser left or its file is empty or too big for the header; a callback
crossed its wait, or its port went to another browser or another's to it; the
spawner or the emulator ended, the latter also because `fopen` failed, the
firmware did not fit, or there was no `tmp.bin`; the fork failed; the upload was
disturbed; `objcopy` failed.

### Bounds

- Queue: two threads, three packets, one block per packet. Three packets are
  enough for an empty, a one-packet and a longer list to be walked and dequeued
  during a race, and for a freed block to be reused.
  `MaxCalls` bounds the calls: two of the CPU thread, one of the web thread,
  which also dequeues.
- CPU: boundary values 0, 1, 127, 128, 255, 256, 32767, 32768, 36864, 65535 in
  both operands of all twelve instructions, both sizes and both carries; every
  addressing mode with PC, SP, SR, CG2 and a general register; jumps with every
  condition around 256 and 512; stack pointers with the operand beside or under
  them, at both ends of the memory and in the program. 14308 initial
  states, two instructions and one display each
  (`MaxSteps`, `MaxShows`). The theorems of `Word_proofs` and `Cpu_proofs` close
  the gap between the boundary values and all values.
- Run control: three addresses (an instruction, a jump back, no instruction),
  one breakpoint (`MAX_BREAKPOINTS`), three messages (`MaxMessages`): enough for
  a command, PLAY and PAUSE in one behaviour.
- Peripherals: `Pins`: P1.2 and one more, so that "the next pin" and "the
  other pin" exist; four stores to the port (a blink during a poll, and a
  direction change in it). `ClockStores`: two clocks, a divider, another clock
  source, two periods, one of which overflows, two pulses, the timer's start with
  and without clear; seven stores, enough to set everything once. `Messages`: one
  of three (plain, hexadecimal escape, other escape), then one more, each ended by
  a line feed or a carriage return; two characters sent, one possibly NUL.
  `Room` holds the longest. `MaxAlive = 1`: with more, the properties say nothing
  once threads overlap, except `TxReadyUnlessRaced`, which is proved for any
  number. The LED callback runs under the LED program only: under the others no
  pin is an output and it does nothing.
- Session: two browsers, two ports, one file name for both, `SizeLimit` 4, and
  the two browsers' files of 2 and 1 bytes, of 0 (never ends) and 3 (refused), or of
  3 and 4 (which the field turns into 0): every file is cut into messages in every
  way, before, at and after its end. Other pairs add no case to these: what one
  upload does to another happens with the first pair.

### Fairness

Weak fairness of each thread: the operating system preempts threads, none is
stopped for ever, and a spin loop is a disabled action that becomes enabled when
its condition does. In the queue models the writeable callback asks for the next
callback each time (`emu_server.cpp:295`), so `Dequeue` is fair; calls of
`packet_enqueue` by a thread are part of its program. In `RunControl` the main
thread and a handler in progress are fair, a message of the browser is not: it
need not arrive. Fair `Crash` says that a thread which keeps following a freed
pointer does not escape for ever; `QuitEnds` and `LockReleased` allow it as an
end. In `RunControl` `mclk_wait_cycles` is assumed to return; `Peripherals` has
both cases.

In `Peripherals` the main thread, the LED callback and each serial thread are
weakly fair; the browser need not send and the guest need not store. In `Session`
the threads of each emulator are fair, and so is a browser that stays and goes
on (`Progress`): `FirmwareRuns` is a promise to such a browser. The page is not
in the repository; that it connects only once the emulator listens is an
assumption.

## 4. Proofs

Checked by `tlapm`, for every value of the constants.

`PacketQueue_proofs`, from `PQAssumption` (the web thread is not a producer,
NULL is not a block): `TypeCorrect`, `LockAlwaysOwned`,
`DequeueAlwaysFindsPacket`. None of the three properties is inductive. The
invariant `IInv` adds `WebCommitted`, the argument above step by step: from the
unlocked test to the decrement `packets_queued > 0`, and until the head is
followed the head is not NULL. It adds `EnqueueHasBlock`, so that a store never
goes to NULL. One lemma per conjunct and thread role.

Three more need what the blocks are. `DequeueIsSafe` rests on `ListInv`: among
the live blocks `next` is injective and leads to
live blocks or NULL, nothing but the block being unlinked points to the head, and
the block the web thread holds is live and nobody's successor; races may lose
blocks but never bring a freed one back. `NeverSentTwice` adds `SentInv`: a
message is stored in one block at most, and what has been sent is in no live one.
`RaceInv`, about the specification with the history variable `raced`, says that
until two threads meet, whoever is inside the lock holds pointers to live blocks
only (`Sound`).

`PacketOrder_proofs`: `NeverOvertaken` (`SentInOrder`: the packets of one thread
among themselves), races included. Which
block is older is in no variable, so `AgeInv` says that there are ages: a number
for each block's `calloc`, for the call each thread is in and for the last block
taken off, such that every list leads from older to younger blocks (`Onwards`), a
thread stores its message in a block no older than its call (`Filled`) and
younger blocks hold later messages of a thread (`Ordered`). Each step is shown to
keep such numbers or to have new ones.

`PacketFifo_proofs`: `QueueIsFifo`, the safety half of `ImplementsFifo`: every
step of `PacketQueueRefinement` is a Put, a Take, a Send, a Break or invisible in
`FifoQueue`. `FifoInv` says that before a race the blocks from the head on are
some sequence without repetition, all but the last of them whole, and for every
statement of both calls how far in it the thread is. The mapped queue is a
recursive function that walks the list; that it returns the packets of that
sequence (`WalkIs`) is an induction over its length. The library's induction
theorems cannot be used by the provers; `Induction` is stated for a set of
numbers instead and follows from the least element of a set (`LeastNat`), that
from the library's facts on finite sets. `MemoryAssumption` (finitely many
blocks, NULL is no message) bounds the walk. `OnlyRacesCrash` (`CrashNeedsRace`)
needs both: `RaceInv` for what is done to the list, and `FifoInv` for the packet
in the callback's hand, which is whole until threads meet, so that its message is
there and as long as its length says.

`RunControl_proofs`, from `RCAssumption` (jumps stay in the program):
`TypeCorrect`; `StopsAfterOne` through `ExtraInv`, which says where the main
thread can be once it has begun its extra instruction; `InOrderWithoutRace`
through `OrderInv`, which says for every label of fetch and disassembly which
of `pc`, `word`, `tmp` and `saved_pc` holds the address the program is at.

`Word_proofs`: `OverflowExact` and `NegativeXorOverflow` (the flags are right for
all operands of both sizes), `CarryExact` (`is_carried` is right for unsigned
arguments of the operand's size, which ADD, SUBC, SUB and CMP do not always
pass), `OffsetExact` (the jump offset is right except for 256..511).

`Cpu_proofs`, for every machine state whose registers and bytes are in range
(`CpuAssumption`; `Addresses` are all of the memory) and every value of the
uninitialised source of PUSH: `MachineTypes`, and all the properties of the run
`cpu`. The lemmas follow the code: `...Reads` say what fetching and decoding an
operand changes (`Reads`: pc by how much, which registers, nothing else), `...Does`
what an instruction changes (`Does`, `OnlyAt`: its destination, nothing beside
it), for each mode and each operation once; `LengthsAgree`, `ShowingIsPure`,
`JumpsLandRight` and `WritesWithinDestination` combine them. `FlagsAreExact`
rests on `FlagsOfSum`, that overflow, sign and zero of a sum of three terms as C
computes them are those of the exact sum (`SignFlags`), and on `MinusIs`, that
the code's complement is a negation but for the lowest number. Three properties
relate several instructions to the state `start`; `HistoryInv` says that the
machine is that state after one or two instructions. `BranchesAreSigned` then
needs what a comparison leaves behind (`ComparedIs`), `CallsGoToSource`,
`PushThenPop` and `CallThenReturn` what a format II instruction finds (`Finds`),
what a push leaves in memory and registers (`HasPushed`), that the next
instruction is still the one that was there (`ApartUnchanged`), and what a pop
makes of it (`PoppedBack`).

`Peripherals_proofs`, for any pins, messages, guest stores and number of serial
threads: `TypeCorrect`; `TxReady`, `ReceivedOnce`, `TransmittedInOrder`,
`MessagesAreWhole`, `ShownWereDriven`, `ServoFollows`. `TransmittedInOrder` rests
on `TransmitInv`: what is written
is what is transmitted and at most one character in UCA0TXBUF, and one that
stays there for a turn is there because TXIFG is lost for good (`Stuck`), in which case the guest
never stores another; `SelectCopied` adds that the flags of P1.2 that
`handle_usci` tests are the guest's. `ReceivedOnce` rests on `OneThread` (without
overlap there is at most one live thread) and `ReceiveInv`, which says where RXIFG can
be, in the register or in a loaded copy of it, at each statement of the serial
thread and the guest. `ShownWereDriven` rests on `LedInv`: `p1_n_on` is what was
last sent, and a level other than that, once in the flag, was copied since.
`MessagesAreWhole` (`DeliveredWhole`, from `MeaningAssumption`) rests on
`DeliverInv`: the thread of the message that is being handed over has put its
first k characters and stands in the buffer where the next is written (`HasPut`);
the guest has received the characters due before it and those k but for the one
still in UCA0RXBUF; between messages it has received all. `DecodedIs` is that the
decoder finds what the page has written there. `ServoFollows`
(`ServoShowsSettings`) rests on `ClockInv`: in the first turn after a store
divider and DCO are those of the registers, in the second the frequency, and the
last periods stored are the ones the angle was made of; `SameSetting` is that
equal fractions give equal angles.

`Session_proofs`, for any finite set of browsers, any names and sizes, the empty
file included: `PortsToldOnce`, `OwnPortTold` from `SpawnerInv` (ports told are
below `new_ws_port`; without crossing, the browser that waits is the one in `ws`,
whatever is reported of the others), and `UploadsWhole`, `FirmwareIsOwn` from
`UploadInv`: an undisturbed upload is the only one in progress (`Alone`), what is
written is what was sent of the file, and from the close of the file to the load
the file and then, if `objcopy` converts it, `tmp.bin` are this browser's
(`EmulatorInv`). `SessionTypes` is more than types: that a
port is always left rests on `SpawnerTypes` (one is used for each browser served),
that the count of bytes stays in its range on `UploadsFit`.

With these every invariant and every action property that a passing run checks
is a theorem. Only model-checked: the properties under fairness (`LockReleased`,
`CallsReturn`, `BreakpointReached`, `QuitEnds`, `LedsSettle`, `MessagesEnd`,
`FirmwareRuns`) and the liveness half of `ImplementsFifo`, which need ENABLED, and
the violations of section 5.

## 5. Findings

Seven runs show the code disagreeing with its own comments or examples: the lock
(`queue_exclusion`), the carry of SUB and CMP (`cpu_borrow`: a negative 16-bit value
passed as a 32-bit one counts as carried, so that a borrow sets the flag), symbolic sources
with a memory destination (`cpu_symbolic`), MOV to SR (`cpu_sr`), disassembly that
changes registers (`cpu_display`), the restored pc (`pause_place`) and the lost
TXIFG (`uart_tx`). `PROJECT.json` quotes the lines. Two more need no run: far
forward jumps go backwards (`Word_proofs!OffsetExact` proves it for the 256
offsets and no others), and the header's size has 16 bits where its comment
(`emu_server.cpp:358`) has 32.

## 6. Not modelled, and what is left

Not modelled: interrupts, low-power modes and capture mode, which the emulator
does not emulate (it reads their bits and does nothing); wall-clock time (how
long `mclk_wait_cycles` and `usleep` take); the text of displays
(`register_display.c`, the mnemonics, dump, help); the flags of port 1 and the
fields of the timer that nothing reads; the boot loader image; the guest
programs in `430x2_firm`, of which `Peripherals` has the kinds; build files;
code that is commented out or never called (`open_pty`, `timer_A0_thread`,
`smclk_wait_cycles`, `destroy_packet_queue`).

Left for later: runs for the symbolic operands of format II and for RRA.B, which
`Cpu` models and the properties exclude by name; `RunControl` and `Peripherals`
composed, so that a stop falls between the handlers of a turn; safety lemmas
for the liveness properties (that a waiting thread waits for something another
thread still has to do).
