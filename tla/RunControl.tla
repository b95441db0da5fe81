----------------------------- MODULE RunControl -----------------------------
(***************************************************************************)
(* Running and stopping the machine: the main loop (main.cpp), the         *)
(* breakpoints and the commands of the debugger (debugger/debugger.c), the *)
(* disassembler (debugger/disassembler.c) and the messages of the browser  *)
(* (the LWS_CALLBACK_RECEIVE case of debugger/websockets/emu_server.cpp).  *)
(*                                                                         *)
(* Two threads share cpu->pc and the flags with no lock.  Each action is   *)
(* one load or store of them; the guest's program is only the addresses it *)
(* goes through.  Every instruction is one word long.                      *)
(***************************************************************************)
EXTENDS Naturals, FiniteSets

CONSTANTS
    Last,             \* the last address: there is one instruction in each
    Jump,             \* where the jumps of the program go
    Invalid,          \* the addresses that hold no instruction
    MAX_BREAKPOINTS,
    MaxMessages       \* bound on the messages of the browser

Addresses == 0..Last
Reset == 0            \* 0xC000

ASSUME RCAssumption ==
    /\ Last \in Nat
    /\ DOMAIN Jump \subseteq Addresses
    /\ \A a \in DOMAIN Jump : Jump[a] \in Addresses
    /\ Invalid \subseteq Addresses \ DOMAIN Jump
    /\ MAX_BREAKPOINTS \in Nat
    /\ MaxMessages \in Nat

Threads == {"main", "web"}

VARIABLES
    running, debug_mode, quit,                 \* flags of Cpu and Debugger
    web_server_ready, web_firmware_uploaded,
    pc,                \* cpu->pc
    bp_addresses,      \* the breakpoints set so far
    memory,            \* MEMSPACE has been allocated
    freed,             \* main has freed the emulator
    ended,             \* the process has exited or crashed
    at,                \* the statement each thread is about to execute
    back,              \* where disassemble returns to
    saved_pc,          \* disassemble's local
    word,              \* local: the address the instruction was fetched from
    tmp,               \* argument or register: pc loaded, not yet stored
    messages,          \* the messages received
    due,               \* history: the address the program goes to next
    extra,             \* history: instructions main began since running fell
    raced              \* history: both threads were using pc at once

flags == <<running, debug_mode, quit, web_server_ready, web_firmware_uploaded>>
\* A local is set to 0 when it goes out of use.
locals == <<back, saved_pc, word, tmp>>
life == <<memory, freed, ended>>
history == <<due, extra>>
vars == <<flags, pc, bp_addresses, life, at, locals, messages, history, raced>>

\* Where disassemble returns to, but when a breakpoint was hit.
Back == [main |-> "loop", web |-> "idle"]

\* calloc, setup_debugger and the start of the web server thread
Init ==
    /\ running = FALSE /\ debug_mode = TRUE /\ quit = FALSE
    /\ web_server_ready = FALSE /\ web_firmware_uploaded = FALSE
    /\ pc = 0
    /\ bp_addresses = {}
    /\ memory = FALSE /\ freed = FALSE /\ ended = FALSE
    /\ at = [main |-> "ready", web |-> "idle"]
    /\ back = Back
    /\ saved_pc = [t \in Threads |-> 0]
    /\ word = [t \in Threads |-> 0]
    /\ tmp = [t \in Threads |-> 0]
    /\ messages = 0
    /\ due = 0 /\ extra = 0 /\ raced = FALSE

\* The statements of fetch, decode and disassemble.
Fetching == {"x_word", "x_load", "x_store", "x_decode"}
Showing == {"d_arg", "d_save", "d_start", "d_word", "d_load", "d_store",
            "d_decode", "d_stop", "d_stopped", "d_restore"}
UsesPc(t) == at[t] \in Fetching \cup Showing \cup {"init_pc", "reset", "set"}

At(t, label) == ~ended /\ at[t] = label
Goto(t, label) ==
    /\ at' = [at EXCEPT ![t] = label]
    /\ raced' = (raced \/ (UsesPc("main") /\ UsesPc("web"))')

-----------------------------------------------------------------------------
(* fetch and decode, as both threads call them.  Labels x_... are those  *)
(* of decode(emu, fetch(emu), EXECUTE), d_... those of disassemble.        *)

\* Mutant: the address after the last one.
MutantFollowing(a) == a + 1

Following(a) == IF a = Last THEN 0 ELSE a + 1

FetchWord(t, from, to) ==
    /\ At(t, from)
    /\ memory
    /\ word' = [word EXCEPT ![t] = pc]
    /\ extra' = IF t = "main" /\ from = "x_word" /\ ~running THEN extra + 1 ELSE extra
    /\ Goto(t, to)
    /\ UNCHANGED <<flags, pc, bp_addresses, life, back, saved_pc, tmp, messages,
                   due>>

\* cpu->pc += 2;
FetchLoad(t, from, to) ==
    /\ At(t, from)
    /\ tmp' = [tmp EXCEPT ![t] = pc]
    /\ Goto(t, to)
    /\ UNCHANGED <<flags, pc, bp_addresses, life, back, saved_pc, word, messages,
                   history>>

FetchStore(t, from, to) ==
    /\ At(t, from)
    /\ pc' = Following(tmp[t])
    /\ tmp' = [tmp EXCEPT ![t] = 0]
    /\ Goto(t, to)
    /\ UNCHANGED <<flags, bp_addresses, life, back, saved_pc, word, messages,
                   history>>

\* decode(emu, instruction, EXECUTE): a jump stores pc, an instruction that
\* is none stops the machine.  What follows an executed instruction is the
\* next turn of the main loop, or the display of the step command.
AfterExecute(t) == IF t = "main" THEN "loop" ELSE "d_arg"

Execute(t) ==
    /\ At(t, "x_decode")
    /\ IF word[t] \in DOMAIN Jump
       THEN pc' = Jump[word[t]] /\ due' = Jump[word[t]]
       ELSE UNCHANGED pc /\ due' = Following(word[t])
    /\ word' = [word EXCEPT ![t] = 0]
    /\ Goto(t, IF word[t] \in Invalid THEN "x_stop" ELSE AfterExecute(t))
    /\ UNCHANGED <<flags, bp_addresses, life, back, saved_pc, tmp, messages, extra>>

\* decode(emu, opcode, DISASSEMBLE)
DecodeShown(t) ==
    /\ At(t, "d_decode")
    /\ word' = [word EXCEPT ![t] = 0]
    /\ Goto(t, IF word[t] \in Invalid THEN "d_stop" ELSE "d_restore")
    /\ UNCHANGED <<flags, pc, bp_addresses, life, back, saved_pc, tmp, messages,
                   history>>

\* cpu->running = false; debug_mode = true;
StopRunning(t, from, to) ==
    /\ At(t, from)
    /\ running' = FALSE
    /\ Goto(t, to)
    /\ UNCHANGED <<debug_mode, quit, web_server_ready, web_firmware_uploaded, pc,
                   bp_addresses, life, locals, messages, history>>

EnterDebug(t, from, to) ==
    /\ At(t, from)
    /\ debug_mode' = TRUE
    /\ Goto(t, to)
    /\ UNCHANGED <<running, quit, web_server_ready, web_firmware_uploaded, pc,
                   bp_addresses, life, locals, messages, history>>

-----------------------------------------------------------------------------
(* disassemble(emu, start_addr, 1)                                         *)

\* The argument start_addr: cpu->pc, loaded by the caller, or an address the
\* dis command names.
ShowArgument(t, from, values) ==
    /\ At(t, from)
    /\ \E a \in values : tmp' = [tmp EXCEPT ![t] = a]
    /\ Goto(t, "d_save")
    /\ UNCHANGED <<flags, pc, bp_addresses, life, back, saved_pc, word, messages,
                   history>>

\* uint16_t saved_pc = cpu->pc
ShowSave(t) ==
    /\ At(t, "d_save")
    /\ saved_pc' = [saved_pc EXCEPT ![t] = pc]
    /\ Goto(t, "d_start")
    /\ UNCHANGED <<flags, pc, bp_addresses, life, back, word, tmp, messages,
                   history>>

\* cpu->pc = start_addr
ShowStart(t) ==
    /\ At(t, "d_start")
    /\ pc' = tmp[t]
    /\ tmp' = [tmp EXCEPT ![t] = 0]
    /\ Goto(t, "d_word")
    /\ UNCHANGED <<flags, bp_addresses, life, back, saved_pc, word, messages,
                   history>>

\* Mutant: pc is left where the disassembler stopped.
MutantNoRestore(t) ==
    /\ At(t, "d_restore")
    /\ saved_pc' = [saved_pc EXCEPT ![t] = 0]
    /\ back' = [back EXCEPT ![t] = Back[t]]
    /\ Goto(t, back[t])
    /\ UNCHANGED <<flags, pc, bp_addresses, life, word, tmp, messages, history>>

\* cpu->pc = saved_pc; // Restore PC
ShowRestore(t) ==
    /\ At(t, "d_restore")
    /\ pc' = saved_pc[t]
    /\ saved_pc' = [saved_pc EXCEPT ![t] = 0]
    /\ back' = [back EXCEPT ![t] = Back[t]]
    /\ Goto(t, back[t])
    /\ UNCHANGED <<flags, bp_addresses, life, word, tmp, messages, history>>

Cpu(t) ==
    \/ FetchWord(t, "x_word", "x_load") \/ FetchWord(t, "d_word", "d_load")
    \/ FetchLoad(t, "x_load", "x_store") \/ FetchLoad(t, "d_load", "d_store")
    \/ FetchStore(t, "x_store", "x_decode") \/ FetchStore(t, "d_store", "d_decode")
    \/ Execute(t)
    \/ DecodeShown(t)
    \/ StopRunning(t, "x_stop", "x_stopped") \/ EnterDebug(t, "x_stopped", AfterExecute(t))
    \/ StopRunning(t, "d_stop", "d_stopped") \/ EnterDebug(t, "d_stopped", "d_restore")
    \/ StopRunning(t, "stop", "stopped") \/ EnterDebug(t, "stopped", "d_arg")
    \/ ShowArgument(t, "d_arg", {pc})
    \/ ShowSave(t)
    \/ ShowStart(t)
    \/ ShowRestore(t)

-----------------------------------------------------------------------------
(* main                                                                    *)

\* while (!flag) usleep(10000);
Await(from, flag, to) ==
    /\ At("main", from)
    /\ flag
    /\ Goto("main", to)
    /\ UNCHANGED <<flags, pc, bp_addresses, life, locals, messages, history>>

initialize_msp_memspace ==
    /\ At("main", "init")
    /\ memory' = TRUE
    /\ Goto("main", "init_pc")
    /\ UNCHANGED <<flags, pc, bp_addresses, freed, ended, locals, messages, history>>

\* initialize_msp_registers: cpu->pc = 0xC000, and later cpu->running = false
InitializePc ==
    /\ At("main", "init_pc")
    /\ pc' = Reset /\ due' = Reset
    /\ Goto("main", "init_running")
    /\ UNCHANGED <<flags, bp_addresses, life, locals, messages, extra>>

InitializeRunning ==
    /\ At("main", "init_running")
    /\ running' = FALSE
    /\ Goto("main", "load")
    /\ UNCHANGED <<debug_mode, quit, web_server_ready, web_firmware_uploaded, pc,
                   bp_addresses, life, locals, messages, history>>

\* The peripherals, the boot loader and the firmware; then the first display.
\* A file that is missing or too big ends the process.
load_firmware ==
    /\ At("main", "load")
    /\ \/ ended' = TRUE /\ Goto("main", "load")
       \/ Goto("main", "d_arg") /\ UNCHANGED ended
    /\ UNCHANGED <<flags, pc, bp_addresses, memory, freed, locals, messages, history>>

\* Mutant: while (true)
MutantLoopsForEver ==
    /\ At("main", "loop")
    /\ Goto("main", "check")
    /\ UNCHANGED <<flags, pc, bp_addresses, life, locals, messages, history>>

\* while (!deb->quit)
Loop ==
    /\ At("main", "loop")
    /\ Goto("main", IF quit THEN "free" ELSE "check")
    /\ UNCHANGED <<flags, pc, bp_addresses, life, locals, messages, history>>

\* Mutant: the test for running is missing.
MutantRunsStopped ==
    /\ At("main", "check")
    /\ Goto("main", "breakpoints")
    /\ UNCHANGED <<flags, pc, bp_addresses, life, locals, messages, history>>

\* if (!cpu->running) { usleep(10000); continue; }
CheckRunning ==
    /\ At("main", "check")
    /\ Goto("main", IF running THEN "breakpoints" ELSE "loop")
    /\ UNCHANGED <<flags, pc, bp_addresses, life, locals, messages, history>>

\* Mutant: a hit is passed over.
MutantPassesBreakpoint ==
    /\ At("main", "breakpoints")
    /\ Goto("main", "x_word")
    /\ UNCHANGED <<flags, pc, bp_addresses, life, locals, messages, history>>

\* A hit stops the machine and shows the instruction; either way the
\* instruction is executed next.
handle_breakpoints ==
    /\ At("main", "breakpoints")
    /\ IF pc \in bp_addresses
       THEN /\ back' = [back EXCEPT !["main"] = "x_word"]
            /\ Goto("main", "stop")
       ELSE Goto("main", "x_word") /\ UNCHANGED back
    /\ UNCHANGED <<flags, pc, bp_addresses, life, saved_pc, word, tmp, messages,
                   history>>

Free ==
    /\ At("main", "free")
    /\ freed' = TRUE
    /\ Goto("main", "return")
    /\ UNCHANGED <<flags, pc, bp_addresses, memory, ended, locals, messages, history>>

Return ==
    /\ At("main", "return")
    /\ ended' = TRUE
    /\ Goto("main", "return")
    /\ UNCHANGED <<flags, pc, bp_addresses, memory, freed, locals, messages, history>>

Main ==
    \/ Await("ready", web_server_ready, "uploaded")
    \/ Await("uploaded", web_firmware_uploaded, "init")
    \/ initialize_msp_memspace
    \/ InitializePc
    \/ InitializeRunning
    \/ load_firmware
    \/ Loop
    \/ CheckRunning
    \/ handle_breakpoints
    \/ Free
    \/ Return
    \/ Cpu("main")

-----------------------------------------------------------------------------
(* The callback of the web server thread                                   *)

ESTABLISHED ==
    /\ At("web", "idle")
    /\ ~web_server_ready
    /\ web_server_ready' = TRUE
    /\ Goto("web", "idle")
    /\ UNCHANGED <<running, debug_mode, quit, web_firmware_uploaded, pc,
                   bp_addresses, life, locals, messages, history>>

\* exit(0)
CLOSED ==
    /\ At("web", "idle")
    /\ web_server_ready
    /\ messages < MaxMessages
    /\ ended' = TRUE
    /\ Goto("web", "idle")
    /\ UNCHANGED <<flags, pc, bp_addresses, memory, freed, locals, messages, history>>

\* The last byte of an upload has arrived.
Uploaded ==
    /\ At("web", "idle")
    /\ web_server_ready /\ ~web_firmware_uploaded
    /\ web_firmware_uploaded' = TRUE
    /\ Goto("web", "idle")
    /\ UNCHANGED <<running, debug_mode, quit, web_server_ready, pc, bp_addresses,
                   life, locals, messages, history>>

Receive(to) ==
    /\ At("web", "idle")
    /\ web_server_ready
    /\ messages < MaxMessages
    /\ messages' = messages + 1
    /\ Goto("web", to)
    /\ UNCHANGED <<flags, pc, bp_addresses, life, locals, history>>

\* PLAY, and the run command: running = true; debug_mode = false;
StartRunning ==
    /\ At("web", "start")
    /\ running' = TRUE
    /\ extra' = 0
    /\ Goto("web", "started")
    /\ UNCHANGED <<debug_mode, quit, web_server_ready, web_firmware_uploaded, pc,
                   bp_addresses, life, locals, messages, due>>

LeaveDebug ==
    /\ At("web", "started")
    /\ debug_mode' = FALSE
    /\ Goto("web", "idle")
    /\ UNCHANGED <<running, quit, web_server_ready, web_firmware_uploaded, pc,
                   bp_addresses, life, locals, messages, history>>

\* PAUSE: if (cpu->running)
Pause ==
    /\ At("web", "pause")
    /\ Goto("web", IF running THEN "stop" ELSE "idle")
    /\ UNCHANGED <<flags, pc, bp_addresses, life, locals, messages, history>>

\* Console input: if (!cpu->running && deb->debug_mode)
ConsoleRunning ==
    /\ At("web", "console")
    /\ Goto("web", IF running THEN "idle" ELSE "console_debug")
    /\ UNCHANGED <<flags, pc, bp_addresses, life, locals, messages, history>>

\* The first statement of each command of exec_cmd that uses this state:
\* step, quit, run, dis, regs, reset, set PC and break.
Commands == {"x_word", "quit", "start", "dis", "d_arg", "reset", "set", "break"}

ConsoleDebug ==
    /\ At("web", "console_debug")
    /\ \E command \in Commands : Goto("web", IF debug_mode THEN command ELSE "idle")
    /\ UNCHANGED <<flags, pc, bp_addresses, life, locals, messages, history>>

quit_cmd ==
    /\ At("web", "quit")
    /\ quit' = TRUE
    /\ Goto("web", "idle")
    /\ UNCHANGED <<running, debug_mode, web_server_ready, web_firmware_uploaded,
                   pc, bp_addresses, life, locals, messages, history>>

\* reset, and set PC VALUE, both followed by a display
SetPc(from, values) ==
    /\ At("web", from)
    /\ \E a \in values : pc' = a /\ due' = a
    /\ Goto("web", "d_arg")
    /\ UNCHANGED <<flags, bp_addresses, life, locals, messages, extra>>

\* No address in the command, or num_bps entries used up: nothing is added.
break_cmd ==
    /\ At("web", "break")
    /\ \/ /\ Cardinality(bp_addresses) < MAX_BREAKPOINTS
          /\ \E a \in Addresses : bp_addresses' = bp_addresses \cup {a}
       \/ UNCHANGED bp_addresses
    /\ Goto("web", "idle")
    /\ UNCHANGED <<flags, pc, life, locals, messages, history>>

\* A handler at work, and a message that arrives.
Handler ==
    \/ StartRunning
    \/ LeaveDebug
    \/ Pause
    \/ ConsoleRunning
    \/ ConsoleDebug
    \/ ShowArgument("web", "dis", Addresses)
    \/ quit_cmd
    \/ SetPc("reset", {Reset})
    \/ SetPc("set", Addresses)
    \/ break_cmd
    \/ Cpu("web")

Message ==
    \/ ESTABLISHED
    \/ CLOSED
    \/ Uploaded
    \/ \E to \in {"start", "pause", "console"} : Receive(to)

-----------------------------------------------------------------------------
(* A use of MEMSPACE before main allocates it, or of the emulator after    *)
(* main frees it, ends the process or goes on.                             *)
Crash ==
    /\ ~ended
    /\ \/ freed
       \/ at["web"] \in {"x_word", "d_word"} /\ ~memory
    /\ ended' = TRUE
    /\ Goto("web", at["web"])
    /\ UNCHANGED <<flags, pc, bp_addresses, memory, freed, locals, messages, history>>

Ended == ended /\ UNCHANGED vars

Next == Main \/ Handler \/ Message \/ Crash \/ Ended

\* The operating system preempts the threads; messages need not arrive.
SpecSafety == Init /\ [][Next]_vars
Spec == SpecSafety /\ WF_vars(Main) /\ WF_vars(Handler) /\ WF_vars(Crash)

-----------------------------------------------------------------------------
Starting == {"ready", "uploaded", "init", "init_pc", "init_running", "load"}
Looping == {"loop", "check", "breakpoints", "free", "return"}
Stopping == {"stop", "stopped", "x_stop", "x_stopped"}
Handling == {"idle", "start", "started", "pause", "console", "console_debug",
             "quit", "dis", "reset", "set", "break"}
Labels == Starting \cup Looping \cup Stopping \cup Handling \cup Fetching \cup Showing

TypeOK ==
    /\ running \in BOOLEAN /\ debug_mode \in BOOLEAN /\ quit \in BOOLEAN
    /\ web_server_ready \in BOOLEAN /\ web_firmware_uploaded \in BOOLEAN
    /\ pc \in Addresses /\ due \in Addresses
    /\ bp_addresses \subseteq Addresses
    /\ memory \in BOOLEAN /\ freed \in BOOLEAN /\ ended \in BOOLEAN
    /\ at \in [Threads -> Labels]
    /\ back \in [Threads -> {"loop", "idle", "x_word"}]
    /\ saved_pc \in [Threads -> Addresses]
    /\ word \in [Threads -> Addresses] /\ tmp \in [Threads -> Addresses]
    /\ messages \in Nat /\ extra \in Nat /\ raced \in BOOLEAN

(* However the stop comes (PAUSE, a breakpoint, an instruction that is     *)
(* none, in either thread), the main loop begins at most one more          *)
(* instruction until the machine is set running again: the flag is tested  *)
(* once per turn (main.cpp:92), before the breakpoints.                    *)
StopsWithinOne == extra <= 1

(* As long as the web thread leaves pc alone while the main thread is      *)
(* using it, no instruction of the guest is skipped or executed twice,     *)
(* whatever is stepped, shown, reset and set in between: disassemble's     *)
(* detour through pc is invisible.                                         *)
InOrderUnlessRaced ==
    \A t \in Threads : at[t] = "x_word" => raced \/ pc = due

\* The inductive form of StopsWithinOne: after that instruction the main loop
\* comes to the test of the flag.
ExtraInv ==
    /\ extra \in {0, 1}
    /\ extra = 1 =>
          /\ ~running
          /\ at["main"] \in {"x_load", "x_store", "x_decode", "x_stop", "x_stopped",
                            "loop", "check", "free", "return"}

\* The inductive form of InOrderUnlessRaced.  Between Detour labels pc is not
\* where the program is: disassemble has moved it, or fetch has.
Detour == {"x_decode", "d_word", "d_load", "d_store", "d_decode", "d_stop",
           "d_stopped", "d_restore"}
Saved == (Detour \ {"x_decode"}) \cup {"d_start"}

InOrder ==
    /\ (\A t \in Threads : at[t] \notin Detour) => pc = due
    /\ \A t \in Threads :
          /\ at[t] \in Saved => saved_pc[t] = due
          /\ at[t] \in {"x_load", "x_store", "x_decode"} => word[t] = due
          /\ at[t] = "x_store" => tmp[t] = due
          /\ at[t] = "x_decode" => pc = Following(due)

OrderInv == raced \/ (~(UsesPc("main") /\ UsesPc("web")) /\ InOrder)

(* disassemble puts pc back ("Restore PC", disassembler.c:47): showing the *)
(* instruction at which the machine was paused does not change the         *)
(* instruction the main loop executes next.                                *)
PauseKeepsPlace ==
    [][at["main"] = "x_word" /\ at'["main"] = "x_load" => pc = due]_vars

\* Every path of the program comes to a breakpoint or to no instruction
\* within k instructions.
Stops[k \in 0..(Last + 1)] ==
    [a \in Addresses |->
        \/ a \in bp_addresses \cup Invalid
        \/ k > 0 /\ Stops[k - 1][IF a \in DOMAIN Jump THEN Jump[a] ELSE Following(a)]]

\* The browser is silent from now on.
Silent == messages = MaxMessages /\ at["web"] = "idle"

(* "run the program until a breakpoint is hit" (debugger.c:86): left       *)
(* running on a program that must come to a breakpoint, the machine stops. *)
BreakpointReached ==
    (Silent /\ running /\ \A a \in Addresses : Stops[Last + 1][a])
        ~> (~running \/ ended \/ ~web_firmware_uploaded)

(* Once firmware has been uploaded, quit ends the process, whatever the    *)
(* threads are doing.                                                      *)
QuitEnds == (quit /\ web_server_ready /\ web_firmware_uploaded) ~> ended
=============================================================================
