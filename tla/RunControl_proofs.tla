------------------------- MODULE RunControl_proofs -------------------------
(***************************************************************************)
(* For any program, any number of breakpoints and any messages: a stopped  *)
(* machine begins at most one more instruction, and the guest's program    *)
(* order survives every command that does not race with the main loop.     *)
(***************************************************************************)
EXTENDS RunControl, TLAPS

-----------------------------------------------------------------------------
(* Types                                                                   *)

LEMMA InitTypeOK == Init => TypeOK
<1> SUFFICES ASSUME Init PROVE TypeOK
  OBVIOUS
<1>1. 0 \in Addresses
  BY RCAssumption DEF Addresses
<1>2. at \in [Threads -> Labels] /\ back \in [Threads -> {"loop", "idle", "x_word"}]
  BY DEF Init, Back, Threads, Labels, Starting, Looping, Handling
<1>3. /\ saved_pc \in [Threads -> Addresses]
      /\ word \in [Threads -> Addresses]
      /\ tmp \in [Threads -> Addresses]
  BY <1>1 DEF Init
<1> QED
  BY <1>1, <1>2, <1>3 DEF Init, TypeOK

LEMMA GotoType ==
  ASSUME TypeOK, NEW t \in Threads, NEW label \in Labels, Goto(t, label)
  PROVE  at' \in [Threads -> Labels] /\ raced' \in BOOLEAN
BY DEF TypeOK, Goto, UsesPc

LEMMA CpuTypeOK ==
  ASSUME TypeOK, NEW t \in Threads, Cpu(t)
  PROVE  TypeOK'
<1> USE RCAssumption DEF TypeOK, At, Goto, Labels, Starting, Looping, Stopping, Handling,
                         Fetching, Showing, flags, life, locals, history, UsesPc, Threads
<1>1. ASSUME NEW from, NEW to \in Labels, FetchWord(t, from, to) PROVE TypeOK'
  BY <1>1 DEF FetchWord
<1>2. ASSUME NEW from, NEW to \in Labels, FetchLoad(t, from, to) PROVE TypeOK'
  BY <1>2 DEF FetchLoad
<1>3. ASSUME NEW from, NEW to \in Labels, FetchStore(t, from, to) PROVE TypeOK'
  BY <1>3 DEF FetchStore, Following, Addresses
<1>4. ASSUME NEW from, NEW to \in Labels, StopRunning(t, from, to) PROVE TypeOK'
  BY <1>4 DEF StopRunning
<1>5. ASSUME NEW from, NEW to \in Labels, EnterDebug(t, from, to) PROVE TypeOK'
  BY <1>5 DEF EnterDebug
<1>6. CASE Execute(t)
  BY <1>6 DEF Execute, AfterExecute, Following, Addresses
<1>7. CASE DecodeShown(t)
  BY <1>7 DEF DecodeShown, Addresses
<1>8. CASE ShowArgument(t, "d_arg", {pc})
  BY <1>8 DEF ShowArgument
<1>9. CASE ShowSave(t)
  BY <1>9 DEF ShowSave
<1>10. CASE ShowStart(t)
  BY <1>10 DEF ShowStart, Addresses
<1>11. CASE ShowRestore(t)
  BY <1>11 DEF ShowRestore, Back, Addresses
<1> QED
  BY <1>1, <1>2, <1>3, <1>4, <1>5, <1>6, <1>7, <1>8, <1>9, <1>10, <1>11
  DEF Cpu, AfterExecute

LEMMA MainTypeOK ==
  ASSUME TypeOK, Main
  PROVE  TypeOK'
<1> USE RCAssumption DEF TypeOK, At, Goto, Labels, Starting, Looping, Stopping, Handling,
                         Fetching, Showing, flags, life, locals, history, UsesPc, Threads
<1>1. ASSUME NEW from, NEW flag, NEW to \in Labels, Await(from, flag, to) PROVE TypeOK'
  BY <1>1 DEF Await
<1>2. CASE initialize_msp_memspace
  BY <1>2 DEF initialize_msp_memspace
<1>3. CASE InitializePc
  BY <1>3 DEF InitializePc, Reset, Addresses
<1>4. CASE InitializeRunning
  BY <1>4 DEF InitializeRunning
<1>5. CASE load_firmware
  <2>1. Goto("main", "load") \/ Goto("main", "d_arg")
    BY <1>5 DEF load_firmware
  <2>2. at' \in [Threads -> Labels] /\ raced' \in BOOLEAN
    <3>1. "load" \in Labels /\ "d_arg" \in Labels /\ "main" \in Threads
      OBVIOUS
    <3> QED
      BY ONLY TypeOK, <2>1, <3>1, GotoType
  <2>3. /\ UNCHANGED <<flags, pc, bp_addresses, memory, freed, locals, messages, history>>
        /\ ended' \in BOOLEAN
    BY <1>5 DEF load_firmware
  <2> QED
    BY <2>2, <2>3
<1>6. CASE Loop
  BY <1>6 DEF Loop
<1>7. CASE CheckRunning
  BY <1>7 DEF CheckRunning
<1>8. CASE handle_breakpoints
  <2>1. Goto("main", "stop") \/ Goto("main", "x_word")
    BY <1>8, SMTT(60) DEF handle_breakpoints
  <2>2. at' \in [Threads -> Labels] /\ raced' \in BOOLEAN
    <3>1. "stop" \in Labels /\ "x_word" \in Labels /\ "main" \in Threads
      OBVIOUS
    <3> QED
      BY ONLY TypeOK, <2>1, <3>1, GotoType
  <2>3. back' \in [Threads -> {"loop", "idle", "x_word"}]
    BY <1>8 DEF handle_breakpoints
  <2>4. UNCHANGED <<flags, pc, bp_addresses, life, saved_pc, word, tmp, messages, history>>
    BY <1>8 DEF handle_breakpoints
  <2> QED
    BY <2>2, <2>3, <2>4
<1>9. CASE Free
  BY <1>9 DEF Free
<1>10. CASE Return
  BY <1>10 DEF Return
<1>11. CASE Cpu("main")
  BY <1>11, CpuTypeOK
<1> QED
  BY <1>1, <1>2, <1>3, <1>4, <1>5, <1>6, <1>7, <1>8, <1>9, <1>10, <1>11 DEF Main

LEMMA HandlerTypeOK ==
  ASSUME TypeOK, Handler
  PROVE  TypeOK'
<1> USE RCAssumption DEF TypeOK, At, Goto, Labels, Starting, Looping, Stopping, Handling,
                         Fetching, Showing, flags, life, locals, history, UsesPc, Threads
<1>1. CASE StartRunning
  BY <1>1 DEF StartRunning
<1>2. CASE LeaveDebug
  BY <1>2 DEF LeaveDebug
<1>3. CASE Pause
  BY <1>3 DEF Pause
<1>4. CASE ConsoleRunning
  BY <1>4 DEF ConsoleRunning
<1>5. CASE ConsoleDebug
  BY <1>5 DEF ConsoleDebug, Commands
<1>6. CASE ShowArgument("web", "dis", Addresses)
  BY <1>6 DEF ShowArgument
<1>7. CASE quit_cmd
  BY <1>7 DEF quit_cmd
<1>8. ASSUME NEW from, NEW values \in SUBSET Addresses, SetPc(from, values) PROVE TypeOK'
  BY <1>8 DEF SetPc
<1>9. CASE break_cmd
  BY <1>9 DEF break_cmd
<1>10. CASE Cpu("web")
  BY <1>10, CpuTypeOK
<1>11. {Reset} \subseteq Addresses
  BY DEF Reset, Addresses
<1> QED
  BY <1>1, <1>2, <1>3, <1>4, <1>5, <1>6, <1>7, <1>8, <1>9, <1>10, <1>11 DEF Handler

LEMMA StepTypeOK == TypeOK /\ [Next]_vars => TypeOK'
<1> SUFFICES ASSUME TypeOK, [Next]_vars PROVE TypeOK'
  OBVIOUS
<1>1. CASE Main
  BY <1>1, MainTypeOK
<1>2. CASE Handler
  BY <1>2, HandlerTypeOK
<1>3. CASE Message
  <2> USE DEF TypeOK, Goto, Labels, Handling, flags, life, locals, history, UsesPc, Threads
  <2>1. CASE ESTABLISHED
    BY <2>1 DEF ESTABLISHED
  <2>2. CASE CLOSED
    BY <2>2 DEF CLOSED
  <2>3. CASE Uploaded
    BY <2>3 DEF Uploaded
  <2>4. CASE \E to \in {"start", "pause", "console"} : Receive(to)
    <3> PICK to \in {"start", "pause", "console"} : Receive(to)
      BY <2>4
    <3> QED
      BY DEF Receive
  <2> QED
    BY <1>3, <2>1, <2>2, <2>3, <2>4 DEF Message
<1>4. CASE Crash
  BY <1>4 DEF Crash, TypeOK, Goto, flags, life, locals, history, UsesPc, Threads
<1>5. CASE UNCHANGED vars
  BY <1>5 DEF TypeOK, vars, flags, life, locals, history
<1> QED
  BY <1>1, <1>2, <1>3, <1>4, <1>5 DEF Next, Ended

(* Every variable keeps its type: in particular pc stays an address of the *)
(* guest whatever the two threads interleave.                              *)
THEOREM TypeCorrect == SpecSafety => []TypeOK
BY InitTypeOK, StepTypeOK, PTL DEF SpecSafety

-----------------------------------------------------------------------------
(* A stopped machine                                                       *)

LEMMA CpuExtraInv ==
  ASSUME TypeOK, ExtraInv, NEW t \in Threads, Cpu(t)
  PROVE  ExtraInv'
<1> USE DEF ExtraInv, At, Goto, flags, life, locals, history, AfterExecute
<1>1. at \in [Threads -> Labels] /\ running \in BOOLEAN /\ t \in {"main", "web"}
  BY DEF TypeOK, Threads
<1>2. Threads = {"main", "web"}
  BY DEF Threads
<1>3. CASE FetchWord(t, "x_word", "x_load") \/ FetchWord(t, "d_word", "d_load")
  <2>1. CASE t = "main"
    BY <1>1, <1>2, <1>3, <2>1 DEF FetchWord
  <2>2. CASE t = "web"
    BY <1>1, <1>2, <1>3, <2>2 DEF FetchWord
  <2> QED
    BY <1>1, <2>1, <2>2
<1>4. CASE FetchLoad(t, "x_load", "x_store") \/ FetchLoad(t, "d_load", "d_store")
  BY <1>1, <1>2, <1>4 DEF FetchLoad
<1>5. CASE FetchStore(t, "x_store", "x_decode") \/ FetchStore(t, "d_store", "d_decode")
  BY <1>1, <1>2, <1>5 DEF FetchStore
<1>6. CASE Execute(t)
  BY <1>1, <1>2, <1>6 DEF Execute
<1>7. CASE DecodeShown(t)
  BY <1>1, <1>2, <1>7 DEF DecodeShown
<1>8. ASSUME NEW from, NEW to, StopRunning(t, from, to),
             from \in {"x_stop", "d_stop", "stop"}, from = "x_stop" => to = "x_stopped"
      PROVE  ExtraInv'
  BY <1>1, <1>2, <1>8 DEF StopRunning
<1>9. ASSUME NEW from, NEW to, EnterDebug(t, from, to),
             from \in {"x_stopped", "d_stopped", "stopped"},
             from = "x_stopped" => to = AfterExecute(t)
      PROVE  ExtraInv'
  BY <1>1, <1>2, <1>9 DEF EnterDebug
<1>10. CASE ShowArgument(t, "d_arg", {pc}) \/ ShowSave(t) \/ ShowStart(t) \/ ShowRestore(t)
  BY <1>1, <1>2, <1>10 DEF ShowArgument, ShowSave, ShowStart, ShowRestore
<1> QED
  BY <1>3, <1>4, <1>5, <1>6, <1>7, <1>8, <1>9, <1>10 DEF Cpu

LEMMA StepExtraInv == TypeOK /\ ExtraInv /\ [Next]_vars => ExtraInv'
<1> SUFFICES ASSUME TypeOK, ExtraInv, [Next]_vars PROVE ExtraInv'
  OBVIOUS
<1> USE DEF ExtraInv, At, Goto, flags, life, locals, history
<1>1. at \in [Threads -> Labels] /\ running \in BOOLEAN
  BY DEF TypeOK
<1>2. Threads = {"main", "web"}
  BY DEF Threads
<1>3. ASSUME NEW t \in Threads, Cpu(t) PROVE ExtraInv'
  BY <1>3, CpuExtraInv
<1>4. CASE Main
  <2>1. CASE Await("ready", web_server_ready, "uploaded")
             \/ Await("uploaded", web_firmware_uploaded, "init")
    BY <1>1, <1>2, <2>1 DEF Await
  <2>2. CASE initialize_msp_memspace \/ InitializePc \/ InitializeRunning
    BY <1>1, <1>2, <2>2 DEF initialize_msp_memspace, InitializePc, InitializeRunning
  <2>3. CASE load_firmware
    <3>1. UNCHANGED <<extra, running>> /\ at["main"] = "load"
      BY <2>3 DEF load_firmware
    <3>2. extra = 0
      BY <3>1
    <3> QED
      BY <3>1, <3>2
  <2>4. CASE Loop \/ CheckRunning
    BY <1>1, <1>2, <2>4 DEF Loop, CheckRunning
  <2>5. CASE handle_breakpoints
    <3>1. UNCHANGED <<extra, running>> /\ at["main"] = "breakpoints"
      BY <2>5 DEF handle_breakpoints
    <3>2. extra = 0
      BY <3>1
    <3> QED
      BY <3>1, <3>2
  <2>6. CASE Free \/ Return
    BY <1>1, <1>2, <2>6 DEF Free, Return
  <2> QED
    BY <1>2, <1>3, <1>4, <2>1, <2>2, <2>3, <2>4, <2>5, <2>6 DEF Main
<1>5. CASE Handler
  <2>1. CASE StartRunning
    BY <2>1 DEF StartRunning
  <2>2. CASE LeaveDebug \/ Pause \/ ConsoleRunning \/ ConsoleDebug
    BY <1>1, <1>2, <2>2 DEF LeaveDebug, Pause, ConsoleRunning, ConsoleDebug
  <2>3. CASE ShowArgument("web", "dis", Addresses) \/ quit_cmd
    BY <1>1, <1>2, <2>3 DEF ShowArgument, quit_cmd
  <2>4. CASE SetPc("reset", {Reset}) \/ SetPc("set", Addresses) \/ break_cmd
    BY <1>1, <1>2, <2>4 DEF SetPc, break_cmd
  <2> QED
    BY <1>2, <1>3, <1>5, <2>1, <2>2, <2>3, <2>4 DEF Handler
<1>6. CASE Message
  BY <1>1, <1>2, <1>6 DEF Message, ESTABLISHED, CLOSED, Uploaded, Receive
<1>7. CASE Crash
  BY <1>1, <1>2, <1>7 DEF Crash
<1>8. CASE UNCHANGED vars
  BY <1>8 DEF vars
<1> QED
  BY <1>4, <1>5, <1>6, <1>7, <1>8 DEF Next, Ended

(* PAUSE, a breakpoint or an instruction that is none: whatever stops the  *)
(* machine, main.cpp's loop begins at most one instruction more, for every *)
(* program and however many breakpoints and messages there are.            *)
THEOREM StopsAfterOne == SpecSafety => []StopsWithinOne
<1>1. Init => ExtraInv
  BY DEF Init, ExtraInv
<1>2. ExtraInv => StopsWithinOne
  BY DEF ExtraInv, StopsWithinOne
<1> QED
  BY <1>1, <1>2, TypeCorrect, StepExtraInv, PTL DEF SpecSafety

-----------------------------------------------------------------------------
(* The order of the guest's program                                        *)

\* A step keeps OrderInv if it keeps InOrder unless the threads race.
LEMMA GotoOrder ==
  ASSUME NEW t, NEW label, Goto(t, label), ~raced' => InOrder'
  PROVE  OrderInv'
BY DEF Goto, OrderInv

LEMMA CpuOrderInv ==
  ASSUME TypeOK, OrderInv, NEW t \in Threads, Cpu(t)
  PROVE  OrderInv'
<1>1. /\ at \in [Threads -> Labels] /\ back \in [Threads -> {"loop", "idle", "x_word"}]
      /\ saved_pc \in [Threads -> Addresses]
      /\ word \in [Threads -> Addresses] /\ tmp \in [Threads -> Addresses]
  BY DEF TypeOK
<1>2. Threads = {"main", "web"}
  BY DEF Threads
<1>3. PICK label : Goto(t, label)
  BY DEF Cpu, FetchWord, FetchLoad, FetchStore, Execute, DecodeShown, StopRunning,
         EnterDebug, ShowArgument, ShowSave, ShowStart, ShowRestore
<1> SUFFICES ASSUME ~raced' PROVE InOrder'
  BY <1>3, GotoOrder
<1>4. ~raced
  BY <1>3 DEF Goto
<1>5. InOrder /\ ~(UsesPc("main") /\ UsesPc("web"))
  BY <1>4 DEF OrderInv
<1> DEFINE u == IF t = "main" THEN "web" ELSE "main"
<1>6. ASSUME UsesPc(t)
      PROVE  u \in Threads /\ u # t /\ ~UsesPc(u) /\ Threads = {t, u}
  BY <1>2, <1>5, <1>6
<1> HIDE DEF u
<1> USE DEF At, Goto, flags, life, locals, history, AfterExecute, InOrder, Detour, Saved, UsesPc, Fetching, Showing
<1>7. CASE FetchWord(t, "x_word", "x_load") \/ FetchWord(t, "d_word", "d_load")
  BY <1>1, <1>5, <1>6, <1>7 DEF FetchWord
<1>8. CASE FetchLoad(t, "x_load", "x_store") \/ FetchLoad(t, "d_load", "d_store")
  BY <1>1, <1>5, <1>6, <1>8 DEF FetchLoad
<1>9. CASE FetchStore(t, "x_store", "x_decode") \/ FetchStore(t, "d_store", "d_decode")
  BY <1>1, <1>5, <1>6, <1>9 DEF FetchStore
<1>10. CASE Execute(t)
  BY <1>1, <1>5, <1>6, <1>10 DEF Execute
<1>11. CASE DecodeShown(t)
  BY <1>1, <1>5, <1>6, <1>11 DEF DecodeShown
<1>12. CASE StopRunning(t, "x_stop", "x_stopped") \/ StopRunning(t, "stop", "stopped")
            \/ StopRunning(t, "d_stop", "d_stopped")
  BY <1>1, <1>2, <1>5, <1>12 DEF StopRunning
<1>13. CASE EnterDebug(t, "x_stopped", AfterExecute(t)) \/ EnterDebug(t, "stopped", "d_arg")
            \/ EnterDebug(t, "d_stopped", "d_restore")
  BY <1>1, <1>2, <1>5, <1>13 DEF EnterDebug
<1>14. CASE ShowArgument(t, "d_arg", {pc})
  BY <1>1, <1>5, <1>6, <1>14 DEF ShowArgument
<1>15. CASE ShowSave(t)
  BY <1>1, <1>5, <1>6, <1>15 DEF ShowSave
<1>16. CASE ShowStart(t)
  BY <1>1, <1>5, <1>6, <1>16 DEF ShowStart
<1>17. CASE ShowRestore(t)
  BY <1>1, <1>5, <1>6, <1>17 DEF ShowRestore
<1> QED
  BY <1>7, <1>8, <1>9, <1>10, <1>11, <1>12, <1>13, <1>14, <1>15, <1>16, <1>17 DEF Cpu

\* Statements of a thread other than fetch, decode and disassemble that leave
\* pc and the program alone, and do not lead into the detour.
LEMMA QuietStep ==
  ASSUME TypeOK, OrderInv, NEW t \in Threads, NEW label, Goto(t, label),
         at[t] \notin Detour \cup Saved, label \notin Detour \cup Saved,
         label \notin {"x_load", "x_store"},
         UNCHANGED <<pc, due, saved_pc, word>>,
         tmp' = tmp \/ \E a : tmp' = [tmp EXCEPT ![t] = a]
  PROVE  OrderInv'
<1> SUFFICES ASSUME ~raced' PROVE InOrder'
  BY GotoOrder
<1>1. InOrder
  BY DEF Goto, OrderInv
<1>2. Threads = {"main", "web"} /\ at \in [Threads -> Labels] /\ tmp \in [Threads -> Addresses]
  BY DEF TypeOK, Threads
<1> QED
  BY <1>1, <1>2 DEF Goto, InOrder, Detour, Saved

\* reset, set PC and initialize_msp_registers move pc and the program together.
LEMMA MoveStep ==
  ASSUME TypeOK, OrderInv, NEW t \in Threads, NEW label, Goto(t, label),
         at[t] \in {"init_pc", "reset", "set"}, label \in {"init_running", "d_arg"},
         pc' = due', UNCHANGED <<saved_pc, word, tmp>>
  PROVE  OrderInv'
<1> SUFFICES ASSUME ~raced' PROVE InOrder'
  BY GotoOrder
<1>1. InOrder /\ ~(UsesPc("main") /\ UsesPc("web"))
  BY DEF Goto, OrderInv
<1>2. Threads = {"main", "web"} /\ at \in [Threads -> Labels]
  BY DEF TypeOK, Threads
<1> QED
  BY <1>1, <1>2 DEF Goto, InOrder, Detour, Saved, UsesPc, Fetching, Showing

LEMMA StepOrderInv == TypeOK /\ OrderInv /\ [Next]_vars => OrderInv'
<1> SUFFICES ASSUME TypeOK, OrderInv, [Next]_vars PROVE OrderInv'
  OBVIOUS
<1> USE DEF At, flags, life, locals, history
<1>1. "main" \in Threads /\ "web" \in Threads
  BY DEF Threads
<1>2. ASSUME NEW t \in Threads, Cpu(t) PROVE OrderInv'
  BY <1>2, CpuOrderInv
<1>3. CASE Main
  <2>1. CASE InitializePc
    BY <1>1, <2>1, MoveStep DEF InitializePc
  <2>2. CASE Main /\ ~InitializePc /\ ~Cpu("main")
    <3>1. PICK label : /\ Goto("main", label)
                       /\ label \in Labels \ (Detour \cup Saved \cup {"x_load", "x_store"})
      BY <2>2 DEF Main, Await, initialize_msp_memspace, InitializeRunning, load_firmware, Loop,
         CheckRunning, handle_breakpoints, Free, Return, Detour, Saved, Labels, Starting,
         Looping, Stopping, Fetching, Showing
    <3>2. /\ at["main"] \notin Detour \cup Saved
          /\ UNCHANGED <<pc, due, saved_pc, word, tmp>>
      BY <2>2 DEF Main, Await, initialize_msp_memspace, InitializeRunning, load_firmware, Loop,
         CheckRunning, handle_breakpoints, Free, Return, Detour, Saved
    <3> QED
      BY <1>1, <3>1, <3>2, QuietStep
  <2> QED
    BY <1>1, <1>2, <1>3, <2>1, <2>2
<1>4. CASE Handler
  <2>1. CASE SetPc("reset", {Reset}) \/ SetPc("set", Addresses)
    BY <1>1, <2>1, MoveStep DEF SetPc
  <2>2. CASE ShowArgument("web", "dis", Addresses)
    BY <1>1, <2>2, QuietStep DEF ShowArgument, Detour, Saved
  <2>3. CASE \/ StartRunning \/ LeaveDebug \/ Pause \/ ConsoleRunning \/ ConsoleDebug
             \/ quit_cmd \/ break_cmd
    <3>1. PICK label : /\ Goto("web", label)
                       /\ label \in Labels \ (Detour \cup Saved \cup {"x_load", "x_store"})
      BY <2>3 DEF StartRunning, LeaveDebug, Pause, ConsoleRunning, ConsoleDebug, Commands,
         quit_cmd, break_cmd, Detour, Saved, Labels, Handling, Stopping, Fetching, Showing
    <3>2. /\ at["web"] \notin Detour \cup Saved
          /\ UNCHANGED <<pc, due, saved_pc, word, tmp>>
      BY <2>3 DEF StartRunning, LeaveDebug, Pause, ConsoleRunning, ConsoleDebug, quit_cmd,
         break_cmd, Detour, Saved
    <3> QED
      BY <1>1, <3>1, <3>2, QuietStep
  <2> QED
    BY <1>1, <1>2, <1>4, <2>1, <2>2, <2>3 DEF Handler
<1>5. CASE Message
  <2>1. PICK label \in {"idle", "start", "pause", "console"} : Goto("web", label)
    BY <1>5 DEF Message, ESTABLISHED, CLOSED, Uploaded, Receive
  <2>2. at["web"] = "idle" /\ UNCHANGED <<pc, due, saved_pc, word, tmp>>
    BY <1>5 DEF Message, ESTABLISHED, CLOSED, Uploaded, Receive
  <2> QED
    BY <1>1, <2>1, <2>2, QuietStep DEF Detour, Saved
<1>6. CASE Crash
  <2>1. at' = at /\ UNCHANGED <<pc, due, saved_pc, word, tmp>>
    BY <1>6 DEF Crash, Goto, TypeOK
  <2>2. Goto("web", at["web"])
    BY <1>6 DEF Crash
  <2> QED
    BY <2>1, <2>2, GotoOrder DEF Goto, OrderInv, InOrder
<1>7. CASE UNCHANGED vars
  BY <1>7 DEF vars, OrderInv, InOrder, UsesPc
<1> QED
  BY <1>3, <1>4, <1>5, <1>6, <1>7 DEF Next, Ended

(* Unless the two threads have used pc at once, the main loop and the step *)
(* command fetch the program's next instruction: disassemble's detour, an  *)
(* instruction that is none, reset, set PC and breakpoints lose nothing.   *)
THEOREM InOrderWithoutRace == SpecSafety => []InOrderUnlessRaced
<1>1. Init => OrderInv
  BY DEF Init, OrderInv, InOrder, UsesPc, Threads, Detour, Saved, Fetching, Showing
<1>2. TypeOK /\ OrderInv => InOrderUnlessRaced
  <2> SUFFICES ASSUME TypeOK, OrderInv, ~raced, NEW t \in Threads, at[t] = "x_word"
               PROVE  pc = due
    BY DEF InOrderUnlessRaced
  <2>1. \A s \in Threads : at[s] \notin Detour
    BY DEF OrderInv, Threads, UsesPc, Fetching, Showing, Detour
  <2> QED
    BY <2>1 DEF OrderInv, InOrder
<1> QED
  BY <1>1, <1>2, TypeCorrect, StepOrderInv, PTL DEF SpecSafety
=============================================================================
