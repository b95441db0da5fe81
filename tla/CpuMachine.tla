----------------------------- MODULE CpuMachine -----------------------------
(***************************************************************************)
(* One instruction after another: the machine started in any of a set of   *)
(* states (the debugger's set command reaches every register and every     *)
(* address), executing and being disassembled.                             *)
(***************************************************************************)
EXTENDS Cpu

CONSTANTS
    Starts,      \* initial states of the emulator
    Garbage,     \* what an uninitialised local may hold
    MaxSteps,    \* bound on the instructions executed
    MaxShows     \* bound on the instructions shown

\* The addresses of MEMSPACE, and of the byte after it that a word at 0xFFFF
\* reaches.
Addresses == 0..MaxWord + 1

StatusBits == {"overflow", "SCG1", "SCG0", "OSCOFF", "CPUOFF", "GIE",
               "negative", "zero", "carry"}

IsEmulator(e) ==
    /\ DOMAIN e = {"r", "sr", "mem", "running", "debug_mode", "bogus"}
    /\ e.r \in [0..15 -> Words]
    /\ e.sr \in [StatusBits -> 0..1]
    /\ \A addr \in DOMAIN e.mem : addr \in Addresses /\ e.mem[addr] \in 0..255
    /\ e.running \in BOOLEAN /\ e.debug_mode \in BOOLEAN
    /\ e.bogus \in Words

ASSUME CpuAssumption ==
    /\ \A e \in Starts : IsEmulator(e)
    /\ Garbage \subseteq Words
    /\ MaxSteps \in Nat /\ MaxShows \in Nat

VARIABLES
    emu,         \* the emulator
    start,       \* its initial state, for properties over several steps
    steps,       \* instructions executed
    shows        \* instructions shown

vars == <<emu, start, steps, shows>>

Init ==
    /\ emu \in Starts
    /\ start = emu
    /\ steps = 0
    /\ shows = 0

Execute ==
    /\ steps < MaxSteps
    /\ \E g \in Garbage : emu' = execute(emu, g)
    /\ steps' = steps + 1
    /\ UNCHANGED <<start, shows>>

\* The debugger shows the instruction at pc.
Disassemble ==
    /\ shows < MaxShows
    /\ shows' = shows + 1
    /\ \E g \in Garbage : emu' = disassemble(emu, emu.r[PC], g)
    /\ UNCHANGED <<start, steps>>

\* The bounds are reached; the machine is left as it is.
Stop == steps = MaxSteps /\ shows = MaxShows /\ UNCHANGED vars

Next == Execute \/ Disassemble \/ Stop

Spec == Init /\ [][Next]_vars

-----------------------------------------------------------------------------
(* The instruction at pc, and what it finds.                               *)

Current == Fetched(emu)
IsFormatI == Current \div 4096 \in 4..15
IsFormatII == Current \div 4096 = 1
IsFormatIII == Current \div 4096 \in {2, 3}
I == FieldsI(Current)
II == FieldsII(Current)

Decoded == OperandsI(get_reg_ptr(get_reg_ptr(AfterFetch(emu), I.source),
                                 I.destination), I, FALSE)
Src == Decoded.value
Dst == ReadWord(Decoded.e, Decoded.loc)

Executes == steps' # steps

TypeOK == IsEmulator(emu) /\ steps \in 0..MaxSteps /\ shows \in 0..MaxShows

-----------------------------------------------------------------------------
(* Arithmetic                                                              *)

\* Each arithmetic instruction adds, to the destination, the source or its
\* complement and a carry.
Addend(opcode) == IF opcode \in {5, 6} THEN Src ELSE 65535 - Src
CarryIn(opcode) == CASE opcode = 5 -> 0
                     [] opcode \in {6, 7} -> emu.sr.carry
                     [] opcode \in {8, 9} -> 1

\* The exact signed result of an arithmetic instruction.
Exact == SignedPart(Dst, I.bw) + SignedPart(Addend(I.opcode), I.bw) + CarryIn(I.opcode)

IsArithmetic == IsFormatI /\ I.opcode \in 5..9

\* SUB and CMP negate the source first; the lowest number has no negative.
Negatable ==
    I.opcode \in {8, 9} => Part(Src, I.bw) # Half(I.bw)

(* ADD, ADDC, SUB, SUBC and CMP, in both sizes, leave N, Z and V that say  *)
(* whether the exact signed result is negative, zero, and too large: after *)
(* them N xor V is the sign of the exact result, which JGE and JL test.    *)
(* (SUB and CMP of the lowest number excepted, which formatI.c marks TODO.)*)
SignFlagsExact ==
    [][Executes /\ IsArithmetic /\ Negatable =>
        LET v == Flag(Exact \notin (-Half(I.bw))..(Half(I.bw) - 1))
        IN  /\ emu'.sr.overflow = v
            /\ (emu'.sr.negative # emu'.sr.overflow) <=> (Exact < 0)
            /\ emu'.sr.zero = is_zero(Exact, I.bw)]_vars

(* SUB: "Set to 1 if no borrow, reset if borrow" (formatI.c:552); CMP: "Set *)
(* if there is a carry from the MSB of the result, reset otherwise"         *)
(* (formatI.c:587), what JC and JNC read as "higher or same" and "lower"    *)
(* (formatIII.c:78, 91).                                                    *)
BorrowExact ==
    [][Executes /\ IsFormatI /\ I.opcode \in {8, 9} =>
        emu'.sr.carry = CarryOut(Dst, Addend(I.opcode), 1, I.bw)]_vars

-----------------------------------------------------------------------------
(* Operands and memory                                                     *)

(* Format I writes at most what its size names: one byte of memory in byte *)
(* mode, the two bytes of one word in word mode, and never memory when the *)
(* destination is a register; a byte result in a register clears the upper *)
(* half.                                                                   *)
WritesOnlyDestination ==
    [][Executes /\ IsFormatI =>
        LET loc == Decoded.loc
            changed == {addr \in DOMAIN emu'.mem : Byte(emu', addr) # Byte(emu, addr)}
        IN  /\ changed \subseteq
                  CASE loc.kind = "reg" -> {}
                    [] loc.kind = "mem" /\ I.bw = "BYTE" -> {loc.at}
                    [] loc.kind = "mem" /\ I.bw = "WORD" -> {loc.at, loc.at + 1}
            /\ loc.kind = "reg" /\ I.bw = "BYTE" => emu'.r[loc.at] < 256]_vars

\* Where an operand in memory of addressing mode as of a register is, for an
\* instruction at pc: indexed (symbolic, absolute), indirect, or indirect with
\* increment (immediate).
MeantAt(e, as, n) ==
    LET next == U16(e.r[PC] + 2)
        base == CASE n = PC -> e.r[PC] + 2 [] n = SR -> 0 [] OTHER -> e.r[n]
    IN  IF as = 1 THEN U16(base + MemWord(e, next))
        ELSE IF n = PC THEN next ELSE e.r[n]

\* What an operand means: a generated constant, a register, or a word of memory.
Meant(e, as, n) ==
    IF constant_generator_active(n, as) THEN run_constant_generator(n, as)
    ELSE IF as # 0 THEN MemWord(e, MeantAt(e, as, n))
    ELSE IF n = PC THEN U16(e.r[PC] + 2)
    ELSE IF n = SR THEN sr_to_value(e) ELSE e.r[n]

(* MOV to a register and MOV to memory read the same source operand, the   *)
(* one its addressing mode names (formatI.c:141-144, 189-200).             *)
SourceIsMeant ==
    [][Executes /\ IsFormatI /\ I.opcode = 4 /\ I.bw = "WORD" /\ I.as # 0 =>
        Src = Meant(emu, I.as, I.source)]_vars

(* "The source operand is moved to the destination" (formatI.c:425): a MOV *)
(* to the status register changes it.                                      *)
MoveReachesSR ==
    [][Executes /\ IsFormatI /\ I.opcode = 4 /\ I.bw = "WORD" /\ I.ad = 0
       /\ I.destination = SR =>
        sr_to_value(emu') = Src % 512]_vars

-----------------------------------------------------------------------------
(* Jumps                                                                   *)

\* The distance a jump may have without its bit 8 and bit 9 differing.
NearJump == (Current % 1024) \notin 256..511

LandsRight ==
    LET next == U16(emu.r[PC] + 2)
    IN  emu'.r[PC] \in {next, U16(next + JumpDistance(Current % 1024))}

(* A jump falls through or lands 2 * offset from the next instruction, the *)
(* offset a 10-bit signed number (formatIII.c:23), unless it is a forward  *)
(* jump of 256 words or more, which goes backwards.                        *)
NearJumpsLandRight == [][Executes /\ IsFormatIII /\ NearJump => LandsRight]_vars

\* The machine has executed n instructions since it started, and shown none.
After(n) == steps = n /\ shows = 0

\* The first instruction of the run, as either format reads it.
FirstI == FieldsI(Fetched(start))
FirstII == FieldsII(Fetched(start))
FirstIsFormatII == Fetched(start) \div 4096 = 1

\* The run starts with CMP of two general registers.
StartsWithCompare ==
    FirstI.opcode = 9 /\ FirstI.as = 0 /\ FirstI.ad = 0
    /\ {FirstI.source, FirstI.destination} \subseteq 4..15

\* The conditions, read as relations of what that CMP compared.
Operand(n) == SignedPart(start.r[n], FirstI.bw)
Holds(condition) ==
    LET d == Operand(FirstI.destination)
        s == Operand(FirstI.source)
    IN  CASE condition = 0 -> d # s
          [] condition = 1 -> d = s
          [] condition = 5 -> d >= s
          [] condition = 6 -> d < s

(* CMP s, d and a jump: JNE, JEQ, JGE and JL branch exactly when d # s,    *)
(* d = s, d >= s and d < s as signed numbers, for every s but the lowest   *)
(* number (formatIII.c:50-159).  (A jump over nothing cannot be told from  *)
(* one that is not taken.)                                                 *)
SignedBranchesRight ==
    [][Executes /\ After(1) /\ StartsWithCompare /\ IsFormatIII
        /\ (Current \div 1024) % 8 \in {0, 1, 5, 6} /\ Current % 1024 # 0
        /\ Operand(FirstI.source) # -Half(FirstI.bw) =>
            (emu'.r[PC] # U16(emu.r[PC] + 2)) = Holds((Current \div 1024) % 8)]_vars

-----------------------------------------------------------------------------
(* The stack                                                               *)

\* The address of the instruction after the first one.
Second == disassemble_one(start, 0).r[PC]

\* MOV @SP+, Rn
Pops(w, n) == w = 16384 + 256 * SP + 48 + n

\* The addressing modes of a format II operand that reach what they name.
\* Symbolic mode does not: it looks one word further on.
Symbolic(ii) == ii.source = PC /\ ii.as = 1

\* By how much PUSH or CALL has incremented the stack pointer before it moves it.
Used(ii) == IF ii.source = SP /\ ii.as = 3 THEN 2 ELSE 0

\* The address of the word that PUSH or CALL stores.
PushedAt(e, ii) == U16(e.r[SP] + Used(ii) - 2)

\* Two words of memory have no byte in common.
Apart(a, b) == {a, a + 1} \cap {b, b + 1} = {}

(* PUSH of any operand and its pop (MOV @SP+, Rn) bring back the operand   *)
(* and the stack pointer, even when the operand is the stack pointer or is *)
(* addressed through it: the operand is read before PUSH moves the stack   *)
(* pointer, and left alone by it (formatII.c:304-318).  The word pushed    *)
(* must not lie over the second instruction.                               *)
PushPop ==
    /\ After(2)
    /\ FirstIsFormatII /\ FirstII.opcode = 4 /\ FirstII.bw = "WORD" /\ ~Symbolic(FirstII)
    /\ Apart(PushedAt(start, FirstII), Second)
    /\ \E n \in 4..15 : Pops(MemWord(start, Second), n)
    => /\ emu.r[MemWord(start, Second) % 16] = Meant(start, FirstII.as, FirstII.source)
       /\ emu.r[SP] = U16(start.r[SP] + Used(FirstII))

\* A word operand that CALL reads where its addressing mode says.  It reads
\* it after it has pushed pc: SP and @SP+ are read too late.
Callable(ii) ==
    ii.bw = "WORD" /\ ~Symbolic(ii) /\ ~(ii.source = SP /\ ii.as \in {0, 3})

\* Nor does the word pushed lie over the operand.  (An immediate operand has
\* been copied by then.)
Spared(e, ii) ==
    \/ ii.as = 0 \/ constant_generator_active(ii.source, ii.as)
    \/ ii.as = 3 /\ ii.source = PC
    \/ Apart(PushedAt(e, ii), MeantAt(e, ii.as, ii.source))

(* CALL and the return instruction it meets (MOV @SP+, PC) come back to    *)
(* the instruction after the CALL with the stack pointer and every other   *)
(* register as they were (formatII.c:326-334, formatI.c:304-360), unless   *)
(* the word pushed lies over the operand or the return instruction.        *)
CallReturn ==
    LET target == Meant(start, FirstII.as, FirstII.source)
    IN  /\ After(2)
        /\ FirstIsFormatII /\ FirstII.opcode = 5 /\ Callable(FirstII)
        /\ Spared(start, FirstII) /\ Apart(PushedAt(start, FirstII), target)
        /\ Pops(MemWord(start, target), PC)
        => /\ emu.r[PC] = Second
           /\ \A n \in 1..15 : n # SR /\ ~(n = FirstII.source /\ FirstII.as = 3)
                 => emu.r[n] = start.r[n]

(* "PUSH PC and PC = SRC" (formatII.c:320-321): a CALL goes where its      *)
(* operand says.                                                           *)
CallGoesToSource ==
    [][Executes /\ IsFormatII /\ II.opcode = 5 /\ Callable(II) /\ Spared(emu, II) =>
        emu'.r[PC] = Meant(emu, II.as, II.source)]_vars

-----------------------------------------------------------------------------
(* The disassembler                                                        *)

ShowsWithoutChange ==
    /\ \A n \in 0..15 \ {SR} : emu'.r[n] = emu.r[n]
    /\ emu'.sr = emu.sr /\ emu'.mem = emu.mem

(* Showing a double operand instruction or a jump changes no register, no  *)
(* flag and no memory, although it is decoded by the code that executes it.*)
DisassemblyPure ==
    [][shows' # shows /\ (IsFormatI \/ IsFormatIII) => ShowsWithoutChange]_vars

(* Showing any instruction changes nothing: the command is "Display        *)
(* disassembly" (debugger.c:96).                                           *)
DisassemblyDisplays == [][shows' # shows => ShowsWithoutChange]_vars

\* The instruction loads pc with something else than the next address.
WritesPC ==
    \/ IsFormatI /\ I.ad = 0 /\ I.destination = PC
    \/ IsFormatII /\ (II.opcode = 5 \/ (II.source = PC /\ II.as = 0))
    \/ IsFormatIII

(* The disassembler and the CPU agree where the next instruction starts,   *)
(* in every addressing mode.                                               *)
BoundariesAgree ==
    ~WritesPC => disassemble_one(emu, 0).r[PC] = execute(emu, 0).r[PC]
=============================================================================
