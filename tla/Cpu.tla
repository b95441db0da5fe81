-------------------------------- MODULE Cpu --------------------------------
(***************************************************************************)
(* The instruction set: fetch, decode and the three instruction formats    *)
(* (devices/cpu/*.c), registers, and the flat 64 KB memory                 *)
(* (devices/memory/memspace.c, devices/utilities.c).                       *)
(*                                                                         *)
(* Each operator takes the emulator's state e and returns the state after: *)
(*   e.r           r[0] is pc, r[1] sp, r[3] cg2; r[2] is the static copy  *)
(*                 of SR that get_reg_ptr hands out                        *)
(*   e.sr          struct Status_reg; its reserved bits are always 0,      *)
(*                 set_sr_value only ORs in bits its 7-bit field drops     *)
(*   e.mem         MEMSPACE, the bytes written so far                      *)
(*   e.running, e.debug_mode                                               *)
(*   e.bogus       the local bogus_reg of decode_formatII                  *)
(* The disassembler runs the same operators with dis = TRUE.               *)
(***************************************************************************)
EXTENDS Word, Sequences

PC == 0
SP == 1
SR == 2

-----------------------------------------------------------------------------
(* Memory and registers                                                    *)

\* initialize_msp_memspace: RAM and peripherals are zero, information and
\* code memory is erased flash.  The calibration bytes are left out.
Erased(addr) == addr \in 4096..4351 \/ addr \in 49152..65535

Byte(e, addr) ==
    IF addr \in DOMAIN e.mem THEN e.mem[addr]
    ELSE IF Erased(addr) THEN 255 ELSE 0

\* A word access at 0xFFFF runs one byte past MEMSPACE.
MemWord(e, addr) == Byte(e, addr) + 256 * Byte(e, addr + 1)

\* The memory m with the bytes f stored over it.
Stored(m, f) == [a \in DOMAIN m \cup DOMAIN f |-> IF a \in DOMAIN f THEN f[a] ELSE m[a]]

SetByte(e, addr, b) == [e EXCEPT !.mem = Stored(@, [a \in {addr} |-> b])]
SetMemWord(e, addr, w) ==
    [e EXCEPT !.mem = Stored(@, [a \in {addr, addr + 1} |->
                                    IF a = addr THEN w % 256 ELSE w \div 256])]

SetReg(e, n, w) == [e EXCEPT !.r[n] = w]

sr_to_value(e) ==
    256 * e.sr.overflow + 128 * e.sr.SCG1 + 64 * e.sr.SCG0 + 32 * e.sr.OSCOFF
    + 16 * e.sr.CPUOFF + 8 * e.sr.GIE + 4 * e.sr.negative + 2 * e.sr.zero
    + e.sr.carry

BitAt(w, n) == (w \div 2^n) % 2

\* The word whose bits are f.
Nibble(f, n) == f[n] + 2 * f[n + 1] + 4 * f[n + 2] + 8 * f[n + 3]
OfBits(f) == Nibble(f, 0) + 16 * Nibble(f, 4) + 256 * Nibble(f, 8) + 4096 * Nibble(f, 12)

\* a & b, a | b and a ^ b
BitAnd(a, b) == OfBits([n \in 0..15 |-> IF BitAt(a, n) = 1 THEN BitAt(b, n) ELSE 0])
BitOr(a, b) == OfBits([n \in 0..15 |-> IF BitAt(a, n) = 1 THEN 1 ELSE BitAt(b, n)])
BitXor(a, b) == OfBits([n \in 0..15 |-> IF BitAt(a, n) = BitAt(b, n) THEN 0 ELSE 1])

set_sr_value(e, value) ==
    [e EXCEPT !.sr = [overflow |-> BitAt(value, 8), SCG1 |-> BitAt(value, 7),
                      SCG0 |-> BitAt(value, 6), OSCOFF |-> BitAt(value, 5),
                      CPUOFF |-> BitAt(value, 4), GIE |-> BitAt(value, 3),
                      negative |-> BitAt(value, 2), zero |-> BitAt(value, 1),
                      carry |-> BitAt(value, 0)]]

\* Asking for a pointer to R2 refreshes the static copy.  Writes through the
\* pointer stay in the copy.
get_reg_ptr(e, n) == IF n = SR THEN SetReg(e, SR, sr_to_value(e)) ELSE e

\* fetch: the word at pc is MemWord(e, pc) of the state before.
Fetched(e) == MemWord(e, e.r[PC])
AfterFetch(e) == SetReg(e, PC, U16(e.r[PC] + 2))

-----------------------------------------------------------------------------
(* Operands: where destination_addr or source_address points.  A generated *)
(* constant or an immediate of format II lives in the local bogus_reg.     *)

InReg(n) == [kind |-> "reg", at |-> n]
InMem(addr) == [kind |-> "mem", at |-> U16(addr)]
InBogus == [kind |-> "bogus", at |-> 0]

ReadWord(e, loc) ==
    CASE loc.kind = "reg" -> e.r[loc.at]
      [] loc.kind = "mem" -> MemWord(e, loc.at)
      [] loc.kind = "bogus" -> e.bogus

WriteWord(e, loc, w) ==
    CASE loc.kind = "reg" -> SetReg(e, loc.at, w)
      [] loc.kind = "mem" -> SetMemWord(e, loc.at, w)
      [] loc.kind = "bogus" -> [e EXCEPT !.bogus = w]

\* Mutant: a byte is stored through a uint16_t pointer.
MutantWriteByte(e, loc, b) ==
    IF loc.kind = "mem" THEN SetMemWord(e, loc.at, b)
    ELSE LET w == ReadWord(e, loc) IN WriteWord(e, loc, w - U8(w) + b)

\* Through a uint8_t pointer only the low byte is written.
WriteByte(e, loc, b) ==
    IF loc.kind = "mem" THEN SetByte(e, loc.at, b)
    ELSE LET w == ReadWord(e, loc) IN WriteWord(e, loc, w - U8(w) + b)

\* Mutant: a word is stored without the conversion to 16 bits.
MutantWrite(e, loc, x, bw) ==
    IF bw = "WORD" THEN WriteWord(e, loc, x) ELSE WriteByte(e, loc, U8(x))

Write(e, loc, x, bw) ==
    IF bw = "WORD" THEN WriteWord(e, loc, U16(x)) ELSE WriteByte(e, loc, U8(x))

constant_generator_active(source, as_flag) ==
    (source = SR /\ as_flag > 1) \/ source = 3

run_constant_generator(source, as_flag) ==
    IF source = SR THEN (IF as_flag = 2 THEN 4 ELSE 8)
    ELSE <<0, 1, 2, 65535>>[as_flag + 1]

Increment(e, n, bw) == SetReg(e, n, U16(e.r[n] + (IF bw = "WORD" THEN 2 ELSE 1)))

ClearUpper(e, n, bw) == IF bw = "BYTE" THEN SetReg(e, n, U8(e.r[n])) ELSE e

-----------------------------------------------------------------------------
(* Format I: two operands                                                  *)

FieldsI(w) ==
    [opcode |-> w \div 4096, source |-> (w \div 256) % 16,
     as |-> (w \div 16) % 4, ad |-> (w \div 128) % 2,
     bw |-> IF (w \div 64) % 2 = 0 THEN "WORD" ELSE "BYTE",
     destination |-> w % 16]

\* The source operand: its value and the state with its word fetched and its
\* register incremented.
SourceI(e, i, dis) ==
    IF constant_generator_active(i.source, i.as)
    THEN [value |-> run_constant_generator(i.source, i.as), e |-> e]
    ELSE CASE i.as = 0 -> [value |-> e.r[i.source], e |-> e]
           [] i.as = 1 ->
                LET f == AfterFetch(e)
                    base == CASE i.source = PC ->
                                   f.r[PC] - (IF i.ad = 0 THEN 2 ELSE 4)
                              [] i.source = SR -> 0
                              [] OTHER -> f.r[i.source]
                IN  [value |-> MemWord(f, U16(base + Fetched(e))), e |-> f]
           [] i.as = 2 -> [value |-> MemWord(e, e.r[i.source]), e |-> e]
           [] i.as = 3 ->
                IF i.source = PC
                THEN [value |-> Fetched(e), e |-> AfterFetch(e)]
                ELSE [value |-> MemWord(e, e.r[i.source]),
                      e |-> IF dis THEN e ELSE Increment(e, i.source, i.bw)]

\* The address of a memory destination, in the state after its offset word
\* was fetched.
DestinationI(e, i, offset) ==
    CASE i.destination = PC -> InMem(e.r[PC] + offset - 2)
      [] i.destination = SR -> InMem(offset)
      [] OTHER -> InMem(e.r[i.destination] + offset)

\* Both operands.  The register and indirect modes fetch the destination's
\* offset before they look at the source.
OperandsI(e, i, dis) ==
    IF i.ad = 0
    THEN LET s == SourceI(e, i, dis)
         IN  [value |-> s.value, loc |-> InReg(i.destination),
              e |-> IF dis THEN s.e ELSE ClearUpper(s.e, i.destination, i.bw)]
    ELSE IF i.as \in {0, 2}
    THEN LET f == AfterFetch(e)
             s == SourceI(f, i, dis)
         IN  [value |-> s.value, loc |-> DestinationI(s.e, i, Fetched(e)), e |-> s.e]
    ELSE LET s == SourceI(e, i, dis)
             f == AfterFetch(s.e)
         IN  [value |-> s.value, loc |-> DestinationI(f, i, Fetched(s.e)), e |-> f]

SetFlags(e, n, z, c, v) ==
    [e EXCEPT !.sr.negative = n, !.sr.zero = z, !.sr.carry = c, !.sr.overflow = v]

\* Store the sum and set the flags as ADD, ADDC, SUBC and SUB do: addend is
\* source_value when the flags are computed, carry is given.
Sum(e, loc, dst, addend, sum, carry, bw) ==
    LET w == Write(e, loc, sum, bw)
        result == ReadWord(w, loc)
    IN  SetFlags(w, is_negative(result, bw), is_zero(result, bw), carry,
                 is_overflowed(addend, dst, result, bw))

ADD(e, loc, src, bw) ==
    LET dst == ReadWord(e, loc)
    IN  Sum(e, loc, dst, src, dst + src, is_carried(dst, Signed(src), bw), bw)

ADDC(e, loc, src, bw) ==
    LET dst == ReadWord(e, loc)
    IN  Sum(e, loc, dst, src, dst + src + e.sr.carry,
            is_carried(dst, Signed(src), bw), bw)

SUBC(e, loc, src, bw) ==
    LET dst == ReadWord(e, loc)
        not == 65535 - src
    IN  Sum(e, loc, dst, not, dst + not + e.sr.carry,
            is_carried(Signed(dst), Signed(not), bw), bw)

\* The carry is set and never reset.  ~source_value is computed in an int.
SUB(e, loc, src, bw) ==
    LET dst == ReadWord(e, loc)
        minus == U16(65536 - src)
        carried == \/ is_carried(-Signed(minus) - 1, 1, bw) = 1
                   \/ is_carried(Signed(dst), Signed(minus), bw) = 1
    IN  Sum(e, loc, dst, minus, dst + minus,
            IF carried THEN 1 ELSE e.sr.carry, bw)

CMP(e, loc, src, bw) ==
    LET dst == ReadWord(e, loc)
        minus == U16(65536 - src)
        result == Part(dst, bw) + Part(minus, bw)
        early_carry == is_carried(65535 - src, 1, bw)
    IN  SetFlags(e, is_negative(result, bw), is_zero(result, bw),
                 IF early_carry = 1 THEN 1 ELSE is_carried(Signed(dst), minus, bw),
                 is_overflowed(minus, dst, result, bw))

\* BIT, XOR and AND: negative, zero and carry from the result.
Logic(e, result, v, bw) ==
    SetFlags(e, is_negative(result, bw), is_zero(result, bw),
             1 - is_zero(result, bw), v)

AluI(e, i, loc, src) ==
    LET bw == i.bw
        a == Part(src, bw)
        b == Part(ReadWord(e, loc), bw)
    IN  CASE i.opcode = 4 -> Write(e, loc, src, bw)
          [] i.opcode = 5 -> ADD(e, loc, src, bw)
          [] i.opcode = 6 -> ADDC(e, loc, src, bw)
          [] i.opcode = 7 -> SUBC(e, loc, src, bw)
          [] i.opcode = 8 -> SUB(e, loc, src, bw)
          [] i.opcode = 9 -> CMP(e, loc, src, bw)
          [] i.opcode = 10 -> e                                       \* DADD
          [] i.opcode = 11 -> Logic(e, BitAnd(a, b), 0, bw)           \* BIT
          [] i.opcode = 12 -> Write(e, loc, b - BitAnd(a, b), bw)     \* BIC
          [] i.opcode = 13 -> Write(e, loc, BitOr(a, b), bw)          \* BIS
          [] i.opcode = 14 ->                                   \* XOR
                Logic(Write(e, loc, BitXor(a, b), bw), BitXor(a, b),
                      SignBit(a, bw) * SignBit(b, bw), bw)
          [] i.opcode = 15 ->                                   \* AND
                Logic(Write(e, loc, BitAnd(a, b), bw), BitAnd(a, b), 0, bw)

\* Mutants: the disassembler leaves the operands' words unfetched; it executes.
MutantSkipsOperands(e, instruction, dis) ==
    LET i == FieldsI(instruction)
        o == OperandsI(get_reg_ptr(get_reg_ptr(e, i.source), i.destination), i, dis)
    IN  IF dis THEN e ELSE AluI(o.e, i, o.loc, o.value)
MutantExecutesShown(e, instruction, dis) ==
    LET i == FieldsI(instruction)
        o == OperandsI(get_reg_ptr(get_reg_ptr(e, i.source), i.destination), i, dis)
    IN  AluI(o.e, i, o.loc, o.value)

decode_formatI(e, instruction, dis) ==
    LET i == FieldsI(instruction)
        o == OperandsI(get_reg_ptr(get_reg_ptr(e, i.source), i.destination), i, dis)
    IN  IF dis THEN o.e ELSE AluI(o.e, i, o.loc, o.value)

-----------------------------------------------------------------------------
(* Format II: one operand                                                  *)

FieldsII(w) ==
    [opcode |-> (w \div 128) % 8, source |-> w % 16, as |-> (w \div 16) % 4,
     bw |-> IF (w \div 64) % 2 = 0 THEN "WORD" ELSE "BYTE"]

\* value is source_value, loc is source_address.  Symbolic mode leaves
\* source_value uninitialised: garbage stands for what is found there.  The
\* register is masked and incremented in disassembly mode too.
OperandII(e, i, garbage) ==
    IF constant_generator_active(i.source, i.as) \/ (i.source = PC /\ i.as = 3)
    THEN LET immediate == i.source = PC
             v == IF immediate THEN Fetched(e)
                  ELSE run_constant_generator(i.source, i.as)
             f == IF immediate THEN AfterFetch(e) ELSE e
         IN  [value |-> v, loc |-> InBogus,
              e |-> [(IF i.as = 0 THEN ClearUpper(f, i.source, i.bw) ELSE f)
                     EXCEPT !.bogus = v]]
    ELSE CASE i.as = 0 -> [value |-> e.r[i.source], loc |-> InReg(i.source),
                           e |-> ClearUpper(e, i.source, i.bw)]
           [] i.as = 1 ->
                LET f == AfterFetch(e)
                    addr == CASE i.source = PC -> U16(f.r[PC] + Fetched(e))
                              [] i.source = SR -> Fetched(e)
                              [] OTHER -> U16(f.r[i.source] + Fetched(e))
                IN  [value |-> IF i.source = PC THEN garbage ELSE MemWord(f, addr),
                     loc |-> InMem(addr), e |-> f]
           [] i.as = 2 -> [value |-> MemWord(e, e.r[i.source]),
                           loc |-> InMem(e.r[i.source]), e |-> e]
           [] i.as = 3 -> [value |-> MemWord(e, e.r[i.source]),
                           loc |-> InMem(e.r[i.source]),
                           e |-> Increment(e, i.source, i.bw)]

\* RRC and RRA: store, then flags from what is at source_address.
Rotated(e, loc, w, carry, bw) ==
    LET result == ReadWord(w, loc)
    IN  SetFlags(w, is_negative(result, bw), is_zero(result, bw), carry, 0)

RRC(e, loc, bw) ==
    LET x == Part(ReadWord(e, loc), bw)
    IN  Rotated(e, loc, Write(e, loc, x \div 2 + Half(bw) * e.sr.carry, bw), x % 2, bw)

\* The byte form shifts the whole word, and takes any bit from 7 up as msb.
RRA(e, loc, bw) ==
    LET x == ReadWord(e, loc)
        shifted ==
            IF bw = "WORD" THEN x \div 2 + 32768 * (x \div 32768)
            ELSE IF x \div 128 # 0 THEN BitOr(x \div 2, 128) ELSE x \div 2
    IN  Rotated(e, loc, WriteWord(e, loc, shifted), x % 2, bw)

SWPB(e, loc) ==
    LET x == ReadWord(e, loc) IN WriteWord(e, loc, 256 * (x % 256) + x \div 256)

SXT(e, loc) ==
    LET x == U8(ReadWord(e, loc))
        result == IF x >= 128 THEN 65280 + x ELSE x
    IN  Logic(WriteWord(e, loc, result), result, 0, "WORD")

\* PUSH and CALL move the stack pointer before they look at the operand.
Pushed(e) == SetReg(e, SP, U16(e.r[SP] - 2))

\* Mutant: the word is stored before the stack pointer is moved.
MutantPush(e, value, bw) ==
    Pushed(IF bw = "WORD" THEN SetMemWord(e, e.r[SP], value)
           ELSE SetByte(e, e.r[SP], U8(value)))

PUSH(e, value, bw) ==
    LET p == Pushed(e)
    IN  IF bw = "WORD" THEN SetMemWord(p, p.r[SP], value)
        ELSE SetByte(p, p.r[SP], U8(value))

\* Mutants: the address pushed is that of the operand's word; the call goes to
\* the operand's address.
MutantCallReturnsEarly(e, loc) ==
    LET p == Pushed(e)
        s == SetMemWord(p, p.r[SP], U16(p.r[PC] - 2))
    IN  SetReg(s, PC, ReadWord(s, loc))
MutantCallsAddress(e, loc) ==
    LET p == Pushed(e)
        s == SetMemWord(p, p.r[SP], p.r[PC])
    IN  SetReg(s, PC, loc.at)

CALL(e, loc) ==
    LET p == Pushed(e)
        s == SetMemWord(p, p.r[SP], p.r[PC])
    IN  SetReg(s, PC, ReadWord(s, loc))

decode_formatII(e, instruction, dis, garbage) ==
    LET i == FieldsII(instruction)
        o == OperandII(get_reg_ptr(e, i.source), i, garbage)
    IN  CASE dis \/ i.opcode \in {6, 7} -> o.e      \* RETI and 7 do nothing
          [] ~dis /\ i.opcode = 0 -> RRC(o.e, o.loc, i.bw)
          [] ~dis /\ i.opcode = 1 -> SWPB(o.e, o.loc)
          [] ~dis /\ i.opcode = 2 -> RRA(o.e, o.loc, i.bw)
          [] ~dis /\ i.opcode = 3 -> SXT(o.e, o.loc)
          [] ~dis /\ i.opcode = 4 -> PUSH(o.e, o.value, i.bw)
          [] ~dis /\ i.opcode = 5 -> CALL(o.e, o.loc)

-----------------------------------------------------------------------------
(* Format III: jumps                                                       *)

\* Mutant: JGE and JL test the negative flag alone.
MutantTaken(e, condition) ==
    CASE condition \in {0, 1} -> e.sr.zero = condition
      [] condition \in {2, 3} -> e.sr.carry = condition - 2
      [] condition \in {4, 6} -> e.sr.negative = 1
      [] condition = 5 -> e.sr.negative = 0
      [] condition = 7 -> TRUE

\* JNE, JEQ, JNC, JC, JN, JGE, JL, JMP
Taken(e, condition) ==
    CASE condition = 0 -> e.sr.zero = 0
      [] condition = 1 -> e.sr.zero = 1
      [] condition = 2 -> e.sr.carry = 0
      [] condition = 3 -> e.sr.carry = 1
      [] condition = 4 -> e.sr.negative = 1
      [] condition = 5 -> e.sr.negative = e.sr.overflow
      [] condition = 6 -> e.sr.negative # e.sr.overflow
      [] condition = 7 -> TRUE

decode_formatIII(e, instruction, dis) ==
    IF ~dis /\ Taken(e, (instruction \div 1024) % 8)
    THEN SetReg(e, PC, U16(e.r[PC] + signed_offset(instruction % 1024)))
    ELSE e

-----------------------------------------------------------------------------
(* decode, and the disassembler's use of it                                *)

decode(e, instruction, dis, garbage) ==
    LET FormatId == instruction \div 4096
    IN  CASE FormatId = 0 -> [e EXCEPT !.running = FALSE, !.debug_mode = TRUE]
          [] FormatId = 1 -> decode_formatII(e, instruction, dis, garbage)
          [] FormatId \in {2, 3} -> decode_formatIII(e, instruction, dis)
          [] FormatId \in 4..15 -> decode_formatI(e, instruction, dis)

\* decode(emu, fetch(emu), EXECUTE)
execute(e, garbage) == decode(AfterFetch(e), Fetched(e), FALSE, garbage)

\* One turn of disassemble()'s loop.
disassemble_one(e, garbage) == decode(AfterFetch(e), Fetched(e), TRUE, garbage)

\* disassemble(emu, start_addr, 1)
disassemble(e, start_addr, garbage) ==
    SetReg(disassemble_one(SetReg(e, PC, start_addr), garbage), PC, e.r[PC])
=============================================================================
