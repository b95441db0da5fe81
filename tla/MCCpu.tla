------------------------------- MODULE MCCpu -------------------------------
(* Programs and register contents for CpuMachine.  Values are boundaries:  *)
(* around 0, the sign bits and the top of both operand sizes.              *)
EXTENDS CpuMachine, TLC

\* initialize_msp_registers and setup_debugger.
Booted ==
    [r |-> [n \in 0..15 |-> CASE n = PC -> 49152 [] n = SP -> 1024 [] OTHER -> 0],
     sr |-> [overflow |-> 0, SCG1 |-> 0, SCG0 |-> 0, OSCOFF |-> 0, CPUOFF |-> 0,
             GIE |-> 0, negative |-> 0, zero |-> 0, carry |-> 0],
     mem |-> <<>>, running |-> FALSE, debug_mode |-> TRUE, bogus |-> 0]

\* The words of a program placed at addr.
Load(e, addr, words) ==
    [e EXCEPT !.mem =
        [a \in addr..(addr + 2 * Len(words) - 1) |->
            LET w == words[(a - addr) \div 2 + 1]
            IN  IF (a - addr) % 2 = 0 THEN w % 256 ELSE w \div 256] @@ @]

InsI(opcode, as, source, ad, destination, b) ==
    4096 * opcode + 256 * source + 128 * ad + 64 * b + 16 * as + destination
InsII(opcode, as, source, b) == 4096 + 128 * opcode + 64 * b + 16 * as + source
InsIII(condition, field) == 8192 + 1024 * condition + field

Boundary == {0, 1, 127, 128, 255, 256, 32767, 32768, 36864, 65535}
MCGarbage == {0, 4660}

\* Every double operand instruction on R4 and R5, or on R4 and the word at
\* 0x0200.
AluStarts ==
    {Load(Load([Booted EXCEPT !.r[4] = s, !.r[5] = d, !.sr.carry = c],
               49152, <<InsI(op, 0, 4, ad, IF ad = 0 THEN 5 ELSE 6, b), 512>>),
          512, <<d>>) :
        s \in Boundary, d \in Boundary, c \in 0..1, op \in 4..15, ad \in 0..1, b \in 0..1}

\* Two words of operands follow; R1, R4 and R5 point into memory.
Pointers ==
    Load([Booted EXCEPT !.r[1] = 1020, !.r[4] = 512, !.r[5] = 528, !.sr.carry = 1],
         512, <<4660, 43981, 255, 32769, 1, 2, 3, 4, 5, 6, 7, 8>>)

WithStack == Load(Pointers, 1016, <<61440, 514, 61456, 9>>)

Sources == {PC, SP, SR, 3, 4}

\* MOV, ADD, CMP and BIC in every pair of addressing modes.
OperandStarts ==
    {Load(WithStack, 49152, <<InsI(op, as, s, ad, d, b), 4, 520>>) :
        op \in {4, 5, 9, 12}, as \in 0..3, s \in Sources, ad \in 0..1,
        d \in {PC, SP, SR, 3, 4, 5}, b \in 0..1}

\* Every single operand instruction in every addressing mode.
SingleStarts ==
    {Load(WithStack, 49152, <<InsII(op, as, s, b), 516>>) :
        op \in 0..7, as \in 0..3, s \in Sources, b \in 0..1}

Fields == {0, 1, 255, 256, 400, 511, 512, 513, 1023}

JumpStarts ==
    {Load(set_sr_value(Booted, v), 49152, <<InsIII(c, f)>>) :
        c \in 0..7, f \in Fields, v \in {0, 1, 2, 4, 256, 260}}

\* CMP R4, R5 and a jump.
CompareStarts ==
    {Load([Booted EXCEPT !.r[4] = s, !.r[5] = d], 49152,
          <<InsI(9, 0, 4, 0, 5, b), InsIII(c, 16)>>) :
        s \in Boundary, d \in Boundary, b \in 0..1, c \in 0..7}

\* Stack pointers, at the ends of memory and in the program too, and pointers
\* into the words around them, odd ones too.
Stacks ==
    {[WithStack EXCEPT !.r[1] = sp, !.r[4] = p] :
        sp \in {0, 1, 1018, 1020, 49156}, p \in {512, 513, 1016}}

\* PUSH of an operand and MOV @SP+, R7.
PushStarts ==
    {LET long == (as = 1 /\ s # 3) \/ (as = 3 /\ s = PC)
         push == InsII(4, as, s, 0)
         pop == InsI(4, 3, SP, 0, 7, 0)
     IN  Load(e, 49152, IF long THEN <<push, 2, pop>> ELSE <<push, pop>>) :
        as \in 0..3, s \in Sources, e \in Stacks}

\* CALL through a register, an immediate, or a word of memory that holds the
\* target, where a return instruction waits.
Target == 61440
Called == {<<0, 10>>, <<1, 10>>, <<2, 10>>, <<3, 10>>, <<3, PC>>, <<1, SR>>,
           <<1, SP>>, <<2, SP>>, <<3, SP>>}
CallStarts ==
    {LET long == m[1] = 1 \/ m = <<3, PC>>
         x == IF m[2] = PC THEN Target ELSE IF m[2] = SR THEN 512 ELSE 0
         call == InsII(5, m[1], m[2], 0)
         ready == Load(Load([e EXCEPT !.r[10] = IF m[1] = 0 THEN Target ELSE 512],
                            512, <<Target>>),
                       Target, <<InsI(4, 3, SP, 0, PC, 0)>>)
     IN  Load(Load(ready, e.r[SP], <<Target>>),
              49152, IF long THEN <<call, x>> ELSE <<call>>) :
        m \in Called, e \in Stacks}

MCStarts == AluStarts \cup OperandStarts \cup SingleStarts \cup JumpStarts
            \cup CompareStarts \cup PushStarts \cup CallStarts \cup {Booted}
=============================================================================
