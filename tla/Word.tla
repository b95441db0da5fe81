-------------------------------- MODULE Word --------------------------------
(***************************************************************************)
(* 16-bit arithmetic of the emulated CPU, as C computes it: the flag       *)
(* handler (devices/cpu/flag_handler.c) and the jump offset of format III  *)
(* (devices/cpu/formatIII.c).                                              *)
(*                                                                         *)
(* A word is a natural below 2^16; where the C code holds it in an int16_t *)
(* that is then widened, Signed says what the widened value is.            *)
(***************************************************************************)
EXTENDS Integers

MaxWord == 65535
Words == 0..MaxWord
Sizes == {"WORD", "BYTE"}

U16(x) == x % 65536
U8(x) == x % 256
Signed(w) == IF w < 32768 THEN w ELSE w - 65536
SignedByte(b) == IF b < 128 THEN b ELSE b - 256

\* The largest operand of size bw, and the weight of its sign bit.
Top(bw) == IF bw = "WORD" THEN 65535 ELSE 255
Half(bw) == IF bw = "WORD" THEN 32768 ELSE 128

\* The part of a word an instruction of size bw looks at, and its sign bit.
Part(x, bw) == IF bw = "WORD" THEN U16(x) ELSE U8(x)
SignBit(x, bw) == IF bw = "WORD" THEN U16(x) \div 32768 ELSE U8(x) \div 128

Flag(b) == IF b THEN 1 ELSE 0

is_zero(result, bw) == Flag(Part(result, bw) = 0)

is_negative(result, bw) == SignBit(result, bw)

\* Both arguments are uint32_t: a negative int16_t argument arrives with its
\* upper half set.  The sum, taken modulo 2^32, has a bit at or above the
\* operand size exactly when the sum of the integers leaves Part's range.
is_carried(original_dst_value, source_value, bw) ==
    Flag(\/ Top(bw) - Part(source_value, bw) < Part(original_dst_value, bw)
         \/ original_dst_value + source_value \notin 0..Top(bw))

\* Mutant: the signs of the operands are not compared.
MutantOverflowed(source_value, destination_value, result, bw) ==
    Flag(SignBit(result, bw) # SignBit(destination_value, bw))

is_overflowed(source_value, destination_value, result, bw) ==
    Flag(/\ SignBit(source_value, bw) = SignBit(destination_value, bw)
         /\ SignBit(result, bw) # SignBit(destination_value, bw))

\* Mutant: no sign extension.
MutantOffset(field) == field * 2

\* int16_t signed_offset = (instruction & 0x03FF) * 2, sign extended when
\* signed_offset >> 9 is not zero.
signed_offset(field) ==
    IF (field * 2) \div 512 # 0 THEN field * 2 - 2048 ELSE field * 2

-----------------------------------------------------------------------------
(* What the flags and the offset are meant to be.                          *)

\* The carry out of the top bit of the addition of two parts and a carry.
CarryOut(a, b, carry, bw) ==
    Flag(Part(a, bw) + Part(b, bw) + carry > Top(bw))

SignedPart(x, bw) == IF bw = "WORD" THEN Signed(U16(x)) ELSE SignedByte(U8(x))

\* The signed sum does not fit the operand size.
SignedOverflow(a, b, bw) ==
    Flag(SignedPart(a, bw) + SignedPart(b, bw) \notin (-Half(bw))..(Half(bw) - 1))

\* A 10-bit two's complement number of words.
JumpDistance(field) == 2 * (IF field < 512 THEN field ELSE field - 1024)
=============================================================================
