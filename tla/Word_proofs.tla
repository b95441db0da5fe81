----------------------------- MODULE Word_proofs -----------------------------
(***************************************************************************)
(* What flag_handler.c and formatIII.c compute, for every operand.         *)
(***************************************************************************)
EXTENDS Word, TLAPS

LEMMA SignBitSplits ==
  ASSUME NEW bw \in Sizes, NEW x \in Int, 0 <= x, x <= Top(bw)
  PROVE  /\ Part(x, bw) = x
         /\ SignBit(x, bw) = Flag(x >= Half(bw))
<1>1. CASE bw = "WORD"
  <2>1. x % 65536 = x
    BY <1>1, SMT DEF Top
  <2>2. x \div 32768 = Flag(x >= 32768)
    BY <1>1, SMT DEF Top, Flag
  <2> QED
    BY <1>1, <2>1, <2>2 DEF Part, SignBit, U16, Half
<1>2. CASE bw = "BYTE"
  <2>1. x % 256 = x
    BY <1>2, SMT DEF Top
  <2>2. x \div 128 = Flag(x >= 128)
    BY <1>2, SMT DEF Top, Flag
  <2> QED
    BY <1>2, <2>1, <2>2 DEF Part, SignBit, U8, Half
<1> QED
  BY <1>1, <1>2 DEF Sizes

LEMMA SignedPartSplits ==
  ASSUME NEW bw \in Sizes, NEW x \in Int, 0 <= x, x <= Top(bw)
  PROVE  SignedPart(x, bw) = IF x < Half(bw) THEN x ELSE x - Top(bw) - 1
<1>1. CASE bw = "WORD"
  <2>1. x % 65536 = x
    BY <1>1, SMT DEF Top
  <2> QED
    BY <1>1, <2>1 DEF SignedPart, Signed, U16, Top, Half
<1>2. CASE bw = "BYTE"
  <2>1. x % 256 = x
    BY <1>2, SMT DEF Top
  <2> QED
    BY <1>2, <2>1 DEF SignedPart, SignedByte, U8, Top, Half
<1> QED
  BY <1>1, <1>2 DEF Sizes

\* The sum as it is stored: the bits above the operand size are lost.
LEMMA SumWraps ==
  ASSUME NEW bw \in Sizes, NEW s \in Int, 0 <= s, s <= 2 * Top(bw)
  PROVE  Part(s, bw) = IF s <= Top(bw) THEN s ELSE s - Top(bw) - 1
<1>1. CASE bw = "WORD"
  BY <1>1, SMT DEF Top, Part, U16
<1>2. CASE bw = "BYTE"
  BY <1>2, SMT DEF Top, Part, U8
<1> QED
  BY <1>1, <1>2 DEF Sizes

(* is_overflowed (flag_handler.c:112-139) decides from three sign bits;    *)
(* for every two operands of either size it is 1 exactly when their signed *)
(* sum is out of range.                                                    *)
THEOREM OverflowExact ==
  ASSUME NEW bw \in Sizes,
         NEW a \in Int, 0 <= a, a <= Top(bw),
         NEW b \in Int, 0 <= b, b <= Top(bw)
  PROVE  is_overflowed(a, b, Part(a + b, bw), bw) = SignedOverflow(a, b, bw)
<1> DEFINE r == Part(a + b, bw)
<1>1. r = IF a + b <= Top(bw) THEN a + b ELSE a + b - Top(bw) - 1
  BY SumWraps, a + b \in Int, 0 <= a + b, a + b <= 2 * Top(bw) DEF Top
<1>2. r \in Int /\ 0 <= r /\ r <= Top(bw)
  BY <1>1 DEF Top
<1> HIDE DEF r
<1>3. /\ SignBit(a, bw) = Flag(a >= Half(bw))
      /\ SignBit(b, bw) = Flag(b >= Half(bw))
      /\ SignBit(r, bw) = Flag(r >= Half(bw))
  BY <1>2, SignBitSplits
<1>4. /\ SignedPart(a, bw) = IF a < Half(bw) THEN a ELSE a - Top(bw) - 1
      /\ SignedPart(b, bw) = IF b < Half(bw) THEN b ELSE b - Top(bw) - 1
  BY SignedPartSplits
<1>5. Top(bw) = 2 * Half(bw) - 1 /\ Half(bw) \in {128, 32768}
  BY DEF Top, Half
<1>6. is_overflowed(a, b, r, bw) =
         Flag(/\ (a >= Half(bw)) <=> (b >= Half(bw))
              /\ ~((r >= Half(bw)) <=> (b >= Half(bw))))
  BY <1>3 DEF is_overflowed, Flag
<1>7. SignedOverflow(a, b, bw) =
         Flag(SignedPart(a, bw) + SignedPart(b, bw) \notin (-Half(bw))..(Half(bw) - 1))
  BY DEF SignedOverflow
<1>8. (SignedPart(a, bw) + SignedPart(b, bw) \notin (-Half(bw))..(Half(bw) - 1))
      <=> /\ (a >= Half(bw)) <=> (b >= Half(bw))
          /\ ~((r >= Half(bw)) <=> (b >= Half(bw)))
  BY <1>1, <1>4, <1>5
<1> QED
  BY <1>6, <1>7, <1>8 DEF r, Flag

(* The negative and overflow flags of a sum differ exactly when the signed *)
(* sum is negative: what JGE and JL test (formatIII.c:115-143) is the sign *)
(* of the exact result even when that does not fit.                        *)
THEOREM NegativeXorOverflow ==
  ASSUME NEW bw \in Sizes,
         NEW a \in Int, 0 <= a, a <= Top(bw),
         NEW b \in Int, 0 <= b, b <= Top(bw)
  PROVE  (is_negative(Part(a + b, bw), bw) # is_overflowed(a, b, Part(a + b, bw), bw))
         <=> SignedPart(a, bw) + SignedPart(b, bw) < 0
<1> DEFINE r == Part(a + b, bw)
<1>1. r = IF a + b <= Top(bw) THEN a + b ELSE a + b - Top(bw) - 1
  BY SumWraps, a + b \in Int, 0 <= a + b, a + b <= 2 * Top(bw) DEF Top
<1>2. r \in Int /\ 0 <= r /\ r <= Top(bw)
  BY <1>1 DEF Top
<1>3. is_overflowed(a, b, r, bw) = SignedOverflow(a, b, bw)
  BY OverflowExact
<1> HIDE DEF r
<1>4. is_negative(r, bw) = Flag(r >= Half(bw))
  BY <1>2, SignBitSplits DEF is_negative
<1>5. /\ SignedPart(a, bw) = IF a < Half(bw) THEN a ELSE a - Top(bw) - 1
      /\ SignedPart(b, bw) = IF b < Half(bw) THEN b ELSE b - Top(bw) - 1
  BY SignedPartSplits
<1>6. Top(bw) = 2 * Half(bw) - 1 /\ Half(bw) \in {128, 32768}
  BY DEF Top, Half
<1>7. SignedOverflow(a, b, bw) =
         Flag(SignedPart(a, bw) + SignedPart(b, bw) \notin (-Half(bw))..(Half(bw) - 1))
  BY DEF SignedOverflow
<1>8. ((r >= Half(bw)) <=> ~(SignedPart(a, bw) + SignedPart(b, bw)
                              \notin (-Half(bw))..(Half(bw) - 1)))
      <=> SignedPart(a, bw) + SignedPart(b, bw) < 0
  BY <1>1, <1>5, <1>6
<1> QED
  BY <1>3, <1>4, <1>7, <1>8 DEF r, Flag

(* is_carried (flag_handler.c:81-102) is exact when both operands arrive   *)
(* as unsigned numbers of the operand's size.  Its callers pass int16_t    *)
(* values, which arrive sign extended: there the carry can be wrong.       *)
THEOREM CarryExact ==
  ASSUME NEW bw \in Sizes,
         NEW a \in Int, 0 <= a, a <= Top(bw),
         NEW b \in Int, 0 <= b, b <= Top(bw)
  PROVE  is_carried(a, b, bw) = CarryOut(a, b, 0, bw)
<1>1. Part(a, bw) = a /\ Part(b, bw) = b
  BY SignBitSplits
<1>2. /\ is_carried(a, b, bw) = Flag(Top(bw) - b < a \/ a + b \notin 0..Top(bw))
      /\ CarryOut(a, b, 0, bw) = Flag(a + b + 0 > Top(bw))
  <2>1. is_carried(a, b, bw) = Flag(Top(bw) - Part(b, bw) < Part(a, bw)
                                    \/ a + b \notin 0..Top(bw))
    BY DEF is_carried
  <2>2. CarryOut(a, b, 0, bw) = Flag(Part(a, bw) + Part(b, bw) + 0 > Top(bw))
    BY DEF CarryOut
  <2> QED
    BY <1>1, <2>1, <2>2, Zenon
<1>3. ASSUME NEW top \in Int, NEW s \in Int, 0 <= s, s = a + b
      PROVE  (top - b < a \/ s \notin 0..top) <=> s + 0 > top
  <2>1. s \in 0..top <=> s <= top
    BY <1>3
  <2>2. top - b < a <=> s > top
    BY <1>3, SMT
  <2> QED
    BY <2>1, <2>2, SMT
<1>4. Top(bw) \in Int /\ a + b \in Int /\ 0 <= a + b
  BY DEF Top
<1> QED
  BY <1>2, <1>3, <1>4 DEF Flag

(* The jump offset of formatIII.c:34-48 is the 10-bit signed number of     *)
(* words, for all of its values but those from 256 to 511: these jump 2048 *)
(* bytes too low.                                                          *)
THEOREM OffsetExact ==
  ASSUME NEW field \in Int, 0 <= field, field <= 1023
  PROVE  signed_offset(field) =
            IF 256 <= field /\ field <= 511 THEN JumpDistance(field) - 2048
            ELSE JumpDistance(field)
<1>1. (field * 2) \div 512 # 0 <=> field >= 256
  BY SMT
<1> QED
  BY <1>1, SMT DEF signed_offset, JumpDistance
=============================================================================
