----------------------------- MODULE Cpu_proofs -----------------------------
(***************************************************************************)
(* Theorems about the instruction set, for every program, every content of *)
(* the registers and of memory, and any number of instructions.            *)
(***************************************************************************)
EXTENDS CpuMachine, Word_proofs

-----------------------------------------------------------------------------
(* Words and bytes                                                         *)

LEMMA WordsAre ==
    /\ \A w : w \in Words <=> w \in Nat /\ w <= 65535
    /\ \A w : w \in Addresses <=> w \in Nat /\ w <= 65536
<1>1. MaxWord \in Nat
    BY DEF MaxWord
<1>2. /\ \A w : w \in Words <=> w \in Nat /\ w <= MaxWord
      /\ \A w : w \in Addresses <=> w \in Nat /\ w <= MaxWord + 1
    BY <1>1 DEF Words, Addresses
<1> QED BY <1>2 DEF MaxWord

LEMMA U16IsWord == \A x \in Int : U16(x) \in Words
BY WordsAre DEF U16

LEMMA U8IsByte == \A x \in Int : U8(x) \in 0..255
BY DEF U8

LEMMA U16OfWord == \A w \in Words : U16(w) = w
BY WordsAre DEF U16

LEMMA Halves ==
    ASSUME NEW w \in Words
    PROVE  /\ w % 256 \in 0..255 /\ w \div 256 \in 0..255
           /\ (w % 256) + 256 * (w \div 256) = w
BY WordsAre

LEMMA BitIsBit == \A w \in Nat, n \in 0..15 : BitAt(w, n) \in 0..1
BY DEF BitAt

LEMMA OfBitsIsWord ==
    ASSUME NEW f \in [0..15 -> 0..1]
    PROVE  OfBits(f) \in Words
<1>1. ASSUME NEW n \in {0, 4, 8, 12} PROVE Nibble(f, n) \in Nat /\ Nibble(f, n) <= 15
    <2>1. f[n] \in 0..1 /\ f[n + 1] \in 0..1 /\ f[n + 2] \in 0..1 /\ f[n + 3] \in 0..1
        OBVIOUS
    <2> QED BY <2>1 DEF Nibble
<1> DEFINE a == Nibble(f, 0)
           b == Nibble(f, 4)
           c == Nibble(f, 8)
           d == Nibble(f, 12)
<1>2. OfBits(f) = a + 16 * b + 256 * c + 4096 * d
    BY Zenon DEF OfBits
<1>3. /\ a \in Nat /\ a <= 15 /\ b \in Nat /\ b <= 15
      /\ c \in Nat /\ c <= 15 /\ d \in Nat /\ d <= 15
    BY <1>1
<1> HIDE DEF a, b, c, d
<1>4. a + 16 * b + 256 * c + 4096 * d \in Nat /\ a + 16 * b + 256 * c + 4096 * d <= 65535
    BY <1>3
<1> QED BY <1>2, <1>4, WordsAre

LEMMA BitwiseAreWords ==
    ASSUME NEW a \in Words, NEW b \in Words
    PROVE  BitAnd(a, b) \in Words /\ BitOr(a, b) \in Words /\ BitXor(a, b) \in Words
<1>1. \A n \in 0..15 : BitAt(a, n) \in 0..1 /\ BitAt(b, n) \in 0..1
    BY BitIsBit, WordsAre
<1>2. /\ [n \in 0..15 |-> IF BitAt(a, n) = 1 THEN BitAt(b, n) ELSE 0] \in [0..15 -> 0..1]
      /\ [n \in 0..15 |-> IF BitAt(a, n) = 1 THEN 1 ELSE BitAt(b, n)] \in [0..15 -> 0..1]
      /\ [n \in 0..15 |-> IF BitAt(a, n) = BitAt(b, n) THEN 0 ELSE 1] \in [0..15 -> 0..1]
    BY <1>1
<1> QED BY <1>2, OfBitsIsWord DEF BitAnd, BitOr, BitXor

LEMMA PartIsWord ==
    ASSUME NEW x \in Int, NEW bw \in Sizes
    PROVE  /\ Part(x, bw) \in Words /\ (bw = "BYTE" => Part(x, bw) \in 0..255)
           /\ SignBit(x, bw) \in 0..1
<1>1. x % 65536 \in Nat /\ x % 65536 <= 65535 /\ x % 256 \in 0..255
    OBVIOUS
<1>2. (x % 65536) \div 32768 \in 0..1 /\ (x % 256) \div 128 \in 0..1
    OBVIOUS
<1>3. U16(x) \in Words /\ U8(x) \in Words /\ U8(x) \in 0..255
    BY <1>1, WordsAre DEF U16, U8
<1>4. CASE bw = "WORD"
    BY <1>2, <1>3, <1>4 DEF Part, SignBit, U16
<1>5. CASE bw = "BYTE"
    BY <1>2, <1>3, <1>5 DEF Part, SignBit, U8
<1> QED BY <1>4, <1>5 DEF Sizes

LEMMA FlagsAreBits ==
    /\ \A b \in BOOLEAN : Flag(b) \in 0..1
    /\ \A x \in Int, bw \in Sizes : is_negative(x, bw) \in 0..1 /\ is_zero(x, bw) \in 0..1
    /\ \A x, y \in Int, bw \in Sizes : is_carried(x, y, bw) \in 0..1
    /\ \A x, y, z, bw : is_overflowed(x, y, z, bw) \in 0..1
BY PartIsWord DEF is_negative, is_zero, is_carried, is_overflowed, Flag

-----------------------------------------------------------------------------
(* Memory and registers                                                    *)

\* The parts of the emulator that no instruction but the halting one changes.
SameMode(e, f) == f.running = e.running /\ f.debug_mode = e.debug_mode

LEMMA ByteIsByte ==
    ASSUME NEW e, IsEmulator(e), NEW addr
    PROVE  Byte(e, addr) \in 0..255
BY DEF IsEmulator, Byte

LEMMA MemWordIsWord ==
    ASSUME NEW e, IsEmulator(e), NEW addr
    PROVE  MemWord(e, addr) \in Words
<1>1. Byte(e, addr) \in 0..255 /\ Byte(e, addr + 1) \in 0..255
    BY ByteIsByte
<1> DEFINE l == Byte(e, addr)
           h == Byte(e, addr + 1)
<1>2. l \in 0..255 /\ h \in 0..255 /\ MemWord(e, addr) = l + 256 * h
    BY <1>1 DEF MemWord
<1> HIDE DEF l, h
<1>3. l + 256 * h \in Nat /\ l + 256 * h <= 65535
    BY <1>2
<1> QED BY <1>2, <1>3, WordsAre

LEMMA RegIsWord ==
    ASSUME NEW e, IsEmulator(e), NEW n \in 0..15
    PROVE  e.r[n] \in Words
BY DEF IsEmulator

LEMMA SetRegIs ==
    ASSUME NEW e, IsEmulator(e), NEW n \in 0..15, NEW w \in Words
    PROVE  LET f == SetReg(e, n, w) IN
           /\ IsEmulator(f) /\ f.r = [e.r EXCEPT ![n] = w]
           /\ f.mem = e.mem /\ f.sr = e.sr /\ f.bogus = e.bogus /\ SameMode(e, f)
BY DEF IsEmulator, SetReg, SameMode

\* The same of a state that is known by a name.
LEMMA SetRegGives ==
    ASSUME NEW e, IsEmulator(e), NEW n \in 0..15, NEW w \in Words, NEW f, f = SetReg(e, n, w)
    PROVE  /\ IsEmulator(f) /\ f.r = [e.r EXCEPT ![n] = w]
           /\ f.mem = e.mem /\ f.sr = e.sr /\ f.bogus = e.bogus /\ SameMode(e, f)
BY SetRegIs

LEMMA StoredIs ==
    ASSUME NEW m, NEW f
    PROVE  /\ DOMAIN Stored(m, f) = DOMAIN m \cup DOMAIN f
           /\ \A a \in DOMAIN f : Stored(m, f)[a] = f[a]
           /\ \A a \in DOMAIN m \ DOMAIN f : Stored(m, f)[a] = m[a]
BY DEF Stored

LEMMA SetByteIs ==
    ASSUME NEW e, IsEmulator(e), NEW addr \in Words, NEW b \in 0..255
    PROVE  LET f == SetByte(e, addr, b) IN
           /\ IsEmulator(f) /\ f.r = e.r /\ f.sr = e.sr /\ f.bogus = e.bogus /\ SameMode(e, f)
           /\ Byte(f, addr) = b
           /\ \A a : a # addr => Byte(f, a) = Byte(e, a)
<1> DEFINE f == SetByte(e, addr, b)
           g == [a \in {addr} |-> b]
<1>1. f = [e EXCEPT !.mem = Stored(e.mem, g)]
    BY DEF SetByte
<1>2. DOMAIN g = {addr} /\ g[addr] = b
    OBVIOUS
<1> HIDE DEF f, g
<1>3. /\ DOMAIN f = DOMAIN e /\ f.mem = Stored(e.mem, g)
      /\ f.r = e.r /\ f.sr = e.sr /\ f.bogus = e.bogus /\ SameMode(e, f)
    BY <1>1 DEF IsEmulator, SameMode
<1>8. /\ DOMAIN Stored(e.mem, g) = DOMAIN e.mem \cup DOMAIN g
      /\ \A a \in DOMAIN g : Stored(e.mem, g)[a] = g[a]
      /\ \A a \in DOMAIN e.mem \ DOMAIN g : Stored(e.mem, g)[a] = (e.mem)[a]
    BY StoredIs
<1>4. /\ DOMAIN f.mem = DOMAIN e.mem \cup {addr} /\ f.mem[addr] = b
      /\ \A a \in DOMAIN e.mem : a # addr => f.mem[a] = e.mem[a]
    BY <1>2, <1>3, <1>8
<1>5. addr \in Addresses
    BY WordsAre
<1>6. IsEmulator(f)
    BY <1>3, <1>4, <1>5 DEF IsEmulator, SameMode
<1>7. Byte(f, addr) = b /\ \A a : a # addr => Byte(f, a) = Byte(e, a)
    BY <1>4 DEF Byte
<1> QED BY <1>3, <1>6, <1>7 DEF f

LEMMA SetMemWordIs ==
    ASSUME NEW e, IsEmulator(e), NEW addr \in Words, NEW w \in Words
    PROVE  LET f == SetMemWord(e, addr, w) IN
           /\ IsEmulator(f) /\ f.r = e.r /\ f.sr = e.sr /\ f.bogus = e.bogus /\ SameMode(e, f)
           /\ MemWord(f, addr) = w
           /\ \A a : a \notin {addr, addr + 1} => Byte(f, a) = Byte(e, a)
<1> DEFINE f == SetMemWord(e, addr, w)
           g == [a \in {addr, addr + 1} |-> IF a = addr THEN w % 256 ELSE w \div 256]
<1>1. f = [e EXCEPT !.mem = Stored(e.mem, g)]
    BY DEF SetMemWord
<1>0. addr \in Addresses /\ addr + 1 \in Addresses /\ addr + 1 # addr
    BY WordsAre
<1>2. DOMAIN g = {addr, addr + 1} /\ g[addr] = w % 256 /\ g[addr + 1] = w \div 256
    BY <1>0
<1> HIDE DEF f, g
<1>3. /\ DOMAIN f = DOMAIN e /\ f.mem = Stored(e.mem, g)
      /\ f.r = e.r /\ f.sr = e.sr /\ f.bogus = e.bogus /\ SameMode(e, f)
    BY <1>1 DEF IsEmulator, SameMode
<1>8. /\ DOMAIN Stored(e.mem, g) = DOMAIN e.mem \cup DOMAIN g
      /\ \A a \in DOMAIN g : Stored(e.mem, g)[a] = g[a]
      /\ \A a \in DOMAIN e.mem \ DOMAIN g : Stored(e.mem, g)[a] = (e.mem)[a]
    BY StoredIs
<1>4. /\ DOMAIN f.mem = DOMAIN e.mem \cup {addr, addr + 1}
      /\ f.mem[addr] = w % 256 /\ f.mem[addr + 1] = w \div 256
      /\ \A a \in DOMAIN e.mem : a \notin {addr, addr + 1} => f.mem[a] = e.mem[a]
    BY <1>2, <1>3, <1>8
<1>5. IsEmulator(f)
    BY <1>0, <1>3, <1>4, Halves DEF IsEmulator, SameMode
<1>6. /\ Byte(f, addr) = w % 256 /\ Byte(f, addr + 1) = w \div 256
      /\ \A a : a \notin {addr, addr + 1} => Byte(f, a) = Byte(e, a)
    BY <1>4 DEF Byte
<1>7. MemWord(f, addr) = w
    BY <1>6, Halves DEF MemWord
<1> QED BY <1>3, <1>5, <1>6, <1>7 DEF f

-----------------------------------------------------------------------------
(* Reading and writing where an operand is                                 *)

IsLoc(loc) ==
    /\ loc.kind \in {"reg", "mem", "bogus"}
    /\ loc.kind = "reg" => loc.at \in 0..15
    /\ loc.kind = "mem" => loc.at \in Words

LEMMA LocsAre ==
    /\ \A n \in 0..15 : IsLoc(InReg(n))
    /\ \A x \in Int : IsLoc(InMem(x))
    /\ IsLoc(InBogus)
BY U16IsWord DEF IsLoc, InReg, InMem, InBogus

\* All but what is at loc, for an operand of size bw, is the same in e and f.
OnlyAt(e, f, loc, bw) ==
    /\ SameMode(e, f)
    /\ \A n \in 0..15 : ~(loc.kind = "reg" /\ loc.at = n) => f.r[n] = e.r[n]
    /\ \A a : ~(loc.kind = "mem" /\ (a = loc.at \/ (bw = "WORD" /\ a = loc.at + 1)))
                => Byte(f, a) = Byte(e, a)

LEMMA SameBytes ==
    ASSUME NEW e, NEW f, f.mem = e.mem
    PROVE  \A a : Byte(f, a) = Byte(e, a) /\ MemWord(f, a) = MemWord(e, a)
BY DEF Byte, MemWord

LEMMA ReadWordIsWord ==
    ASSUME NEW e, IsEmulator(e), NEW loc, IsLoc(loc)
    PROVE  ReadWord(e, loc) \in Words
<1>1. CASE loc.kind = "reg" BY <1>1, RegIsWord DEF IsLoc, ReadWord
<1>2. CASE loc.kind = "mem" BY <1>2, MemWordIsWord DEF ReadWord
<1>3. CASE loc.kind = "bogus" BY <1>3 DEF ReadWord, IsEmulator
<1> QED BY <1>1, <1>2, <1>3 DEF IsLoc

LEMMA SetBogusIs ==
    ASSUME NEW e, IsEmulator(e), NEW w \in Words
    PROVE  LET f == [e EXCEPT !.bogus = w] IN
           /\ IsEmulator(f) /\ f.bogus = w /\ f.r = e.r /\ f.mem = e.mem /\ f.sr = e.sr
           /\ SameMode(e, f)
BY DEF IsEmulator, SameMode

LEMMA WriteWordIs ==
    ASSUME NEW e, IsEmulator(e), NEW loc, IsLoc(loc), NEW w \in Words
    PROVE  LET f == WriteWord(e, loc, w) IN
           /\ IsEmulator(f) /\ OnlyAt(e, f, loc, "WORD") /\ f.sr = e.sr
           /\ ReadWord(f, loc) = w
<1> DEFINE f == WriteWord(e, loc, w)
<1>1. CASE loc.kind = "reg"
    <2>1. f = SetReg(e, loc.at, w) /\ loc.at \in 0..15
        BY <1>1 DEF WriteWord, IsLoc
    <2> HIDE DEF f
    <2>2. /\ IsEmulator(f) /\ f.r = [e.r EXCEPT ![loc.at] = w] /\ f.mem = e.mem
          /\ f.sr = e.sr /\ SameMode(e, f)
        BY <2>1, SetRegIs
    <2>3. f.r[loc.at] = w /\ \A n \in 0..15 : n # loc.at => f.r[n] = e.r[n]
        BY <2>1, <2>2 DEF IsEmulator
    <2> QED BY <1>1, <2>2, <2>3, SameBytes DEF f, OnlyAt, ReadWord
<1>2. CASE loc.kind = "mem"
    <2>1. f = SetMemWord(e, loc.at, w) /\ loc.at \in Words
        BY <1>2 DEF WriteWord, IsLoc
    <2> HIDE DEF f
    <2>2. /\ IsEmulator(f) /\ f.r = e.r /\ f.sr = e.sr /\ SameMode(e, f)
          /\ MemWord(f, loc.at) = w
          /\ \A a : a \notin {loc.at, loc.at + 1} => Byte(f, a) = Byte(e, a)
        BY <2>1, SetMemWordIs
    <2> QED BY <1>2, <2>2 DEF f, OnlyAt, ReadWord
<1>3. CASE loc.kind = "bogus"
    <2>1. f = [e EXCEPT !.bogus = w]
        BY <1>3 DEF WriteWord
    <2> HIDE DEF f
    <2>2. /\ IsEmulator(f) /\ f.bogus = w /\ f.r = e.r /\ f.mem = e.mem /\ f.sr = e.sr
          /\ SameMode(e, f)
        BY <2>1, SetBogusIs
    <2> QED BY <1>3, <2>2, SameBytes DEF f, OnlyAt, ReadWord
<1> QED BY <1>1, <1>2, <1>3 DEF IsLoc

\* A word with another low byte.
LEMMA LowByte ==
    ASSUME NEW w \in Words, NEW b \in 0..255
    PROVE  w - U8(w) + b \in Words /\ U8(w - U8(w) + b) = b
<1>1. w \in Nat /\ w <= 65535 /\ b \in Nat /\ b <= 255
    BY WordsAre
<1> DEFINE h == w \div 256
<1>2. h \in Nat /\ h <= 255 /\ w - (w % 256) = 256 * h
    BY <1>1
<1> HIDE DEF h
<1>3. 256 * h + b \in Nat /\ 256 * h + b <= 65535 /\ (256 * h + b) % 256 = b
    BY <1>1, <1>2
<1> QED BY <1>2, <1>3, WordsAre DEF U8

LEMMA WriteByteIs ==
    ASSUME NEW e, IsEmulator(e), NEW loc, IsLoc(loc), NEW b \in 0..255
    PROVE  LET f == WriteByte(e, loc, b) IN
           /\ IsEmulator(f) /\ OnlyAt(e, f, loc, "BYTE") /\ f.sr = e.sr
           /\ U8(ReadWord(f, loc)) = b
           /\ loc.kind # "mem" => ReadWord(f, loc) = ReadWord(e, loc) - U8(ReadWord(e, loc)) + b
<1> DEFINE f == WriteByte(e, loc, b)
           w == ReadWord(e, loc)
<1>1. CASE loc.kind = "mem"
    <2> DEFINE at == loc.at
    <2>4. f = SetByte(e, at, b) /\ at \in Words
        BY <1>1, SMTT(60) DEF WriteByte, IsLoc
    <2> HIDE DEF f
    <2> HIDE DEF at
    <2>6. LET s == SetByte(e, at, b) IN
          /\ IsEmulator(s) /\ s.r = e.r /\ s.sr = e.sr /\ s.bogus = e.bogus /\ SameMode(e, s)
          /\ Byte(s, at) = b
          /\ \A a : a # at => Byte(s, a) = Byte(e, a)
        BY <2>4, SetByteIs, ZenonT(60)
    <2>5. /\ IsEmulator(f) /\ f.r = e.r /\ f.sr = e.sr /\ SameMode(e, f)
          /\ Byte(f, at) = b
          /\ \A a : a # at => Byte(f, a) = Byte(e, a)
        BY <2>4, <2>6
    <2>2. /\ IsEmulator(f) /\ f.r = e.r /\ f.sr = e.sr /\ SameMode(e, f)
          /\ Byte(f, loc.at) = b
          /\ \A a : a # loc.at => Byte(f, a) = Byte(e, a)
        BY <2>5 DEF at
    <2>3. U8(ReadWord(f, loc)) = b
        <3> DEFINE h == Byte(f, loc.at + 1)
        <3>1. ReadWord(f, loc) = b + 256 * h /\ h \in 0..255
            BY <1>1, <2>2, ByteIsByte DEF ReadWord, MemWord
        <3> HIDE DEF h
        <3>2. (b + 256 * h) % 256 = b
            BY <3>1
        <3> QED BY <3>1, <3>2 DEF U8
    <2> QED BY <1>1, <2>2, <2>3 DEF f, OnlyAt
<1>2. CASE loc.kind # "mem"
    <2>1. f = WriteWord(e, loc, w - U8(w) + b)
        BY <1>2 DEF WriteByte
    <2>2. w \in Words
        BY ReadWordIsWord
    <2> HIDE DEF f, w
    <2>3. w - U8(w) + b \in Words /\ U8(w - U8(w) + b) = b
        BY <2>2, LowByte
    <2>4. IsEmulator(f) /\ OnlyAt(e, f, loc, "WORD") /\ f.sr = e.sr
          /\ ReadWord(f, loc) = w - U8(w) + b
        BY <2>1, <2>3, WriteWordIs
    <2> QED BY <1>2, <2>3, <2>4 DEF f, w, OnlyAt
<1> QED BY <1>1, <1>2

LEMMA WriteIs ==
    ASSUME NEW e, IsEmulator(e), NEW loc, IsLoc(loc), NEW x \in Int, NEW bw \in Sizes
    PROVE  LET f == Write(e, loc, x, bw) IN
           /\ IsEmulator(f) /\ OnlyAt(e, f, loc, bw) /\ f.sr = e.sr
           /\ ReadWord(f, loc) \in Words /\ Part(ReadWord(f, loc), bw) = Part(x, bw)
<1> DEFINE f == Write(e, loc, x, bw)
<1>1. CASE bw = "WORD"
    <2>1. f = WriteWord(e, loc, U16(x)) /\ U16(x) \in Words
        BY <1>1, U16IsWord DEF Write
    <2> HIDE DEF f
    <2>2. IsEmulator(f) /\ OnlyAt(e, f, loc, bw) /\ f.sr = e.sr /\ ReadWord(f, loc) = U16(x)
        BY <1>1, <2>1, WriteWordIs
    <2>3. U16(U16(x)) = U16(x)
        BY <2>1, U16OfWord
    <2> QED BY <1>1, <2>1, <2>2, <2>3 DEF f, Part
<1>2. CASE bw = "BYTE"
    <2>1. f = WriteByte(e, loc, U8(x)) /\ U8(x) \in 0..255
        BY <1>2, U8IsByte, SMTT(60) DEF Write
    <2> HIDE DEF f
    <2>2. IsEmulator(f) /\ OnlyAt(e, f, loc, bw) /\ f.sr = e.sr /\ U8(ReadWord(f, loc)) = U8(x)
        BY <1>2, <2>1, WriteByteIs, ZenonT(60)
    <2> QED BY <1>2, <2>2, ReadWordIsWord DEF f, Part
<1> QED BY <1>1, <1>2 DEF Sizes

-----------------------------------------------------------------------------
(* The arithmetic of format I                                              *)

LEMMA SetFlagsIs ==
    ASSUME NEW e, IsEmulator(e), NEW n \in 0..1, NEW z \in 0..1, NEW c \in 0..1, NEW v \in 0..1
    PROVE  LET f == SetFlags(e, n, z, c, v) IN
           /\ IsEmulator(f) /\ f.r = e.r /\ f.mem = e.mem /\ f.bogus = e.bogus /\ SameMode(e, f)
           /\ f.sr.negative = n /\ f.sr.zero = z /\ f.sr.carry = c /\ f.sr.overflow = v
<1> DEFINE f == SetFlags(e, n, z, c, v)
           sr == [e.sr EXCEPT !["negative"] = n, !["zero"] = z, !["carry"] = c, !["overflow"] = v]
<1>1. f = [e EXCEPT !.sr = sr]
    BY DEF SetFlags, IsEmulator
<1>2. /\ sr \in [StatusBits -> 0..1]
      /\ sr["negative"] = n /\ sr["zero"] = z /\ sr["carry"] = c /\ sr["overflow"] = v
    BY DEF IsEmulator, StatusBits
<1> HIDE DEF f, sr
<1>3. /\ DOMAIN f = DOMAIN e /\ f.sr = sr /\ f.r = e.r /\ f.mem = e.mem /\ f.bogus = e.bogus
      /\ f.running = e.running /\ f.debug_mode = e.debug_mode
    BY <1>1 DEF IsEmulator
<1> QED BY <1>2, <1>3 DEF f, IsEmulator, SameMode

LEMMA StatusIsBit ==
    ASSUME NEW e, IsEmulator(e)
    PROVE  /\ e.sr.carry \in 0..1 /\ e.sr.zero \in 0..1
           /\ e.sr.negative \in 0..1 /\ e.sr.overflow \in 0..1
BY DEF IsEmulator, StatusBits

\* What an instruction of size bw may do to its destination at loc: nothing
\* but what is there changes, and a register that held a byte still does.
Does(e, f, loc, bw) ==
    /\ IsEmulator(f)
    /\ OnlyAt(e, f, loc, bw)
    /\ bw = "BYTE" /\ loc.kind = "reg" /\ e.r[loc.at] <= 255 => f.r[loc.at] <= 255

LEMMA DoesNothing ==
    ASSUME NEW e, IsEmulator(e), NEW loc, NEW bw
    PROVE  Does(e, e, loc, bw)
BY DEF Does, OnlyAt, SameMode

LEMMA WriteDoes ==
    ASSUME NEW e, IsEmulator(e), NEW loc, IsLoc(loc), NEW x \in Int, NEW bw \in Sizes
    PROVE  Does(e, Write(e, loc, x, bw), loc, bw)
<1>1. IsEmulator(Write(e, loc, x, bw)) /\ OnlyAt(e, Write(e, loc, x, bw), loc, bw)
    BY WriteIs
<1>2. ASSUME bw = "BYTE", loc.kind = "reg", e.r[loc.at] <= 255
      PROVE  Write(e, loc, x, bw).r[loc.at] <= 255
    <2> DEFINE w == ReadWord(e, loc)
               b == U8(x)
               f == WriteByte(e, loc, b)
    <2>1. w = e.r[loc.at] /\ w \in Words /\ b \in 0..255
        BY <1>2, ReadWordIsWord, U8IsByte DEF ReadWord
    <2>2. Write(e, loc, x, bw) = f
        BY <1>2, ZenonT(60) DEF Write
    <2>3. ReadWord(f, loc) = w - U8(w) + b
        BY <1>2, <2>1, WriteByteIs, ZenonT(60)
    <2>4. ReadWord(f, loc) = f.r[loc.at]
        BY <1>2 DEF ReadWord
    <2> HIDE DEF w, b, f
    <2>5. U8(w) = w
        BY <1>2, <2>1, WordsAre DEF U8
    <2> QED BY <1>2, <2>1, <2>2, <2>3, <2>4, <2>5, WordsAre
<1> QED BY <1>1, <1>2 DEF Does

LEMMA FlagsDo ==
    ASSUME NEW e, NEW f, NEW loc, NEW bw, Does(e, f, loc, bw),
           NEW n \in 0..1, NEW z \in 0..1, NEW c \in 0..1, NEW v \in 0..1
    PROVE  Does(e, SetFlags(f, n, z, c, v), loc, bw)
<1> DEFINE g == SetFlags(f, n, z, c, v)
<1>1. IsEmulator(f)
    BY DEF Does
<1>2. IsEmulator(g) /\ g.r = f.r /\ g.mem = f.mem /\ SameMode(f, g)
    BY <1>1, SetFlagsIs
<1> HIDE DEF g
<1>3. \A a : Byte(g, a) = Byte(f, a)
    BY <1>2, SameBytes
<1> QED BY <1>2, <1>3 DEF g, Does, OnlyAt, SameMode

LEMMA SumDoes ==
    ASSUME NEW e, IsEmulator(e), NEW loc, IsLoc(loc), NEW dst, NEW addend,
           NEW sum \in Int, NEW carry \in 0..1, NEW bw \in Sizes
    PROVE  Does(e, Sum(e, loc, dst, addend, sum, carry, bw), loc, bw)
<1> DEFINE w == Write(e, loc, sum, bw)
           result == ReadWord(w, loc)
<1>1. Does(e, w, loc, bw) /\ result \in Words
    BY WriteDoes, WriteIs
<1>2. Sum(e, loc, dst, addend, sum, carry, bw) =
        SetFlags(w, is_negative(result, bw), is_zero(result, bw), carry,
                 is_overflowed(addend, dst, result, bw))
    BY DEF Sum
<1> HIDE DEF w, result
<1>3. /\ is_negative(result, bw) \in 0..1 /\ is_zero(result, bw) \in 0..1
      /\ is_overflowed(addend, dst, result, bw) \in 0..1
    BY <1>1, FlagsAreBits, WordsAre
<1> QED BY <1>1, <1>2, <1>3, FlagsDo

LEMMA LogicDoes ==
    ASSUME NEW e, NEW f, NEW loc, NEW bw \in Sizes, Does(e, f, loc, bw),
           NEW result \in Int, NEW v \in 0..1
    PROVE  Does(e, Logic(f, result, v, bw), loc, bw)
<1>1. is_negative(result, bw) \in 0..1 /\ is_zero(result, bw) \in 0..1
    BY FlagsAreBits
<1>2. 1 - is_zero(result, bw) \in 0..1
    BY <1>1
<1> QED BY <1>1, <1>2, FlagsDo DEF Logic

LEMMA SignedIsInt == \A w \in Words : Signed(w) \in Int /\ 65535 - w \in Words /\ U16(65536 - w) \in Words
<1> TAKE w \in Words
<1>1. w \in Nat /\ w <= 65535
    BY WordsAre
<1>2. Signed(w) \in Int
    BY <1>1 DEF Signed
<1>3. 65535 - w \in Words
    BY <1>1, WordsAre
<1>4. U16(65536 - w) \in Words
    BY <1>1, U16IsWord
<1> QED BY <1>2, <1>3, <1>4

\* The five arithmetic instructions.
LEMMA ArithmeticDoes ==
    ASSUME NEW e, IsEmulator(e), NEW loc, IsLoc(loc), NEW src \in Words, NEW bw \in Sizes
    PROVE  /\ Does(e, ADD(e, loc, src, bw), loc, bw)
           /\ Does(e, ADDC(e, loc, src, bw), loc, bw)
           /\ Does(e, SUBC(e, loc, src, bw), loc, bw)
           /\ Does(e, SUB(e, loc, src, bw), loc, bw)
           /\ Does(e, CMP(e, loc, src, bw), loc, bw)
<1> DEFINE dst == ReadWord(e, loc)
           not == 65535 - src
           minus == U16(65536 - src)
<1>1. dst \in Words /\ not \in Words /\ minus \in Words
    BY ReadWordIsWord, SignedIsInt
<1>2. /\ dst \in Int /\ not \in Int /\ minus \in Int /\ src \in Int
      /\ Signed(dst) \in Int /\ Signed(not) \in Int /\ Signed(minus) \in Int /\ Signed(src) \in Int
    BY <1>1, WordsAre, SignedIsInt
<1>3. e.sr.carry \in 0..1
    BY StatusIsBit
<1>4. Does(e, ADD(e, loc, src, bw), loc, bw)
    <2>1. ADD(e, loc, src, bw) = Sum(e, loc, dst, src, dst + src, is_carried(dst, Signed(src), bw), bw)
        BY DEF ADD
    <2> HIDE DEF dst
    <2>2. dst + src \in Int /\ is_carried(dst, Signed(src), bw) \in 0..1
        BY <1>2, FlagsAreBits
    <2> QED BY <2>1, <2>2, SumDoes
<1>5. Does(e, ADDC(e, loc, src, bw), loc, bw)
    <2>1. ADDC(e, loc, src, bw) =
            Sum(e, loc, dst, src, dst + src + e.sr.carry, is_carried(dst, Signed(src), bw), bw)
        BY DEF ADDC
    <2> HIDE DEF dst
    <2>2. dst + src + e.sr.carry \in Int /\ is_carried(dst, Signed(src), bw) \in 0..1
        BY <1>2, <1>3, FlagsAreBits
    <2> QED BY <2>1, <2>2, SumDoes
<1>6. Does(e, SUBC(e, loc, src, bw), loc, bw)
    <2>1. SUBC(e, loc, src, bw) =
            Sum(e, loc, dst, not, dst + not + e.sr.carry,
                is_carried(Signed(dst), Signed(not), bw), bw)
        BY DEF SUBC
    <2> HIDE DEF dst, not
    <2>2. dst + not + e.sr.carry \in Int /\ is_carried(Signed(dst), Signed(not), bw) \in 0..1
        BY <1>2, <1>3, FlagsAreBits
    <2> QED BY <2>1, <2>2, SumDoes
<1>7. Does(e, SUB(e, loc, src, bw), loc, bw)
    <2> DEFINE carried == \/ is_carried(-Signed(minus) - 1, 1, bw) = 1
                          \/ is_carried(Signed(dst), Signed(minus), bw) = 1
               carry == IF carried THEN 1 ELSE e.sr.carry
    <2>1. SUB(e, loc, src, bw) = Sum(e, loc, dst, minus, dst + minus, carry, bw)
        BY DEF SUB
    <2>2. carry \in 0..1
        BY <1>3
    <2> HIDE DEF dst, minus, carry
    <2>3. dst + minus \in Int
        BY <1>2
    <2> QED BY <2>1, <2>2, <2>3, SumDoes
<1>8. Does(e, CMP(e, loc, src, bw), loc, bw)
    <2> DEFINE result == Part(dst, bw) + Part(minus, bw)
               carry == IF is_carried(65535 - src, 1, bw) = 1 THEN 1
                        ELSE is_carried(Signed(dst), minus, bw)
    <2>1. CMP(e, loc, src, bw) =
            SetFlags(e, is_negative(result, bw), is_zero(result, bw), carry,
                     is_overflowed(minus, dst, result, bw))
        BY DEF CMP
    <2>2. carry \in 0..1
        BY <1>2, FlagsAreBits
    <2>3. Part(dst, bw) \in Int /\ Part(minus, bw) \in Int
        BY <1>2, PartIsWord, WordsAre
    <2>4. result \in Int
        BY <2>3
    <2> HIDE DEF dst, minus, carry, result
    <2>5. /\ is_negative(result, bw) \in 0..1 /\ is_zero(result, bw) \in 0..1
          /\ is_overflowed(minus, dst, result, bw) \in 0..1
        BY <2>4, FlagsAreBits
    <2> QED BY <2>1, <2>2, <2>5, FlagsDo, DoesNothing
<1> QED BY <1>4, <1>5, <1>6, <1>7, <1>8

LEMMA AluIsTyped ==
    ASSUME NEW e, IsEmulator(e), NEW i, i.opcode \in 4..15, i.bw \in Sizes,
           NEW loc, IsLoc(loc), NEW src \in Words
    PROVE  Does(e, AluI(e, i, loc, src), loc, i.bw)
<1> DEFINE bw == i.bw
           a == Part(src, bw)
           b == Part(ReadWord(e, loc), bw)
<1>1. src \in Int /\ ReadWord(e, loc) \in Int /\ bw \in Sizes
    BY ReadWordIsWord, WordsAre
<1>2. a \in Words /\ b \in Words
    BY <1>1, PartIsWord
<1>3. BitAnd(a, b) \in Words /\ BitOr(a, b) \in Words /\ BitXor(a, b) \in Words
    BY <1>2, BitwiseAreWords
<1>4. SignBit(a, bw) * SignBit(b, bw) \in 0..1
    <2>1. SignBit(a, bw) \in 0..1 /\ SignBit(b, bw) \in 0..1
        BY <1>1, <1>2, PartIsWord, WordsAre
    <2> DEFINE x == SignBit(a, bw)
               y == SignBit(b, bw)
    <2> HIDE DEF x, y
    <2>2. x \in {0, 1} /\ y \in {0, 1}
        BY <2>1 DEF x, y
    <2>3. x * y \in 0..1
        BY <2>2
    <2> QED BY <2>3 DEF x, y
<1> DEFINE f == AluI(e, i, loc, src)
<1>5. /\ i.opcode = 4 => f = Write(e, loc, src, bw)
      /\ i.opcode = 5 => f = ADD(e, loc, src, bw)
      /\ i.opcode = 6 => f = ADDC(e, loc, src, bw)
      /\ i.opcode = 7 => f = SUBC(e, loc, src, bw)
      /\ i.opcode = 8 => f = SUB(e, loc, src, bw)
      /\ i.opcode = 9 => f = CMP(e, loc, src, bw)
      /\ i.opcode = 10 => f = e
      /\ i.opcode = 11 => f = Logic(e, BitAnd(a, b), 0, bw)
      /\ i.opcode = 12 => f = Write(e, loc, b - BitAnd(a, b), bw)
      /\ i.opcode = 13 => f = Write(e, loc, BitOr(a, b), bw)
      /\ i.opcode = 14 => f = Logic(Write(e, loc, BitXor(a, b), bw), BitXor(a, b),
                                    SignBit(a, bw) * SignBit(b, bw), bw)
      /\ i.opcode = 15 => f = Logic(Write(e, loc, BitAnd(a, b), bw), BitAnd(a, b), 0, bw)
    BY DEF AluI
<1> HIDE DEF bw, a, b, f
<1>6. /\ BitAnd(a, b) \in Int /\ BitOr(a, b) \in Int /\ BitXor(a, b) \in Int
      /\ b - BitAnd(a, b) \in Int
    BY <1>2, <1>3, WordsAre
<1>7. /\ Does(e, Write(e, loc, src, bw), loc, bw)
      /\ Does(e, Write(e, loc, b - BitAnd(a, b), bw), loc, bw)
      /\ Does(e, Write(e, loc, BitAnd(a, b), bw), loc, bw)
      /\ Does(e, Write(e, loc, BitOr(a, b), bw), loc, bw)
      /\ Does(e, Write(e, loc, BitXor(a, b), bw), loc, bw)
    BY <1>1, <1>6, WriteDoes
<1>8. /\ Does(e, Logic(e, BitAnd(a, b), 0, bw), loc, bw)
      /\ Does(e, Logic(Write(e, loc, BitXor(a, b), bw), BitXor(a, b),
                       SignBit(a, bw) * SignBit(b, bw), bw), loc, bw)
      /\ Does(e, Logic(Write(e, loc, BitAnd(a, b), bw), BitAnd(a, b), 0, bw), loc, bw)
    <2> DEFINE v == SignBit(a, bw) * SignBit(b, bw)
    <2>1. v \in 0..1 /\ 0 \in 0..1
        BY <1>4
    <2> HIDE DEF v
    <2>2. Does(e, Logic(e, BitAnd(a, b), 0, bw), loc, bw)
        BY <1>1, <1>6, <2>1, DoesNothing, LogicDoes
    <2>3. Does(e, Logic(Write(e, loc, BitXor(a, b), bw), BitXor(a, b), v, bw), loc, bw)
        BY <1>1, <1>6, <1>7, <2>1, LogicDoes
    <2>4. Does(e, Logic(Write(e, loc, BitAnd(a, b), bw), BitAnd(a, b), 0, bw), loc, bw)
        BY <1>1, <1>6, <1>7, <2>1, LogicDoes
    <2> QED BY <2>2, <2>3, <2>4 DEF v
<1>9. /\ Does(e, ADD(e, loc, src, bw), loc, bw) /\ Does(e, ADDC(e, loc, src, bw), loc, bw)
      /\ Does(e, SUBC(e, loc, src, bw), loc, bw) /\ Does(e, SUB(e, loc, src, bw), loc, bw)
      /\ Does(e, CMP(e, loc, src, bw), loc, bw) /\ Does(e, e, loc, bw)
    BY <1>1, ArithmeticDoes, DoesNothing
<1>10. i.opcode \in {4, 5, 6, 7, 8, 9, 10, 11, 12, 13, 14, 15}
    OBVIOUS
<1>11. Does(e, f, loc, bw)
    BY <1>5, <1>7, <1>8, <1>9, <1>10, Zenon
<1> QED BY <1>11 DEF bw, f

-----------------------------------------------------------------------------
(* Decoding operands                                                       *)

\* Between e and f pc moves by k, of the other registers at most those in
\* regs change, and nothing else does.
Reads(e, f, k, regs) ==
    /\ IsEmulator(f) /\ f.mem = e.mem /\ f.sr = e.sr /\ SameMode(e, f)
    /\ \A n \in 0..15 : n # PC /\ n \notin regs => f.r[n] = e.r[n]
    /\ PC \notin regs => f.r[PC] = U16(e.r[PC] + k)

LEMMA ReadsNothing ==
    ASSUME NEW e, IsEmulator(e)
    PROVE  Reads(e, e, 0, {})
<1>1. PC \in 0..15
    BY DEF PC
<1>2. e.r[PC] \in Words
    BY <1>1, RegIsWord
<1>3. U16(e.r[PC]) = e.r[PC] /\ e.r[PC] + 0 = e.r[PC]
    BY <1>2, U16OfWord, WordsAre
<1> QED BY <1>3 DEF Reads, SameMode

LEMMA ReadsMore ==
    ASSUME NEW e, NEW f, NEW k, NEW A, Reads(e, f, k, A), NEW B, A \subseteq B
    PROVE  Reads(e, f, k, B)
BY DEF Reads

LEMMA ReadsInTurn ==
    ASSUME NEW e, IsEmulator(e), NEW f, NEW g, NEW k \in Nat, NEW l \in Nat, NEW A, NEW B,
           Reads(e, f, k, A), Reads(f, g, l, B)
    PROVE  Reads(e, g, k + l, A \cup B)
<1>1. ASSUME PC \notin A \cup B
      PROVE  g.r[PC] = U16(e.r[PC] + (k + l))
    <2> DEFINE x == e.r[PC]
    <2>1. f.r[PC] = U16(x + k) /\ g.r[PC] = U16(f.r[PC] + l)
        BY <1>1 DEF Reads
    <2>2. x \in Words
        BY RegIsWord DEF PC
    <2> HIDE DEF x
    <2>3. x \in Nat
        BY <2>2, WordsAre
    <2>4. U16(U16(x + k) + l) = U16(x + (k + l))
        BY <2>3 DEF U16
    <2> QED BY <2>1, <2>4 DEF x
<1>2. /\ IsEmulator(g) /\ g.mem = e.mem /\ g.sr = e.sr /\ SameMode(e, g)
      /\ \A n \in 0..15 : n # PC /\ n \notin A \cup B => g.r[n] = e.r[n]
    BY DEF Reads, SameMode
<1> QED BY <1>1, <1>2 DEF Reads

LEMMA FetchReads ==
    ASSUME NEW e, IsEmulator(e)
    PROVE  Reads(e, AfterFetch(e), 2, {}) /\ Fetched(e) \in Words
<1> DEFINE w == U16(e.r[PC] + 2)
           f == SetReg(e, PC, w)
<1>1. PC \in 0..15
    BY DEF PC
<1>2. w \in Words
    BY <1>1, RegIsWord, U16IsWord, WordsAre
<1>3. f = AfterFetch(e)
    BY DEF AfterFetch
<1>4. /\ IsEmulator(f) /\ f.r = [e.r EXCEPT ![PC] = w] /\ f.mem = e.mem
      /\ f.sr = e.sr /\ SameMode(e, f)
    BY <1>1, <1>2, SetRegIs
<1> HIDE DEF f
<1>5. Reads(e, f, 2, {})
    BY <1>1, <1>4 DEF Reads, IsEmulator
<1>6. Fetched(e) \in Words
    BY MemWordIsWord DEF Fetched
<1> QED BY <1>3, <1>5, <1>6

\* A register gets a word and nothing else happens.
LEMMA SetRegReads ==
    ASSUME NEW e, IsEmulator(e), NEW n \in 0..15, NEW w \in Words
    PROVE  Reads(e, SetReg(e, n, w), 0, {n})
<1> DEFINE f == SetReg(e, n, w)
<1>1. /\ IsEmulator(f) /\ f.r = [e.r EXCEPT ![n] = w] /\ f.mem = e.mem
      /\ f.sr = e.sr /\ SameMode(e, f)
    BY SetRegIs
<1> HIDE DEF f
<1>2. \A m \in 0..15 : m # n => f.r[m] = e.r[m]
    BY <1>1 DEF IsEmulator
<1>3. PC \notin {n} => f.r[PC] = U16(e.r[PC] + 0)
    BY <1>2, ReadsNothing DEF PC, Reads
<1> QED BY <1>1, <1>2, <1>3 DEF f, Reads

LEMMA StatusWord ==
    ASSUME NEW e, IsEmulator(e)
    PROVE  sr_to_value(e) \in Words /\ sr_to_value(e) <= 511
<1>1. /\ e.sr.overflow \in 0..1 /\ e.sr.SCG1 \in 0..1 /\ e.sr.SCG0 \in 0..1
      /\ e.sr.OSCOFF \in 0..1 /\ e.sr.CPUOFF \in 0..1 /\ e.sr.GIE \in 0..1
      /\ e.sr.negative \in 0..1 /\ e.sr.zero \in 0..1 /\ e.sr.carry \in 0..1
    BY DEF IsEmulator, StatusBits
<1>2. sr_to_value(e) \in Nat /\ sr_to_value(e) <= 511
    BY <1>1, SMTT(60) DEF sr_to_value
<1> QED BY <1>2, WordsAre

LEMMA PointerReads ==
    ASSUME NEW e, IsEmulator(e), NEW n \in 0..15
    PROVE  Reads(e, get_reg_ptr(e, n), 0, {SR})
<1>1. CASE n = SR
    BY <1>1, SetRegReads, StatusWord DEF get_reg_ptr
<1>2. CASE n # SR
    BY <1>2, ReadsNothing, ReadsMore DEF get_reg_ptr
<1> QED BY <1>1, <1>2

LEMMA IncrementReads ==
    ASSUME NEW e, IsEmulator(e), NEW n \in 0..15, NEW bw
    PROVE  Reads(e, Increment(e, n, bw), 0, {n})
<1>1. U16(e.r[n] + (IF bw = "WORD" THEN 2 ELSE 1)) \in Words
    BY RegIsWord, U16IsWord, WordsAre
<1> QED BY <1>1, SetRegReads DEF Increment

LEMMA ClearReads ==
    ASSUME NEW e, IsEmulator(e), NEW n \in 0..15, NEW bw
    PROVE  /\ Reads(e, ClearUpper(e, n, bw), 0, {n})
           /\ bw = "BYTE" => ClearUpper(e, n, bw).r[n] <= 255
<1>1. CASE bw = "BYTE"
    <2> DEFINE w == U8(e.r[n])
               f == SetReg(e, n, w)
    <2>1. ClearUpper(e, n, bw) = f
        BY <1>1 DEF ClearUpper
    <2>2. w \in 0..255
        BY RegIsWord, U8IsByte, WordsAre
    <2> HIDE DEF w
    <2>3. w \in Words /\ w <= 255
        BY <2>2, WordsAre
    <2>4. f.r = [e.r EXCEPT ![n] = w]
        BY <2>3, SetRegIs
    <2>5. Reads(e, f, 0, {n})
        BY <2>3, SetRegReads
    <2> HIDE DEF f
    <2> QED BY <2>1, <2>3, <2>4, <2>5 DEF IsEmulator
<1>2. CASE bw # "BYTE"
    BY <1>2, ReadsNothing, ReadsMore DEF ClearUpper
<1> QED BY <1>1, <1>2

LEMMA ConstantIsWord ==
    ASSUME NEW source, NEW mode \in 0..3
    PROVE  run_constant_generator(source, mode) \in Words
<1>1. 4 \in Words /\ 8 \in Words /\ 0 \in Words /\ 1 \in Words /\ 2 \in Words /\ 65535 \in Words
    BY WordsAre
<1>2. <<0, 1, 2, 65535>>[mode + 1] \in {0, 1, 2, 65535}
    OBVIOUS
<1> QED BY <1>1, <1>2 DEF run_constant_generator

\* The fields of a double operand instruction.
IsFieldsI(i) ==
    /\ i.opcode \in 0..15 /\ i.source \in 0..15 /\ i.destination \in 0..15
    /\ i.as \in 0..3 /\ i.ad \in 0..1 /\ i.bw \in Sizes

LEMMA FieldsIAre ==
    ASSUME NEW w \in Words
    PROVE  IsFieldsI(FieldsI(w)) /\ FieldsI(w).opcode = w \div 4096
<1>1. w \in Nat /\ w <= 65535
    BY WordsAre
<1>2. /\ w \div 4096 \in 0..15 /\ (w \div 256) % 16 \in 0..15 /\ w % 16 \in 0..15
      /\ (w \div 16) % 4 \in 0..3 /\ (w \div 128) % 2 \in 0..1
    BY <1>1
<1>3. (IF (w \div 64) % 2 = 0 THEN "WORD" ELSE "BYTE") \in Sizes
    BY DEF Sizes
<1> QED BY <1>2, <1>3 DEF FieldsI, IsFieldsI

\* The bytes of the words that follow an instruction for an operand in mode
\* mode of register n.
WordsOf(n, mode) ==
    IF ~constant_generator_active(n, mode) /\ (mode = 1 \/ (mode = 3 /\ n = PC)) THEN 2 ELSE 0

\* The registers that decoding a source operand may increment.
Incremented(i, dis) == IF dis THEN {} ELSE {i.source} \ {PC}

LEMMA SourceReads ==
    ASSUME NEW e, IsEmulator(e), NEW i, IsFieldsI(i), NEW dis \in BOOLEAN
    PROVE  /\ Reads(e, SourceI(e, i, dis).e, WordsOf(i.source, i.as), Incremented(i, dis))
           /\ SourceI(e, i, dis).value \in Words
<1> DEFINE o == SourceI(e, i, dis)
           cg == constant_generator_active(i.source, i.as)
           f == AfterFetch(e)
<1>0. i.source \in 0..15 /\ i.as \in 0..3
    BY DEF IsFieldsI
<1>1. /\ Reads(e, e, 0, {}) /\ Reads(e, f, 2, {}) /\ Fetched(e) \in Words /\ IsEmulator(f)
    BY ReadsNothing, FetchReads DEF Reads
<1>2. CASE cg
    <2>1. o.e = e /\ o.value = run_constant_generator(i.source, i.as)
        BY <1>2 DEF SourceI
    <2>2. WordsOf(i.source, i.as) = 0
        BY <1>2 DEF WordsOf
    <2>3. o.value \in Words
        BY <1>0, <2>1, ConstantIsWord
    <2> QED BY <1>1, <2>1, <2>2, <2>3, ReadsMore
<1>3. CASE ~cg /\ i.as = 0
    <2>1. o.e = e /\ o.value = e.r[i.source]
        BY <1>3 DEF SourceI
    <2>2. WordsOf(i.source, i.as) = 0
        BY <1>3 DEF WordsOf
    <2> QED BY <1>0, <1>1, <2>1, <2>2, ReadsMore, RegIsWord
<1>4. CASE ~cg /\ i.as = 1
    <2> DEFINE base == CASE i.source = PC -> f.r[PC] - (IF i.ad = 0 THEN 2 ELSE 4)
                         [] i.source = SR -> 0
                         [] OTHER -> f.r[i.source]
    <2>1. o.e = f /\ o.value = MemWord(f, U16(base + Fetched(e)))
        BY <1>4 DEF SourceI
    <2>2. WordsOf(i.source, i.as) = 2
        BY <1>4 DEF WordsOf
    <2>3. o.value \in Words
        BY <1>1, <2>1, MemWordIsWord
    <2> QED BY <1>1, <2>1, <2>2, <2>3, ReadsMore
<1>5. CASE ~cg /\ i.as = 2
    <2>1. o.e = e /\ o.value = MemWord(e, e.r[i.source])
        BY <1>5 DEF SourceI
    <2>2. WordsOf(i.source, i.as) = 0
        BY <1>5 DEF WordsOf
    <2> QED BY <1>1, <2>1, <2>2, ReadsMore, MemWordIsWord
<1>6. CASE ~cg /\ i.as = 3 /\ i.source = PC
    <2>1. o.e = f /\ o.value = Fetched(e)
        BY <1>6 DEF SourceI
    <2>2. WordsOf(i.source, i.as) = 2
        BY <1>6 DEF WordsOf
    <2> QED BY <1>1, <2>1, <2>2, ReadsMore
<1>7. CASE ~cg /\ i.as = 3 /\ i.source # PC
    <2>1. /\ o.e = IF dis THEN e ELSE Increment(e, i.source, i.bw)
          /\ o.value = MemWord(e, e.r[i.source])
        BY <1>7 DEF SourceI
    <2>2. WordsOf(i.source, i.as) = 0
        BY <1>7 DEF WordsOf
    <2>3. Reads(e, Increment(e, i.source, i.bw), 0, {i.source})
        BY <1>0, IncrementReads
    <2>4. Reads(e, o.e, 0, Incremented(i, dis))
        BY <1>1, <1>7, <2>1, <2>3 DEF Incremented
    <2>5. o.value \in Words
        BY <2>1, MemWordIsWord
    <2> QED BY <2>2, <2>4, <2>5
<1> QED BY <1>0, <1>2, <1>3, <1>4, <1>5, <1>6, <1>7

\* The words that follow a double operand instruction, and the registers that
\* decoding its operands may change.
WordsOfI(i) == WordsOf(i.source, i.as) + (IF i.ad = 1 THEN 2 ELSE 0)
ChangedBy(i, dis) ==
    Incremented(i, dis) \cup (IF i.ad = 0 /\ ~dis THEN {i.destination} ELSE {})

LEMMA DestinationIsLoc ==
    ASSUME NEW e, IsEmulator(e), NEW i, IsFieldsI(i), NEW offset \in Words
    PROVE  IsLoc(DestinationI(e, i, offset)) /\ DestinationI(e, i, offset).kind = "mem"
<1>1. offset \in Int /\ e.r[PC] \in Int /\ e.r[i.destination] \in Int
    BY RegIsWord, WordsAre DEF IsFieldsI, PC
<1>2. /\ e.r[PC] + offset - 2 \in Int /\ e.r[i.destination] + offset \in Int
    BY <1>1
<1>3. \A x : InMem(x).kind = "mem"
    BY DEF InMem
<1>4. \/ DestinationI(e, i, offset) = InMem(e.r[PC] + offset - 2)
      \/ DestinationI(e, i, offset) = InMem(offset)
      \/ DestinationI(e, i, offset) = InMem(e.r[i.destination] + offset)
    BY DEF DestinationI
<1> QED BY <1>1, <1>2, <1>3, <1>4, LocsAre

LEMMA OperandsRead ==
    ASSUME NEW e, IsEmulator(e), NEW i, IsFieldsI(i), NEW dis \in BOOLEAN
    PROVE  LET o == OperandsI(e, i, dis) IN
           /\ Reads(e, o.e, WordsOfI(i), ChangedBy(i, dis))
           /\ o.value \in Words /\ IsLoc(o.loc)
           /\ i.ad = 0 => o.loc = InReg(i.destination)
           /\ i.ad = 1 => o.loc.kind = "mem"
           /\ i.ad = 0 /\ ~dis /\ i.bw = "BYTE" => o.e.r[i.destination] <= 255
<1> DEFINE o == OperandsI(e, i, dis)
           k == WordsOf(i.source, i.as)
           A == Incremented(i, dis)
<1>1. k \in Nat /\ 2 \in Nat /\ 0 \in Nat /\ k + 0 = k /\ 2 + k = k + 2 /\ A \cup {} = A /\ {} \cup A = A
    BY DEF WordsOf
<1>2. i.source \in 0..15 /\ i.destination \in 0..15 /\ i.ad \in {0, 1}
    BY DEF IsFieldsI
<1>3. CASE i.ad = 0
    <2> DEFINE s == SourceI(e, i, dis)
               c == ClearUpper(s.e, i.destination, i.bw)
    <2>1. /\ o.value = s.value /\ o.loc = InReg(i.destination)
          /\ o.e = IF dis THEN s.e ELSE c
        BY <1>3 DEF OperandsI
    <2>2. Reads(e, s.e, k, A) /\ s.value \in Words
        BY SourceReads
    <2>3. IsEmulator(s.e)
        BY <2>2 DEF Reads
    <2>4. Reads(s.e, c, 0, {i.destination}) /\ (i.bw = "BYTE" => c.r[i.destination] <= 255)
        BY <1>2, <2>3, ClearReads
    <2> HIDE DEF s, c
    <2>5. Reads(e, c, k, A \cup {i.destination})
        BY <1>1, <2>2, <2>4, ReadsInTurn
    <2>6. /\ ~dis => ChangedBy(i, dis) = A \cup {i.destination}
          /\ dis => ChangedBy(i, dis) = A
        BY <1>3 DEF ChangedBy
    <2>7. WordsOfI(i) = k
        BY <1>1, <1>3 DEF WordsOfI
    <2> HIDE DEF o, k, A
    <2>8. Reads(e, o.e, WordsOfI(i), ChangedBy(i, dis))
        BY <2>1, <2>2, <2>5, <2>6, <2>7
    <2>9. IsLoc(o.loc)
        BY <1>2, <2>1, LocsAre
    <2> QED BY <1>3, <2>1, <2>2, <2>4, <2>8, <2>9 DEF o
<1>4. CASE i.ad = 1 /\ i.as \in {0, 2}
    <2> DEFINE f == AfterFetch(e)
               s == SourceI(f, i, dis)
               d == DestinationI(s.e, i, Fetched(e))
    <2>1. o.value = s.value /\ o.loc = d /\ o.e = s.e
        BY <1>4 DEF OperandsI
    <2>2. Reads(e, f, 2, {}) /\ IsEmulator(f) /\ Fetched(e) \in Words
        BY FetchReads DEF Reads
    <2>3. Reads(f, s.e, k, A) /\ s.value \in Words
        BY <2>2, SourceReads
    <2>4. IsEmulator(s.e)
        BY <2>3 DEF Reads
    <2>5. IsLoc(d) /\ d.kind = "mem"
        BY <2>2, <2>4, DestinationIsLoc
    <2> HIDE DEF f, s, d, k, A
    <2>6. Reads(e, s.e, k + 2, A)
        BY <1>1, <2>2, <2>3, ReadsInTurn
    <2>7. ChangedBy(i, dis) = A /\ WordsOfI(i) = k + 2
        BY <1>1, <1>4 DEF ChangedBy, WordsOfI, A, k
    <2> HIDE DEF o
    <2> QED BY <1>4, <2>1, <2>3, <2>5, <2>6, <2>7 DEF o
<1>5. CASE i.ad = 1 /\ i.as \notin {0, 2}
    <2> DEFINE s == SourceI(e, i, dis)
               f == AfterFetch(s.e)
               d == DestinationI(f, i, Fetched(s.e))
    <2>1. o.value = s.value /\ o.loc = d /\ o.e = f
        BY <1>5 DEF OperandsI
    <2>2. Reads(e, s.e, k, A) /\ s.value \in Words
        BY SourceReads
    <2>3. IsEmulator(s.e)
        BY <2>2 DEF Reads
    <2>4. Reads(s.e, f, 2, {}) /\ IsEmulator(f) /\ Fetched(s.e) \in Words
        BY <2>3, FetchReads DEF Reads
    <2>5. IsLoc(d) /\ d.kind = "mem"
        BY <2>4, DestinationIsLoc
    <2> HIDE DEF f, s, d, k, A
    <2>6. Reads(e, f, k + 2, A)
        BY <1>1, <2>2, <2>4, ReadsInTurn
    <2>7. ChangedBy(i, dis) = A /\ WordsOfI(i) = k + 2
        BY <1>1, <1>5 DEF ChangedBy, WordsOfI, A, k
    <2> HIDE DEF o
    <2> QED BY <1>5, <2>1, <2>2, <2>5, <2>6, <2>7 DEF o
<1> QED BY <1>2, <1>3, <1>4, <1>5

-----------------------------------------------------------------------------
(* Format II                                                               *)

IsFieldsII(i) ==
    /\ i.opcode \in 0..7 /\ i.source \in 0..15 /\ i.as \in 0..3 /\ i.bw \in Sizes

LEMMA FieldsIIAre ==
    ASSUME NEW w \in Words
    PROVE  IsFieldsII(FieldsII(w))
<1>1. w \in Nat /\ w <= 65535
    BY WordsAre
<1>2. (w \div 128) % 8 \in 0..7 /\ w % 16 \in 0..15 /\ (w \div 16) % 4 \in 0..3
    BY <1>1
<1>3. (IF (w \div 64) % 2 = 0 THEN "WORD" ELSE "BYTE") \in Sizes
    BY DEF Sizes
<1> QED BY <1>2, <1>3 DEF FieldsII, IsFieldsII

\* The registers that decoding a single operand may mask or increment.
TouchedII(i) == IF i.as = 0 THEN {i.source} ELSE {i.source} \ {PC}

LEMMA BogusReads ==
    ASSUME NEW e, NEW f, NEW k, NEW A, Reads(e, f, k, A), NEW v \in Words
    PROVE  Reads(e, [f EXCEPT !.bogus = v], k, A)
<1> DEFINE g == [f EXCEPT !.bogus = v]
<1>1. IsEmulator(f)
    BY DEF Reads
<1>2. IsEmulator(g) /\ g.r = f.r /\ g.mem = f.mem /\ g.sr = f.sr /\ SameMode(f, g)
    BY <1>1, SetBogusIs
<1> HIDE DEF g
<1> QED BY <1>2 DEF g, Reads, SameMode

\* The constants and the immediate, which live in bogus_reg.
LEMMA ImmediateReads ==
    ASSUME NEW e, IsEmulator(e), NEW i, IsFieldsII(i), NEW garbage,
           constant_generator_active(i.source, i.as) \/ (i.source = PC /\ i.as = 3)
    PROVE  LET o == OperandII(e, i, garbage) IN
           /\ Reads(e, o.e, WordsOf(i.source, i.as), TouchedII(i))
           /\ o.value \in Words /\ o.loc = InBogus
<1> DEFINE o == OperandII(e, i, garbage)
           v == IF i.source = PC THEN Fetched(e) ELSE run_constant_generator(i.source, i.as)
           f == IF i.source = PC THEN AfterFetch(e) ELSE e
           c == IF i.as = 0 THEN ClearUpper(f, i.source, i.bw) ELSE f
           g == [c EXCEPT !.bogus = v]
           k == WordsOf(i.source, i.as)
<1>1. o.value = v /\ o.loc = InBogus /\ o.e = g
    BY DEF OperandII
<1>2. i.source \in 0..15 /\ i.as \in 0..3
    BY DEF IsFieldsII
<1>3. v \in Words
    BY <1>2, FetchReads, ConstantIsWord
<1>4. Reads(e, f, k, {}) /\ (i.source = PC => i.as # 0)
    <2>1. CASE i.source = PC
        <3>1. i.as = 3 /\ k = 2
            BY <2>1 DEF constant_generator_active, PC, SR, WordsOf
        <3> QED BY <2>1, <3>1, FetchReads
    <2>2. CASE i.source # PC
        <3>1. k = 0
            BY <2>2 DEF WordsOf
        <3> QED BY <2>2, <3>1, ReadsNothing
    <2> QED BY <2>1, <2>2
<1>5. Reads(e, c, k, TouchedII(i))
    <2>1. IsEmulator(f)
        BY <1>4 DEF Reads
    <2> HIDE DEF f
    <2>2. Reads(f, ClearUpper(f, i.source, i.bw), 0, {i.source})
        BY <1>2, <2>1, ClearReads
    <2>3. k \in Nat /\ 0 \in Nat /\ k + 0 = k /\ {} \cup {i.source} = {i.source}
        BY DEF WordsOf
    <2> HIDE DEF k
    <2>4. Reads(e, ClearUpper(f, i.source, i.bw), k, {i.source})
        BY <1>4, <2>2, <2>3, ReadsInTurn
    <2>5. Reads(e, f, k, TouchedII(i))
        BY <1>4, ReadsMore
    <2> QED BY <2>4, <2>5 DEF TouchedII
<1> HIDE DEF v, c, k
<1>6. Reads(e, g, k, TouchedII(i))
    BY <1>3, <1>5, BogusReads
<1> HIDE DEF o, g
<1> QED BY <1>1, <1>3, <1>6 DEF o, k

LEMMA OperandReads ==
    ASSUME NEW e, IsEmulator(e), NEW i, IsFieldsII(i), NEW garbage \in Words
    PROVE  LET o == OperandII(e, i, garbage) IN
           /\ Reads(e, o.e, WordsOf(i.source, i.as), TouchedII(i))
           /\ o.value \in Words /\ IsLoc(o.loc)
           /\ o.loc.kind = "reg" => i.as = 0 /\ o.loc.at = i.source
<1> DEFINE o == OperandII(e, i, garbage)
           cg == constant_generator_active(i.source, i.as) \/ (i.source = PC /\ i.as = 3)
           f == AfterFetch(e)
           k == WordsOf(i.source, i.as)
           T == TouchedII(i)
           n == i.source
<1>0. n \in 0..15 /\ i.as \in 0..3 /\ e.r[n] \in Words
    BY RegIsWord DEF IsFieldsII
<1>1. /\ Reads(e, e, 0, {}) /\ Reads(e, f, 2, {}) /\ Fetched(e) \in Words /\ IsEmulator(f)
    BY ReadsNothing, FetchReads DEF Reads
<1>2. \A m : InMem(m).kind = "mem" /\ InBogus.kind = "bogus"
    BY DEF InMem, InBogus
<1>3. CASE cg
    BY <1>2, <1>3, ImmediateReads, LocsAre
<1>4. CASE ~cg /\ i.as = 0
    <2>1. o.value = e.r[n] /\ o.loc = InReg(n) /\ o.e = ClearUpper(e, n, i.bw)
        BY <1>4 DEF OperandII
    <2>2. k = 0 /\ T = {n}
        BY <1>4 DEF WordsOf, TouchedII
    <2>3. IsLoc(o.loc) /\ o.loc.at = n
        BY <1>0, <2>1, LocsAre DEF InReg
    <2> HIDE DEF k, T, n, o
    <2>4. Reads(e, o.e, k, T)
        BY <1>0, <2>1, <2>2, ClearReads
    <2> QED BY <1>0, <1>4, <2>1, <2>3, <2>4 DEF o, k, T, n
<1>5. CASE ~cg /\ i.as = 1
    <2> DEFINE addr == CASE n = PC -> U16(f.r[PC] + Fetched(e))
                         [] n = SR -> Fetched(e)
                         [] OTHER -> U16(f.r[n] + Fetched(e))
    <2>1. /\ o.value = IF n = PC THEN garbage ELSE MemWord(f, addr)
          /\ o.loc = InMem(addr) /\ o.e = f
        BY <1>5 DEF OperandII
    <2>2. k = 2
        BY <1>5 DEF WordsOf
    <2>3. f.r[PC] \in Int /\ f.r[n] \in Int /\ Fetched(e) \in Int
        BY <1>0, <1>1, RegIsWord, WordsAre DEF PC
    <2>4. addr \in Words
        BY <1>1, <2>3, U16IsWord
    <2> HIDE DEF addr
    <2>5. IsLoc(InMem(addr))
        BY <2>4, LocsAre, WordsAre
    <2>6. MemWord(f, addr) \in Words
        BY <1>1, MemWordIsWord
    <2> HIDE DEF k, T, o
    <2>7. Reads(e, o.e, k, T)
        BY <1>1, <2>1, <2>2, ReadsMore
    <2> QED BY <1>2, <2>1, <2>5, <2>6, <2>7 DEF o, k, T
<1>6. CASE ~cg /\ i.as \in {2, 3}
    <2>1. /\ o.value = MemWord(e, e.r[n]) /\ o.loc = InMem(e.r[n])
          /\ o.e = IF i.as = 2 THEN e ELSE Increment(e, n, i.bw)
        BY <1>6 DEF OperandII
    <2>2. k = 0 /\ (i.as = 3 => T = {n})
        BY <1>6 DEF WordsOf, TouchedII
    <2>3. MemWord(e, e.r[n]) \in Words /\ IsLoc(InMem(e.r[n]))
        BY <1>0, MemWordIsWord, LocsAre, WordsAre
    <2>4. Reads(e, Increment(e, n, i.bw), 0, {n})
        BY <1>0, IncrementReads
    <2> HIDE DEF k, T, n, o
    <2>5. Reads(e, o.e, k, T)
        BY <1>1, <1>6, <2>1, <2>2, <2>4, ReadsMore
    <2> QED BY <1>2, <2>1, <2>3, <2>5 DEF o, k, T, n
<1> QED BY <1>0, <1>3, <1>4, <1>5, <1>6

LEMMA WriteWordDoes ==
    ASSUME NEW e, IsEmulator(e), NEW loc, IsLoc(loc), NEW w \in Words
    PROVE  Does(e, WriteWord(e, loc, w), loc, "WORD")
BY WriteWordIs DEF Does

LEMMA RotatedDoes ==
    ASSUME NEW e, NEW w, NEW loc, IsLoc(loc), Does(e, w, loc, "WORD"), NEW carry \in 0..1,
           NEW bw \in Sizes
    PROVE  Does(e, Rotated(e, loc, w, carry, bw), loc, "WORD")
<1> DEFINE result == ReadWord(w, loc)
<1>1. result \in Int
    BY ReadWordIsWord, WordsAre DEF Does
<1>2. Rotated(e, loc, w, carry, bw) =
        SetFlags(w, is_negative(result, bw), is_zero(result, bw), carry, 0)
    BY DEF Rotated
<1> HIDE DEF result
<1>3. is_negative(result, bw) \in 0..1 /\ is_zero(result, bw) \in 0..1 /\ 0 \in 0..1
    BY <1>1, FlagsAreBits
<1> QED BY <1>2, <1>3, FlagsDo

LEMMA RRCDoes ==
    ASSUME NEW e, IsEmulator(e), NEW loc, IsLoc(loc), NEW bw \in Sizes
    PROVE  Does(e, RRC(e, loc, bw), loc, "WORD")
<1> DEFINE x == Part(ReadWord(e, loc), bw)
           y == x \div 2 + Half(bw) * e.sr.carry
           w == Write(e, loc, y, bw)
<1>1. RRC(e, loc, bw) = Rotated(e, loc, w, x % 2, bw)
    BY DEF RRC
<1>2. x \in Words
    BY ReadWordIsWord, PartIsWord, WordsAre
<1> HIDE DEF x
<1>3. x \in Nat /\ x % 2 \in 0..1 /\ x \div 2 \in Int
    BY <1>2, WordsAre
<1>4. Half(bw) \in Int /\ e.sr.carry \in Int
    BY StatusIsBit DEF Half
<1>5. y \in Int
    BY <1>3, <1>4
<1> HIDE DEF y
<1>6. Does(e, w, loc, "WORD")
    BY <1>5, WriteDoes DEF Does, OnlyAt
<1> HIDE DEF w
<1> QED BY <1>1, <1>3, <1>6, RotatedDoes

LEMMA RRADoes ==
    ASSUME NEW e, IsEmulator(e), NEW loc, IsLoc(loc), NEW bw \in Sizes
    PROVE  Does(e, RRA(e, loc, bw), loc, "WORD")
<1> DEFINE x == ReadWord(e, loc)
           shifted == IF bw = "WORD" THEN x \div 2 + 32768 * (x \div 32768)
                      ELSE IF x \div 128 # 0 THEN BitOr(x \div 2, 128) ELSE x \div 2
           w == WriteWord(e, loc, shifted)
<1>1. RRA(e, loc, bw) = Rotated(e, loc, w, x % 2, bw)
    BY DEF RRA
<1>2. x \in Words
    BY ReadWordIsWord
<1> HIDE DEF x
<1>3. /\ x \in Nat /\ x % 2 \in 0..1 /\ x \div 2 \in Nat /\ x \div 2 <= 32767
      /\ x \div 32768 \in 0..1
    BY <1>2, WordsAre
<1>4. x \div 2 + 32768 * (x \div 32768) \in Words /\ x \div 2 \in Words /\ 128 \in Words
    BY <1>3, WordsAre
<1>5. BitOr(x \div 2, 128) \in Words
    BY <1>4, BitwiseAreWords
<1>6. shifted \in Words
    BY <1>4, <1>5
<1> HIDE DEF shifted
<1>7. Does(e, w, loc, "WORD")
    BY <1>6, WriteWordDoes
<1> HIDE DEF w
<1> QED BY <1>1, <1>3, <1>7, RotatedDoes

LEMMA SWPBDoes ==
    ASSUME NEW e, IsEmulator(e), NEW loc, IsLoc(loc)
    PROVE  Does(e, SWPB(e, loc), loc, "WORD")
<1> DEFINE x == ReadWord(e, loc)
           y == 256 * (x % 256) + x \div 256
<1>1. SWPB(e, loc) = WriteWord(e, loc, y)
    BY DEF SWPB
<1>2. x \in Words
    BY ReadWordIsWord
<1> HIDE DEF x
<1> DEFINE l == x % 256
           h == x \div 256
<1>3. l \in Nat /\ l <= 255 /\ h \in Nat /\ h <= 255 /\ y = 256 * l + h
    BY <1>2, WordsAre
<1> HIDE DEF l, h
<1>4. 256 * l + h \in Words
    BY <1>3, WordsAre
<1> QED BY <1>1, <1>3, <1>4, WriteWordDoes

LEMMA SXTDoes ==
    ASSUME NEW e, IsEmulator(e), NEW loc, IsLoc(loc)
    PROVE  Does(e, SXT(e, loc), loc, "WORD")
<1> DEFINE x == U8(ReadWord(e, loc))
           result == IF x >= 128 THEN 65280 + x ELSE x
           w == WriteWord(e, loc, result)
<1>1. SXT(e, loc) = Logic(w, result, 0, "WORD")
    BY DEF SXT
<1>2. x \in 0..255
    BY ReadWordIsWord, U8IsByte, WordsAre
<1> HIDE DEF x
<1>3. result \in Nat /\ result <= 65535
    BY <1>2
<1> HIDE DEF result
<1>4. result \in Words /\ result \in Int /\ 0 \in 0..1 /\ "WORD" \in Sizes
    BY <1>3, WordsAre DEF Sizes
<1>5. Does(e, w, loc, "WORD")
    BY <1>4, WriteWordDoes
<1> HIDE DEF w
<1> QED BY <1>1, <1>4, <1>5, LogicDoes

LEMMA PushedIs ==
    ASSUME NEW e, IsEmulator(e)
    PROVE  /\ IsEmulator(Pushed(e)) /\ Pushed(e).r[SP] \in Words
           /\ Pushed(e).r[PC] = e.r[PC] /\ Pushed(e).r[PC] \in Words
<1>1. SP \in 0..15 /\ PC \in 0..15 /\ PC # SP
    BY DEF SP, PC
<1>2. U16(e.r[SP] - 2) \in Words
    BY <1>1, RegIsWord, U16IsWord, WordsAre
<1> DEFINE f == Pushed(e)
<1>3. IsEmulator(f) /\ f.r = [e.r EXCEPT ![SP] = U16(e.r[SP] - 2)]
    BY <1>1, <1>2, SetRegIs DEF Pushed
<1> HIDE DEF f
<1> QED BY <1>1, <1>3, RegIsWord DEF f, IsEmulator

LEMMA PUSHIs ==
    ASSUME NEW e, IsEmulator(e), NEW value \in Words, NEW bw
    PROVE  IsEmulator(PUSH(e, value, bw)) /\ PUSH(e, value, bw).r[PC] = e.r[PC]
<1> DEFINE p == Pushed(e)
           at == p.r[SP]
<1>1. IsEmulator(p) /\ at \in Words /\ p.r[PC] = e.r[PC]
    BY PushedIs
<1>2. PUSH(e, value, bw) =
        IF bw = "WORD" THEN SetMemWord(p, at, value) ELSE SetByte(p, at, U8(value))
    BY DEF PUSH
<1>3. U8(value) \in 0..255
    <2>1. value \in Int
        BY WordsAre
    <2> HIDE DEF p, at
    <2> QED BY <2>1, U8IsByte
<1> HIDE DEF at
<1> HIDE DEF p
<1>4. IsEmulator(SetMemWord(p, at, value)) /\ SetMemWord(p, at, value).r = p.r
    BY <1>1, SetMemWordIs, SMTT(60)
<1>5. IsEmulator(SetByte(p, at, U8(value))) /\ SetByte(p, at, U8(value)).r = p.r
    BY <1>1, <1>3, SetByteIs
<1> QED BY <1>1, <1>2, <1>4, <1>5

LEMMA CALLIs ==
    ASSUME NEW e, IsEmulator(e), NEW loc, IsLoc(loc)
    PROVE  IsEmulator(CALL(e, loc))
<1> DEFINE p == Pushed(e)
           s == SetMemWord(p, p.r[SP], p.r[PC])
<1>1. IsEmulator(p) /\ p.r[SP] \in Words /\ p.r[PC] \in Words
    BY PushedIs
<1>2. CALL(e, loc) = SetReg(s, PC, ReadWord(s, loc))
    BY DEF CALL
<1> HIDE DEF p
<1>3. IsEmulator(s)
    BY <1>1, SetMemWordIs
<1> HIDE DEF s
<1>4. ReadWord(s, loc) \in Words /\ PC \in 0..15
    BY <1>3, ReadWordIsWord DEF PC
<1>5. IsEmulator(SetReg(s, PC, ReadWord(s, loc)))
    BY <1>3, <1>4, SetRegIs
<1> QED BY <1>2, <1>5

-----------------------------------------------------------------------------
(* An instruction executed and an instruction shown                        *)

\* Where decode_formatI and decode_formatII start: the static copy of SR is
\* fresh if an operand is in it.
PointersI(e, i) == get_reg_ptr(get_reg_ptr(e, i.source), i.destination)

LEMMA PointersRead ==
    ASSUME NEW e, IsEmulator(e), NEW i, IsFieldsI(i)
    PROVE  Reads(e, PointersI(e, i), 0, {SR})
<1> DEFINE p == get_reg_ptr(e, i.source)
           q == get_reg_ptr(p, i.destination)
<1>1. i.source \in 0..15 /\ i.destination \in 0..15
    BY DEF IsFieldsI
<1>2. Reads(e, p, 0, {SR}) /\ IsEmulator(p)
    BY <1>1, PointerReads DEF Reads
<1> HIDE DEF p
<1>3. Reads(p, q, 0, {SR})
    BY <1>1, <1>2, PointerReads
<1> HIDE DEF q
<1>4. 0 \in Nat /\ 0 + 0 = 0 /\ {SR} \cup {SR} = {SR}
    OBVIOUS
<1>5. Reads(e, q, 0, {SR})
    BY <1>2, <1>3, <1>4, ReadsInTurn
<1> QED BY <1>5 DEF PointersI, p, q

\* What decode_formatI reads: its operands, from the state its pointers are
\* taken in.
LEMMA FormatIReads ==
    ASSUME NEW e, IsEmulator(e), NEW i, IsFieldsI(i), NEW dis \in BOOLEAN
    PROVE  LET o == OperandsI(PointersI(e, i), i, dis) IN
           /\ Reads(e, o.e, WordsOfI(i), {SR} \cup ChangedBy(i, dis))
           /\ IsEmulator(o.e) /\ o.value \in Words /\ IsLoc(o.loc)
           /\ i.ad = 0 => o.loc = InReg(i.destination)
           /\ i.ad = 1 => o.loc.kind = "mem"
           /\ i.ad = 0 /\ ~dis /\ i.bw = "BYTE" => o.e.r[i.destination] <= 255
<1> DEFINE p == PointersI(e, i)
           o == OperandsI(p, i, dis)
           k == WordsOfI(i)
           A == ChangedBy(i, dis)
<1>1. Reads(e, p, 0, {SR}) /\ IsEmulator(p)
    BY PointersRead DEF Reads
<1> HIDE DEF p
<1>2. /\ Reads(p, o.e, k, A)
      /\ o.value \in Words /\ IsLoc(o.loc)
      /\ i.ad = 0 => o.loc = InReg(i.destination)
      /\ i.ad = 1 => o.loc.kind = "mem"
      /\ i.ad = 0 /\ ~dis /\ i.bw = "BYTE" => o.e.r[i.destination] <= 255
    BY <1>1, OperandsRead
<1>3. k \in Nat /\ 0 \in Nat /\ 0 + k = k
    BY DEF WordsOfI, WordsOf
<1> HIDE DEF o, k, A
<1>4. Reads(e, o.e, k, {SR} \cup A)
    BY <1>1, <1>2, <1>3, ReadsInTurn
<1>5. IsEmulator(o.e)
    BY <1>4 DEF Reads
<1> QED BY <1>2, <1>4, <1>5 DEF o, p, k, A

LEMMA FormatIShows ==
    ASSUME NEW e, IsEmulator(e), NEW w \in Words
    PROVE  Reads(e, decode_formatI(e, w, TRUE), WordsOfI(FieldsI(w)), {SR})
<1> DEFINE i == FieldsI(w)
           o == OperandsI(PointersI(e, i), i, TRUE)
<1>1. decode_formatI(e, w, TRUE) = o.e
    BY DEF decode_formatI, PointersI
<1>2. IsFieldsI(i)
    BY FieldsIAre
<1>3. {SR} \cup ChangedBy(i, TRUE) = {SR}
    BY DEF ChangedBy, Incremented
<1>4. Reads(e, o.e, WordsOfI(i), {SR} \cup ChangedBy(i, TRUE))
    BY <1>2, FormatIReads
<1> HIDE DEF o, i
<1> QED BY <1>1, <1>3, <1>4 DEF i

LEMMA FormatIExecutes ==
    ASSUME NEW e, IsEmulator(e), NEW w \in Words, w \div 4096 \in 4..15,
           NEW dis \in BOOLEAN, ~dis
    PROVE  LET i == FieldsI(w)
               o == OperandsI(PointersI(e, i), i, dis)
               f == decode_formatI(e, w, dis)
           IN  /\ IsEmulator(f) /\ Does(o.e, f, o.loc, i.bw) /\ o.e.mem = e.mem
               /\ i.ad = 1 \/ i.destination # PC => f.r[PC] = U16(e.r[PC] + WordsOfI(i))
<1> DEFINE i == FieldsI(w)
           o == OperandsI(PointersI(e, i), i, dis)
           f == decode_formatI(e, w, dis)
<1>1. f = AluI(o.e, i, o.loc, o.value)
    BY ~dis DEF decode_formatI, PointersI
<1>2. IsFieldsI(i) /\ i.opcode \in 4..15 /\ i.bw \in Sizes
    BY FieldsIAre DEF IsFieldsI
<1> HIDE DEF i
<1>3. /\ Reads(e, o.e, WordsOfI(i), {SR} \cup ChangedBy(i, dis))
      /\ IsEmulator(o.e) /\ o.value \in Words /\ IsLoc(o.loc)
      /\ i.ad = 0 => o.loc = InReg(i.destination)
      /\ i.ad = 1 => o.loc.kind = "mem"
    BY <1>2, FormatIReads, SMTT(60)
<1> DEFINE g == o.e
           loc == o.loc
           v == o.value
<1>4. f = AluI(g, i, loc, v)
    BY <1>1
<1> HIDE DEF o, f, g, loc, v
<1>5. IsEmulator(g) /\ IsLoc(loc) /\ v \in Words
    BY <1>3 DEF g, loc, v
<1>6. Does(g, AluI(g, i, loc, v), loc, i.bw)
    BY <1>2, <1>5, AluIsTyped
<1>7. Does(g, f, loc, i.bw)
    BY <1>4, <1>6
<1>8. ASSUME i.ad = 1 \/ i.destination # PC
      PROVE  f.r[PC] = U16(e.r[PC] + WordsOfI(i))
    <2>1. PC \notin {SR} \cup ChangedBy(i, dis)
        BY <1>8, ~dis DEF ChangedBy, Incremented, PC, SR
    <2>2. g.r[PC] = U16(e.r[PC] + WordsOfI(i))
        BY <1>3, <2>1 DEF Reads, g
    <2>3. i.ad = 0 \/ i.ad = 1
        BY <1>2 DEF IsFieldsI
    <2>4. ~(loc.kind = "reg" /\ loc.at = PC)
        BY <1>3, <1>8, <2>3 DEF loc, InReg
    <2>5. f.r[PC] = g.r[PC]
        BY <1>7, <2>4 DEF Does, OnlyAt, PC
    <2> QED BY <2>2, <2>5
<1>9. IsEmulator(f) /\ g.mem = e.mem
    BY <1>3, <1>7 DEF Does, Reads, g
<1> QED BY <1>7, <1>8, <1>9 DEF i, o, f, g, loc

LEMMA FormatIIReads ==
    ASSUME NEW e, IsEmulator(e), NEW i, IsFieldsII(i), NEW garbage \in Words
    PROVE  LET o == OperandII(get_reg_ptr(e, i.source), i, garbage) IN
           /\ Reads(e, o.e, WordsOf(i.source, i.as), {SR} \cup TouchedII(i))
           /\ IsEmulator(o.e) /\ o.value \in Words /\ IsLoc(o.loc)
           /\ o.loc.kind = "reg" => i.as = 0 /\ o.loc.at = i.source
<1> DEFINE p == get_reg_ptr(e, i.source)
           o == OperandII(p, i, garbage)
           k == WordsOf(i.source, i.as)
<1>1. Reads(e, p, 0, {SR}) /\ IsEmulator(p)
    BY PointerReads DEF Reads, IsFieldsII
<1> HIDE DEF p
<1>2. /\ Reads(p, o.e, k, TouchedII(i)) /\ o.value \in Words /\ IsLoc(o.loc)
      /\ o.loc.kind = "reg" => i.as = 0 /\ o.loc.at = i.source
    BY <1>1, OperandReads
<1>3. k \in Nat /\ 0 \in Nat /\ 0 + k = k
    BY DEF WordsOf
<1> HIDE DEF o, k
<1>4. Reads(e, o.e, k, {SR} \cup TouchedII(i))
    BY <1>1, <1>2, <1>3, ReadsInTurn
<1>5. IsEmulator(o.e)
    BY <1>4 DEF Reads
<1> QED BY <1>2, <1>4, <1>5 DEF o, p, k

LEMMA FormatIIIsTyped ==
    ASSUME NEW e, IsEmulator(e), NEW w \in Words, NEW garbage \in Words, NEW dis \in BOOLEAN
    PROVE  LET i == FieldsII(w)
               f == decode_formatII(e, w, dis, garbage)
           IN  /\ IsEmulator(f)
               /\ dis => f = OperandII(get_reg_ptr(e, i.source), i, garbage).e
               /\ (dis \/ i.opcode # 5) /\ (i.source = PC => i.as # 0)
                    => f.r[PC] = U16(e.r[PC] + WordsOf(i.source, i.as))
<1> DEFINE i == FieldsII(w)
           o == OperandII(get_reg_ptr(e, i.source), i, garbage)
           f == decode_formatII(e, w, dis, garbage)
           g == o.e
           loc == o.loc
           v == o.value
           op == i.opcode
<1>1. IsFieldsII(i)
    BY FieldsIIAre
<1>2. /\ dis \/ op \in {6, 7} => f = g
      /\ ~dis /\ op = 0 => f = RRC(g, loc, i.bw)
      /\ ~dis /\ op = 1 => f = SWPB(g, loc)
      /\ ~dis /\ op = 2 => f = RRA(g, loc, i.bw)
      /\ ~dis /\ op = 3 => f = SXT(g, loc)
      /\ ~dis /\ op = 4 => f = PUSH(g, v, i.bw)
      /\ ~dis /\ op = 5 => f = CALL(g, loc)
    BY DEF decode_formatII
<1> HIDE DEF i
<1>3. /\ Reads(e, o.e, WordsOf(i.source, i.as), {SR} \cup TouchedII(i))
      /\ IsEmulator(o.e) /\ o.value \in Words /\ IsLoc(o.loc)
      /\ o.loc.kind = "reg" => i.as = 0 /\ o.loc.at = i.source
    BY <1>1, FormatIIReads
<1> HIDE DEF o, f, g, loc, v
<1>4. /\ Reads(e, g, WordsOf(i.source, i.as), {SR} \cup TouchedII(i))
      /\ IsEmulator(g) /\ v \in Words /\ IsLoc(loc)
      /\ loc.kind = "reg" => i.as = 0 /\ loc.at = i.source
    BY <1>3 DEF g, v, loc
<1>5. i.bw \in Sizes /\ op \in {0, 1, 2, 3, 4, 5, 6, 7}
    BY <1>1 DEF IsFieldsII
<1> HIDE DEF op
<1>6. /\ Does(g, g, loc, "WORD")
      /\ Does(g, RRC(g, loc, i.bw), loc, "WORD") /\ Does(g, SWPB(g, loc), loc, "WORD")
      /\ Does(g, RRA(g, loc, i.bw), loc, "WORD") /\ Does(g, SXT(g, loc), loc, "WORD")
    BY <1>4, <1>5, DoesNothing, RRCDoes, SWPBDoes, RRADoes, SXTDoes
<1>7. /\ IsEmulator(PUSH(g, v, i.bw)) /\ PUSH(g, v, i.bw).r[PC] = g.r[PC]
      /\ IsEmulator(CALL(g, loc))
    BY <1>4, PUSHIs, CALLIs
<1>8. dis \/ op \notin {4, 5} => Does(g, f, loc, "WORD")
    BY <1>2, <1>5, <1>6, Zenon
<1>9. IsEmulator(f)
    BY <1>2, <1>5, <1>7, <1>8 DEF Does
<1>10. ASSUME dis \/ op # 5, i.source = PC => i.as # 0
       PROVE  f.r[PC] = U16(e.r[PC] + WordsOf(i.source, i.as))
    <2>1. PC \notin {SR} \cup TouchedII(i)
        BY <1>10 DEF TouchedII, PC, SR
    <2>2. g.r[PC] = U16(e.r[PC] + WordsOf(i.source, i.as))
        BY <1>4, <2>1 DEF Reads
    <2>3. ~(loc.kind = "reg" /\ loc.at = PC)
        BY <1>4, <1>10
    <2>4. Does(g, f, loc, "WORD") => f.r[PC] = g.r[PC]
        BY <2>3 DEF Does, OnlyAt, PC
    <2>5. f.r[PC] = g.r[PC]
        BY <1>2, <1>7, <1>8, <1>10, <2>4
    <2> QED BY <2>2, <2>5
<1> QED BY <1>2, <1>9, <1>10 DEF i, o, f, g, op

LEMMA FormatIIIIs ==
    ASSUME NEW e, IsEmulator(e), NEW w \in Words, NEW dis \in BOOLEAN
    PROVE  LET f == decode_formatIII(e, w, dis) IN
           /\ IsEmulator(f) /\ (dis => f = e)
           /\ f.r[PC] \in {e.r[PC], U16(e.r[PC] + signed_offset(w % 1024))}
<1> DEFINE f == decode_formatIII(e, w, dis)
           x == U16(e.r[PC] + signed_offset(w % 1024))
<1>1. w % 1024 \in Int /\ PC \in 0..15
    BY WordsAre DEF PC
<1>2. signed_offset(w % 1024) \in Int
    BY <1>1 DEF signed_offset
<1>3. x \in Words
    BY <1>1, <1>2, RegIsWord, U16IsWord, WordsAre
<1>4. f = e \/ (~dis /\ f = SetReg(e, PC, x))
    BY DEF decode_formatIII
<1> HIDE DEF x
<1>5. IsEmulator(SetReg(e, PC, x)) /\ SetReg(e, PC, x).r = [e.r EXCEPT ![PC] = x]
    BY <1>1, <1>3, SetRegIs
<1>6. SetReg(e, PC, x).r[PC] = x
    BY <1>1, <1>5 DEF IsEmulator
<1>7. dis => f = e
    BY DEF decode_formatIII
<1> HIDE DEF f
<1>8. IsEmulator(f) /\ f.r[PC] \in {e.r[PC], x}
    BY <1>4, <1>5, <1>6
<1> QED BY <1>7, <1>8 DEF f, x

LEMMA Formats ==
    ASSUME NEW w \in Words
    PROVE  w \div 4096 = 0 \/ w \div 4096 = 1 \/ w \div 4096 \in {2, 3} \/ w \div 4096 \in 4..15
<1>1. w \in Nat /\ w <= 65535
    BY WordsAre
<1> DEFINE k == w \div 4096
<1>2. k \in Nat /\ k <= 15
    BY <1>1
<1> HIDE DEF k
<1>3. k = 0 \/ k = 1 \/ k \in {2, 3} \/ k \in 4..15
    BY <1>2
<1> QED BY <1>3 DEF k

\* The instruction word 0 halts the machine.
Halted(e) == [e EXCEPT !.running = FALSE, !.debug_mode = TRUE]

LEMMA DecodeByFormat ==
    ASSUME NEW e, NEW w, NEW dis, NEW garbage
    PROVE  /\ w \div 4096 = 0 => decode(e, w, dis, garbage) = Halted(e)
           /\ w \div 4096 = 1 => decode(e, w, dis, garbage) = decode_formatII(e, w, dis, garbage)
           /\ w \div 4096 \in {2, 3} => decode(e, w, dis, garbage) = decode_formatIII(e, w, dis)
           /\ w \div 4096 \in 4..15 => decode(e, w, dis, garbage) = decode_formatI(e, w, dis)
<1> DEFINE k == w \div 4096
<1>1. decode(e, w, dis, garbage) =
        CASE k = 0 -> Halted(e)
          [] k = 1 -> decode_formatII(e, w, dis, garbage)
          [] k \in {2, 3} -> decode_formatIII(e, w, dis)
          [] k \in 4..15 -> decode_formatI(e, w, dis)
    BY Zenon DEF decode, Halted
<1> HIDE DEF k
<1>2. /\ k = 0 => k # 1 /\ k \notin {2, 3} /\ k \notin 4..15
      /\ k = 1 => k \notin {2, 3} /\ k \notin 4..15
      /\ k \in {2, 3} => k \notin 4..15
    OBVIOUS
<1> QED BY <1>1, <1>2, SMTT(60) DEF k

LEMMA HaltIs ==
    ASSUME NEW e, IsEmulator(e)
    PROVE  IsEmulator(Halted(e)) /\ Halted(e).r = e.r
BY DEF IsEmulator, Halted

LEMMA DecodeIsTyped ==
    ASSUME NEW e, IsEmulator(e), NEW w \in Words, NEW dis \in BOOLEAN, NEW garbage \in Words
    PROVE  IsEmulator(decode(e, w, dis, garbage))
<1>1. IsEmulator(Halted(e))
    BY HaltIs
<1>2. IsEmulator(decode_formatII(e, w, dis, garbage))
    BY FormatIIIsTyped
<1>3. IsEmulator(decode_formatIII(e, w, dis))
    BY FormatIIIIs
<1>4. ASSUME w \div 4096 \in 4..15
      PROVE  IsEmulator(decode_formatI(e, w, dis))
    <2>1. CASE dis
        <3>1. Reads(e, decode_formatI(e, w, TRUE), WordsOfI(FieldsI(w)), {SR})
            BY FormatIShows
        <3> QED BY <2>1, <3>1 DEF Reads
    <2>2. CASE ~dis
        BY <1>4, <2>2, FormatIExecutes
    <2> QED BY <2>1, <2>2
<1> DEFINE f == decode(e, w, dis, garbage)
<1> SUFFICES IsEmulator(f)
    OBVIOUS
<1>5. /\ w \div 4096 = 0 => f = Halted(e)
      /\ w \div 4096 = 1 => f = decode_formatII(e, w, dis, garbage)
      /\ w \div 4096 \in {2, 3} => f = decode_formatIII(e, w, dis)
      /\ w \div 4096 \in 4..15 => f = decode_formatI(e, w, dis)
    BY DecodeByFormat
<1> HIDE DEF f
<1>6. w \div 4096 = 0 \/ w \div 4096 = 1 \/ w \div 4096 \in {2, 3} \/ w \div 4096 \in 4..15
    BY Formats
<1> QED BY <1>1, <1>2, <1>3, <1>4, <1>5, <1>6

LEMMA ExecuteIsTyped ==
    ASSUME NEW e, IsEmulator(e), NEW garbage \in Words
    PROVE  IsEmulator(execute(e, garbage)) /\ IsEmulator(disassemble_one(e, garbage))
<1> DEFINE f == AfterFetch(e)
           w == Fetched(e)
           yes == TRUE
           no == FALSE
<1>1. /\ execute(e, garbage) = decode(f, w, no, garbage)
      /\ disassemble_one(e, garbage) = decode(f, w, yes, garbage)
    BY DEF execute, disassemble_one
<1>2. IsEmulator(f) /\ w \in Words /\ no \in BOOLEAN /\ yes \in BOOLEAN
    BY FetchReads DEF Reads
<1> HIDE DEF f, w, yes, no
<1> QED BY <1>1, <1>2, DecodeIsTyped

LEMMA DisassembleIsTyped ==
    ASSUME NEW e, IsEmulator(e), NEW addr \in Words, NEW garbage \in Words
    PROVE  IsEmulator(disassemble(e, addr, garbage))
<1> DEFINE f == SetReg(e, PC, addr)
           g == disassemble_one(f, garbage)
<1>1. PC \in 0..15 /\ e.r[PC] \in Words
    BY RegIsWord DEF PC
<1>2. IsEmulator(f)
    BY <1>1, SetRegIs
<1>3. disassemble(e, addr, garbage) = SetReg(g, PC, e.r[PC])
    BY DEF disassemble
<1> HIDE DEF f
<1>4. IsEmulator(g)
    BY <1>2, ExecuteIsTyped
<1> HIDE DEF g
<1>5. IsEmulator(SetReg(g, PC, e.r[PC]))
    BY <1>1, <1>4, SetRegIs
<1> QED BY <1>3, <1>5

-----------------------------------------------------------------------------
(* Any program                                                             *)

LEMMA TypeStep == TypeOK /\ [Next]_vars => TypeOK'
<1> SUFFICES ASSUME TypeOK, [Next]_vars PROVE TypeOK'
    OBVIOUS
<1> USE DEF TypeOK
<1>1. MaxSteps \in Nat /\ MaxShows \in Nat /\ Garbage \subseteq Words
    BY CpuAssumption
<1>2. CASE Execute
    <2>1. PICK g \in Garbage : emu' = execute(emu, g)
        BY <1>2 DEF Execute
    <2>2. IsEmulator(execute(emu, g))
        BY <1>1, ExecuteIsTyped
    <2>3. IsEmulator(emu')
        BY <2>1, <2>2
    <2>4. steps' \in 0..MaxSteps /\ shows' \in 0..MaxShows
        BY <1>1, <1>2 DEF Execute
    <2> QED BY <2>3, <2>4
<1>3. CASE Disassemble
    <2>1. PICK g \in Garbage : emu' = disassemble(emu, emu.r[PC], g)
        BY <1>3 DEF Disassemble
    <2>2. emu.r[PC] \in Words
        BY RegIsWord DEF PC
    <2>3. IsEmulator(disassemble(emu, emu.r[PC], g))
        BY <1>1, <2>2, DisassembleIsTyped
    <2>4. IsEmulator(emu')
        BY <2>1, <2>3
    <2>5. steps' \in 0..MaxSteps /\ shows' \in 0..MaxShows
        BY <1>1, <1>3 DEF Disassemble
    <2> QED BY <2>4, <2>5
<1>4. CASE UNCHANGED vars
    BY <1>4 DEF vars
<1> QED BY <1>2, <1>3, <1>4 DEF Next, Stop

(* Whatever the program, the registers, the memory and what an             *)
(* uninitialised local holds, no instruction and no disassembly stores     *)
(* what does not fit: sixteen registers hold words (uint16_t,              *)
(* cpu/registers.h), memory bytes lie in MEMSPACE or are the one byte after*)
(* it that a word at 0xFFFF reaches (utilities.c:97-100), each status bit  *)
(* is 0 or 1.                                                              *)
THEOREM MachineTypes == Spec => []TypeOK
<1>1. Init => TypeOK
    BY CpuAssumption DEF Init, TypeOK
<1> QED BY <1>1, TypeStep, PTL DEF Spec

-----------------------------------------------------------------------------
(* The disassembler and the CPU decode alike                               *)

LEMMA ProgramBoundaries == TypeOK => BoundariesAgree
<1> DEFINE f == AfterFetch(emu)
           w == Fetched(emu)
           yes == TRUE
           no == FALSE
           shown == decode(f, w, yes, 0)
           done == decode(f, w, no, 0)
<1> SUFFICES ASSUME TypeOK, ~WritesPC
             PROVE  disassemble_one(emu, 0).r[PC] = execute(emu, 0).r[PC]
    BY DEF BoundariesAgree
<1>1. disassemble_one(emu, 0) = shown /\ execute(emu, 0) = done
    BY DEF execute, disassemble_one
<1>2. /\ IsEmulator(f) /\ w \in Words /\ yes \in BOOLEAN /\ no \in BOOLEAN /\ yes /\ ~no
      /\ 0 \in Words
    BY FetchReads, WordsAre DEF Reads, TypeOK
<1>3. /\ w \div 4096 = 1 => FieldsII(w).opcode # 5 /\ (FieldsII(w).source = PC => FieldsII(w).as # 0)
      /\ w \div 4096 \notin {2, 3}
      /\ w \div 4096 \in 4..15 => FieldsI(w).ad # 0 \/ FieldsI(w).destination # PC
    BY DEF WritesPC, IsFormatI, IsFormatII, IsFormatIII, I, II, Current
<1> HIDE DEF f, w, yes, no
<1>4. CASE w \div 4096 = 0
    <2> DEFINE a == Halted(f)
    <2>1. shown = a /\ done = a
        BY <1>4, DecodeByFormat
    <2> HIDE DEF a, shown, done
    <2> QED BY <1>1, <2>1
<1>5. CASE w \div 4096 = 1
    <2> DEFINE i == FieldsII(w)
               next == U16(f.r[PC] + WordsOf(i.source, i.as))
               a == decode_formatII(f, w, yes, 0)
               b == decode_formatII(f, w, no, 0)
    <2>1. shown = a /\ done = b
        BY <1>5, DecodeByFormat
    <2>2. a.r[PC] = next
        <3>1. IsEmulator(f) /\ w \in Words /\ yes \in BOOLEAN /\ 0 \in Words
            BY <1>2
        <3> QED BY <1>3, <1>5, <3>1, FormatIIIsTyped
    <2>3. b.r[PC] = next
        BY <1>2, <1>3, <1>5, FormatIIIsTyped
    <2> HIDE DEF a, b, next, shown, done
    <2> QED BY <1>1, <2>1, <2>2, <2>3
<1>6. CASE w \div 4096 \in 4..15
    <2> DEFINE i == FieldsI(w)
               next == U16(f.r[PC] + WordsOfI(i))
               a == decode_formatI(f, w, yes)
               b == decode_formatI(f, w, no)
    <2>1. shown = a /\ done = b
        BY <1>6, DecodeByFormat
    <2>2. a.r[PC] = next
        <3> DEFINE k == WordsOfI(i)
        <3>1. Reads(f, a, k, {SR})
            BY <1>2, FormatIShows DEF yes
        <3> HIDE DEF a, k
        <3>2. a.r[PC] = U16(f.r[PC] + k)
            BY <3>1 DEF Reads, PC, SR
        <3> QED BY <3>2 DEF k
    <2>3. i.ad = 1 \/ i.destination # PC
        BY <1>2, <1>3, <1>6, FieldsIAre DEF IsFieldsI
    <2>4. b.r[PC] = next
        BY <1>2, <1>6, <2>3, FormatIExecutes
    <2> HIDE DEF a, b, next, shown, done
    <2> QED BY <1>1, <2>1, <2>2, <2>4
<1> QED BY <1>2, <1>3, <1>4, <1>5, <1>6, Formats

(* Of every instruction that does not load pc, and in every addressing     *)
(* mode, the disassembler says the same length as the CPU takes: it follows*)
(* a program where the program goes (decoder.c and formatI.c:87-418,       *)
(* formatII.c:67-291, called with EXECUTE and DISASSEMBLE).                *)
THEOREM LengthsAgree == Spec => []BoundariesAgree
BY MachineTypes, ProgramBoundaries, PTL

\* What the debugger shows, and what Executes tells of a step.
LEMMA StepsAre ==
    ASSUME TypeOK, [Next]_vars
    PROVE  /\ shows' # shows => \E g \in Garbage : emu' = disassemble(emu, emu.r[PC], g)
           /\ Executes => \E g \in Garbage : emu' = execute(emu, g)
BY DEF Next, Execute, Disassemble, Stop, vars, Executes

LEMMA ShownUnchanged ==
    ASSUME TypeOK, NEW g \in Garbage, emu' = disassemble(emu, emu.r[PC], g),
           IsFormatI \/ IsFormatIII
    PROVE  ShowsWithoutChange
<1> DEFINE p == SetReg(emu, PC, emu.r[PC])
           f == AfterFetch(p)
           w == Fetched(p)
           yes == TRUE
           d == decode(f, w, yes, g)
<1>0. IsEmulator(emu) /\ PC \in 0..15 /\ emu.r[PC] \in Words /\ g \in Words
    BY CpuAssumption, RegIsWord DEF TypeOK, PC
<1>1. /\ IsEmulator(p) /\ p.r = [emu.r EXCEPT ![PC] = emu.r[PC]]
      /\ p.mem = emu.mem /\ p.sr = emu.sr
    BY <1>0, SetRegIs
<1>2. p.r = emu.r
    BY <1>0, <1>1 DEF IsEmulator
<1>3. w = Current
    BY <1>1, <1>2, SameBytes DEF Fetched, Current
<1>4. emu' = SetReg(d, PC, emu.r[PC])
    BY DEF disassemble, disassemble_one
<1> HIDE DEF p
<1>5. Reads(p, f, 2, {}) /\ IsEmulator(f) /\ w \in Words /\ yes \in BOOLEAN /\ yes
    BY <1>1, FetchReads DEF Reads
<1> HIDE DEF f, w, yes
<1>6. \E k \in Nat : Reads(f, d, k, {SR})
    <2>1. CASE w \div 4096 \in 4..15
        <3>1. d = decode_formatI(f, w, yes)
            BY <2>1, DecodeByFormat
        <3>2. Reads(f, decode_formatI(f, w, TRUE), WordsOfI(FieldsI(w)), {SR})
            BY <1>5, FormatIShows
        <3>3. WordsOfI(FieldsI(w)) \in Nat
            BY DEF WordsOfI, WordsOf
        <3> HIDE DEF d
        <3> QED BY <3>1, <3>2, <3>3 DEF yes
    <2>2. CASE w \div 4096 \in {2, 3}
        <3>1. d = decode_formatIII(f, w, yes)
            BY <2>2, DecodeByFormat
        <3>2. decode_formatIII(f, w, yes) = f
            BY <1>5 DEF decode_formatIII
        <3>3. Reads(f, f, 0, {SR})
            BY <1>5, ReadsNothing, ReadsMore
        <3> HIDE DEF d
        <3> QED BY <3>1, <3>2, <3>3
    <2> QED BY <1>3, <2>1, <2>2 DEF IsFormatI, IsFormatIII
<1> HIDE DEF d
<1>7. PICK k \in Nat : Reads(f, d, k, {SR})
    BY <1>6
<1> DEFINE z == SetReg(d, PC, emu.r[PC])
<1>8. IsEmulator(d)
    BY <1>7 DEF Reads
<1>9. IsEmulator(z) /\ z.r = [d.r EXCEPT ![PC] = emu.r[PC]] /\ z.mem = d.mem /\ z.sr = d.sr
    <2>1. z = SetReg(d, PC, emu.r[PC])
        OBVIOUS
    <2> HIDE DEF z
    <2> QED BY <1>0, <1>8, <2>1, SetRegGives, SMTT(60)
<1> HIDE DEF z
<1>10. d.mem = emu.mem /\ d.sr = emu.sr
    BY <1>1, <1>5, <1>7 DEF Reads
<1>11. \A n \in 0..15 : n # PC /\ n # SR => d.r[n] = emu.r[n]
    BY <1>2, <1>5, <1>7 DEF Reads
<1>12. \A n \in 0..15 \ {SR} : z.r[n] = emu.r[n]
    BY <1>0, <1>8, <1>9, <1>11 DEF IsEmulator
<1> QED BY <1>4, <1>9, <1>10, <1>12 DEF z, ShowsWithoutChange

(* Showing a double operand instruction or a jump leaves every register,   *)
(* every flag and all of memory as they were, although decode() runs it    *)
(* with the code that executes it (disassembler.c:29-47, decoder.c:40-75). *)
THEOREM ShowingIsPure == Spec => DisassemblyPure
<1>1. TypeOK /\ [Next]_vars
        => [shows' # shows /\ (IsFormatI \/ IsFormatIII) => ShowsWithoutChange]_vars
    BY StepsAre, ShownUnchanged
<1> QED BY <1>1, MachineTypes, PTL DEF Spec, DisassemblyPure

-----------------------------------------------------------------------------
(* Jumps, and what double operand instructions write                       *)

\* An instruction in format I or III, executed: its decoder runs on the state
\* after the fetch.
LEMMA ExecutedIs ==
    ASSUME TypeOK, NEW g \in Garbage, emu' = execute(emu, g), NEW no \in BOOLEAN, ~no
    PROVE  /\ IsEmulator(AfterFetch(emu)) /\ Current \in Words
           /\ AfterFetch(emu).r[PC] = U16(emu.r[PC] + 2)
           /\ AfterFetch(emu).mem = emu.mem /\ AfterFetch(emu).sr = emu.sr
           /\ IsFormatI => emu' = decode_formatI(AfterFetch(emu), Current, no)
           /\ IsFormatIII => emu' = decode_formatIII(AfterFetch(emu), Current, no)
<1> DEFINE f == AfterFetch(emu)
           w == Fetched(emu)
           d == decode(f, w, no, g)
<1>1. Reads(emu, f, 2, {}) /\ w \in Words /\ w = Current
    BY FetchReads DEF TypeOK, Current
<1>2. emu' = d
    BY DEF execute
<1> HIDE DEF f, w
<1>3. /\ w \div 4096 \in {2, 3} => d = decode_formatIII(f, w, no)
      /\ w \div 4096 \in 4..15 => d = decode_formatI(f, w, no)
    BY DecodeByFormat
<1> HIDE DEF d
<1>4. /\ IsFormatI => emu' = decode_formatI(f, w, no)
      /\ IsFormatIII => emu' = decode_formatIII(f, w, no)
    BY <1>1, <1>2, <1>3 DEF IsFormatI, IsFormatIII
<1> QED BY <1>1, <1>4 DEF Reads, f

LEMMA NearJumpStep ==
    ASSUME TypeOK, [Next]_vars, Executes, IsFormatIII, NearJump
    PROVE  LandsRight
<1>1. PICK g \in Garbage : emu' = execute(emu, g)
    BY StepsAre
<1> DEFINE f == AfterFetch(emu)
           no == FALSE
           k == Current % 1024
           next == U16(emu.r[PC] + 2)
<1>2. no \in BOOLEAN /\ ~no
    OBVIOUS
<1> HIDE DEF no
<1>3. /\ IsEmulator(f) /\ Current \in Words /\ f.r[PC] = next
      /\ emu' = decode_formatIII(f, Current, no)
    BY <1>1, <1>2, ExecutedIs
<1> DEFINE d == decode_formatIII(f, Current, no)
<1> HIDE DEF f
<1>4. d.r[PC] \in {f.r[PC], U16(f.r[PC] + signed_offset(k))}
    BY <1>2, <1>3, FormatIIIIs
<1>5. signed_offset(k) = JumpDistance(k)
    <2>1. k \in Int /\ 0 <= k /\ k <= 1023 /\ ~(256 <= k /\ k <= 511)
        <3>1. k \in Int /\ 0 <= k /\ k <= 1023
            BY <1>3, WordsAre
        <3>2. k \notin 256..511
            BY DEF NearJump
        <3> HIDE DEF k
        <3> QED BY <3>1, <3>2
    <2> HIDE DEF k
    <2> QED BY <2>1, OffsetExact
<1> HIDE DEF d, k, next
<1>6. emu'.r[PC] \in {next, U16(next + JumpDistance(k))}
    BY <1>3, <1>4, <1>5 DEF d
<1> QED BY <1>6 DEF LandsRight, next, k

(* Every jump but a forward one of 256 words or more falls through or lands*)
(* where its 10-bit offset says, wherever in memory it is, also when that  *)
(* is across an end of the address space (formatIII.c:33-43, 164-167).     *)
THEOREM JumpsLandRight == Spec => NearJumpsLandRight
<1>1. TypeOK /\ [Next]_vars => [Executes /\ IsFormatIII /\ NearJump => LandsRight]_vars
    BY NearJumpStep
<1> QED BY <1>1, MachineTypes, PTL DEF Spec, NearJumpsLandRight

\* The operands of the double operand instruction at pc, and its effect.
LEMMA DecodedIs ==
    ASSUME TypeOK, [Next]_vars, Executes, IsFormatI
    PROVE  /\ IsFieldsI(I) /\ IsEmulator(Decoded.e) /\ IsLoc(Decoded.loc) /\ Decoded.value \in Words
           /\ I.ad = 0 => Decoded.loc = InReg(I.destination)
           /\ I.ad = 1 => Decoded.loc.kind = "mem"
           /\ I.ad = 0 /\ I.bw = "BYTE" => Decoded.e.r[I.destination] <= 255
           /\ Decoded.e.mem = emu.mem /\ Decoded.e.sr = emu.sr
           /\ emu' = AluI(Decoded.e, I, Decoded.loc, Decoded.value)
           /\ I.opcode \in 4..15
<1>1. PICK g \in Garbage : emu' = execute(emu, g)
    BY StepsAre
<1> DEFINE no == FALSE
           f == AfterFetch(emu)
           o == OperandsI(PointersI(f, I), I, no)
<1>2. no \in BOOLEAN /\ ~no /\ Decoded = o
    BY DEF Decoded, PointersI
<1> HIDE DEF no
<1>3. /\ IsEmulator(f) /\ Current \in Words /\ f.mem = emu.mem /\ f.sr = emu.sr
      /\ emu' = decode_formatI(f, Current, no)
    BY <1>1, <1>2, ExecutedIs
<1> HIDE DEF f
<1>4. IsFieldsI(I) /\ I.opcode \in 4..15
    BY <1>3, FieldsIAre DEF I, IsFormatI
<1>5. decode_formatI(f, Current, no) = AluI(o.e, I, o.loc, o.value)
    BY <1>2 DEF decode_formatI, PointersI, I
<1>6. /\ Reads(f, o.e, WordsOfI(I), {SR} \cup ChangedBy(I, no))
      /\ IsEmulator(o.e) /\ o.value \in Words /\ IsLoc(o.loc)
      /\ I.ad = 0 => o.loc = InReg(I.destination)
      /\ I.ad = 1 => o.loc.kind = "mem"
      /\ I.ad = 0 /\ ~no /\ I.bw = "BYTE" => o.e.r[I.destination] <= 255
    BY <1>2, <1>3, <1>4, FormatIReads
<1> HIDE DEF o
<1>7. o.e.mem = emu.mem /\ o.e.sr = emu.sr
    BY <1>3, <1>6 DEF Reads
<1> QED BY <1>2, <1>3, <1>4, <1>5, <1>6, <1>7

LEMMA WritesStep ==
    ASSUME TypeOK, [Next]_vars, Executes, IsFormatI
    PROVE  LET loc == Decoded.loc
               changed == {addr \in DOMAIN emu'.mem : Byte(emu', addr) # Byte(emu, addr)}
           IN  /\ changed \subseteq
                     CASE loc.kind = "reg" -> {}
                       [] loc.kind = "mem" /\ I.bw = "BYTE" -> {loc.at}
                       [] loc.kind = "mem" /\ I.bw = "WORD" -> {loc.at, loc.at + 1}
               /\ loc.kind = "reg" /\ I.bw = "BYTE" => emu'.r[loc.at] < 256
<1> DEFINE e == Decoded.e
           loc == Decoded.loc
           v == Decoded.value
           changed == {addr \in DOMAIN emu'.mem : Byte(emu', addr) # Byte(emu, addr)}
<1>1. /\ IsEmulator(e) /\ IsLoc(loc) /\ v \in Words /\ IsFieldsI(I) /\ I.opcode \in 4..15
      /\ emu' = AluI(e, I, loc, v) /\ e.mem = emu.mem
      /\ I.ad = 0 => loc = InReg(I.destination)
      /\ I.ad = 1 => loc.kind = "mem"
      /\ I.ad = 0 /\ I.bw = "BYTE" => e.r[I.destination] <= 255
    BY DecodedIs
<1>2. I.bw \in Sizes /\ (I.ad = 0 \/ I.ad = 1)
    BY <1>1 DEF IsFieldsI
<1> HIDE DEF e, loc, v
<1>3. Does(e, AluI(e, I, loc, v), loc, I.bw)
    BY <1>1, <1>2, AluIsTyped
<1>4. Does(e, emu', loc, I.bw)
    BY <1>1, <1>3
<1>5. \A a : Byte(e, a) = Byte(emu, a)
    BY <1>1, SameBytes
<1>6. \A a : a \in changed => loc.kind = "mem" /\ (a = loc.at \/ (I.bw = "WORD" /\ a = loc.at + 1))
    BY <1>4, <1>5 DEF Does, OnlyAt
<1>7. loc.kind = "reg" \/ loc.kind = "mem"
    BY <1>1, <1>2 DEF InReg
<1>8. changed \subseteq
        CASE loc.kind = "reg" -> {}
          [] loc.kind = "mem" /\ I.bw = "BYTE" -> {loc.at}
          [] loc.kind = "mem" /\ I.bw = "WORD" -> {loc.at, loc.at + 1}
    <2> HIDE DEF changed
    <2>1. CASE loc.kind = "reg" BY <1>6, <2>1
    <2>2. CASE loc.kind = "mem" /\ I.bw = "BYTE" BY <1>6, <2>2
    <2>3. CASE loc.kind = "mem" /\ I.bw = "WORD" BY <1>6, <2>3
    <2> QED BY <1>2, <1>7, <2>1, <2>2, <2>3 DEF Sizes
<1>9. ASSUME loc.kind = "reg", I.bw = "BYTE"
      PROVE  emu'.r[loc.at] < 256
    <2>1. loc = InReg(I.destination) /\ e.r[I.destination] <= 255
        BY <1>1, <1>2, <1>9
    <2>2. loc.at = I.destination /\ I.destination \in 0..15
        BY <1>1, <2>1 DEF InReg, IsFieldsI
    <2>3. emu'.r[loc.at] <= 255 /\ emu'.r[loc.at] \in Words
        BY <1>4, <1>9, <2>1, <2>2, RegIsWord DEF Does
    <2> QED BY <2>3, WordsAre
<1> QED BY <1>8, <1>9 DEF loc

(* A double operand instruction writes no byte of memory but those its     *)
(* destination and its size name, none at all when the destination is a    *)
(* register, and leaves no upper half in a register it wrote as a byte     *)
(* (formatI.c:93-99, 416-700).                                             *)
THEOREM WritesWithinDestination == Spec => WritesOnlyDestination
<1>1. TypeOK /\ [Next]_vars
        => [Executes /\ IsFormatI =>
            LET loc == Decoded.loc
                changed == {addr \in DOMAIN emu'.mem : Byte(emu', addr) # Byte(emu, addr)}
            IN  /\ changed \subseteq
                      CASE loc.kind = "reg" -> {}
                        [] loc.kind = "mem" /\ I.bw = "BYTE" -> {loc.at}
                        [] loc.kind = "mem" /\ I.bw = "WORD" -> {loc.at, loc.at + 1}
                /\ loc.kind = "reg" /\ I.bw = "BYTE" => emu'.r[loc.at] < 256]_vars
    BY WritesStep
<1> QED BY <1>1, MachineTypes, PTL DEF Spec, WritesOnlyDestination

-----------------------------------------------------------------------------
(* The sign flags                                                          *)

\* A word or byte read as a signed number.
LEMMA SignedPartIs ==
    ASSUME NEW x \in Int, NEW bw \in Sizes
    PROVE  /\ SignedPart(x, bw) \in Int
           /\ -Half(bw) <= SignedPart(x, bw) /\ SignedPart(x, bw) < Half(bw)
           /\ SignBit(x, bw) = Flag(SignedPart(x, bw) < 0)
           /\ \E k \in Int : x = SignedPart(x, bw) + 2 * Half(bw) * k
<1>1. CASE bw = "WORD"
    <2> DEFINE r == x % 65536
               q == x \div 65536
               s == IF r < 32768 THEN r ELSE r - 65536
    <2>1. q \in Int /\ r \in Int /\ 0 <= r /\ r <= 65535 /\ x = r + 65536 * q
        OBVIOUS
    <2>2. SignedPart(x, bw) = s /\ SignBit(x, bw) = r \div 32768 /\ Half(bw) = 32768
        BY <1>1 DEF SignedPart, Signed, SignBit, U16, Half
    <2> HIDE DEF r, q
    <2>3. /\ s \in Int /\ -32768 <= s /\ s < 32768 /\ r \div 32768 = Flag(s < 0)
          /\ \E k \in Int : x = s + 65536 * k
        <3>1. CASE r < 32768
            <4>1. r \div 32768 = 0 /\ x = s + 65536 * q
                BY <2>1, <3>1
            <4> QED BY <2>1, <3>1, <4>1 DEF Flag
        <3>2. CASE ~(r < 32768)
            <4>1. r \div 32768 = 1 /\ q + 1 \in Int /\ x = s + 65536 * (q + 1)
                BY <2>1, <3>2
            <4> QED BY <2>1, <3>2, <4>1 DEF Flag
        <3> QED BY <3>1, <3>2
    <2> HIDE DEF s
    <2> QED BY <2>2, <2>3
<1>2. CASE bw = "BYTE"
    <2> DEFINE r == x % 256
               q == x \div 256
               s == IF r < 128 THEN r ELSE r - 256
    <2>1. q \in Int /\ r \in Int /\ 0 <= r /\ r <= 255 /\ x = r + 256 * q
        OBVIOUS
    <2>2. SignedPart(x, bw) = s /\ SignBit(x, bw) = r \div 128 /\ Half(bw) = 128
        BY <1>2 DEF SignedPart, SignedByte, SignBit, U8, Half
    <2> HIDE DEF r, q
    <2>3. /\ s \in Int /\ -128 <= s /\ s < 128 /\ r \div 128 = Flag(s < 0)
          /\ \E k \in Int : x = s + 256 * k
        <3>1. CASE r < 128
            <4>1. r \div 128 = 0 /\ x = s + 256 * q
                BY <2>1, <3>1
            <4> QED BY <2>1, <3>1, <4>1 DEF Flag
        <3>2. CASE ~(r < 128)
            <4>1. r \div 128 = 1 /\ q + 1 \in Int /\ x = s + 256 * (q + 1)
                BY <2>1, <3>2
            <4> QED BY <2>1, <3>2, <4>1 DEF Flag
        <3> QED BY <3>1, <3>2
    <2> HIDE DEF s
    <2> QED BY <2>2, <2>3
<1> QED BY <1>1, <1>2 DEF Sizes

\* Numbers that differ by a multiple of the operand's range have one part.
LEMMA SamePart ==
    ASSUME NEW x \in Int, NEW y \in Int, NEW k \in Int, NEW bw \in Sizes,
           x = y + 2 * Half(bw) * k
    PROVE  Part(x, bw) = Part(y, bw)
<1>1. CASE bw = "WORD"
    <2>1. x = y + 65536 * k
        BY <1>1 DEF Half
    <2>2. x % 65536 = y % 65536
        BY <2>1
    <2> QED BY <1>1, <2>2 DEF Part, U16
<1>2. CASE bw = "BYTE"
    <2>1. x = y + 256 * k
        BY <1>2 DEF Half
    <2>2. x % 256 = y % 256
        BY <2>1
    <2> QED BY <1>2, <2>2 DEF Part, U8
<1> QED BY <1>1, <1>2 DEF Sizes

LEMMA PartDiffers ==
    ASSUME NEW x \in Int, NEW bw \in Sizes
    PROVE  \E k \in Int : x = Part(x, bw) + 2 * Half(bw) * k
<1>1. CASE bw = "WORD"
    <2>1. x \div 65536 \in Int /\ x = (x % 65536) + 65536 * (x \div 65536)
        OBVIOUS
    <2> QED BY <1>1, <2>1 DEF Part, U16, Half
<1>2. CASE bw = "BYTE"
    <2>1. x \div 256 \in Int /\ x = (x % 256) + 256 * (x \div 256)
        OBVIOUS
    <2> QED BY <1>2, <2>1 DEF Part, U8, Half
<1> QED BY <1>1, <1>2 DEF Sizes

\* Only the part of an operand counts for its sign.
LEMMA PartSigns ==
    ASSUME NEW x \in Int, NEW y \in Int, NEW bw \in Sizes, Part(x, bw) = Part(y, bw)
    PROVE  SignedPart(x, bw) = SignedPart(y, bw) /\ SignBit(x, bw) = SignBit(y, bw)
           /\ is_zero(x, bw) = is_zero(y, bw)
<1>1. CASE bw = "WORD"
    BY <1>1 DEF Part, SignedPart, SignBit, is_zero
<1>2. CASE bw = "BYTE"
    BY <1>2 DEF Part, SignedPart, SignBit, is_zero
<1> QED BY <1>1, <1>2 DEF Sizes

\* A number within twice the operand's range, and the part of it.
LEMMA SignedPartOf ==
    ASSUME NEW z \in Int, NEW bw \in Sizes, -2 * Half(bw) <= z, z < 2 * Half(bw)
    PROVE  SignedPart(z, bw) = IF z >= Half(bw) THEN z - 2 * Half(bw)
                               ELSE IF z < -Half(bw) THEN z + 2 * Half(bw) ELSE z
<1> DEFINE h == Half(bw)
           s == SignedPart(z, bw)
<1>1. h \in {128, 32768} /\ s \in Int /\ -h <= s /\ s < h
    BY SignedPartIs DEF Half
<1>2. PICK k \in Int : z = s + 2 * h * k
    BY SignedPartIs
<1>3. -2 * h <= z /\ z < 2 * h
    OBVIOUS
<1> HIDE DEF h, s
<1>4. s = IF z >= h THEN z - 2 * h ELSE IF z < -h THEN z + 2 * h ELSE z
    <2>1. CASE h = 128
        BY <1>1, <1>2, <1>3, <2>1
    <2>2. CASE h = 32768
        BY <1>1, <1>2, <1>3, <2>2
    <2> QED BY <1>1, <2>1, <2>2
<1> QED BY <1>4 DEF h, s

\* What N, Z and V say of an exact result.
SignFlags(f, exact, bw) ==
    /\ f.sr.overflow = Flag(exact \notin (-Half(bw))..(Half(bw) - 1))
    /\ (f.sr.negative # f.sr.overflow) <=> (exact < 0)
    /\ f.sr.zero = is_zero(exact, bw)

\* The flags of the sum of two operands and a carry are those of the exact
\* signed sum.
LEMMA FlagsOfSum ==
    ASSUME NEW x \in Int, NEW y \in Int, NEW c \in 0..1, NEW bw \in Sizes, NEW result \in Int,
           Part(result, bw) = Part(x + y + c, bw),
           NEW f, f.sr.negative = is_negative(result, bw), f.sr.zero = is_zero(result, bw),
           f.sr.overflow = is_overflowed(x, y, result, bw)
    PROVE  SignFlags(f, SignedPart(x, bw) + SignedPart(y, bw) + c, bw)
<1> DEFINE h == Half(bw)
           a == SignedPart(x, bw)
           b == SignedPart(y, bw)
           r == SignedPart(result, bw)
           z == a + b + c
<1>1. /\ h \in Int /\ h > 1
      /\ a \in Int /\ -h <= a /\ a < h /\ b \in Int /\ -h <= b /\ b < h /\ c \in 0..1
    BY SignedPartIs DEF Half
<1>2. /\ SignBit(x, bw) = Flag(a < 0) /\ SignBit(y, bw) = Flag(b < 0)
      /\ SignBit(result, bw) = Flag(r < 0)
    BY SignedPartIs
<1>3. z \in Int /\ -2 * h <= z /\ z < 2 * h /\ x + y + c \in Int
    <2> HIDE DEF h, a, b
    <2> QED BY <1>1
<1>4. Part(x + y + c, bw) = Part(z, bw)
    <2>1. PICK k \in Int : x = a + 2 * h * k
        BY SignedPartIs
    <2>2. PICK l \in Int : y = b + 2 * h * l
        BY SignedPartIs
    <2>3. k + l \in Int /\ x + y + c = z + 2 * h * (k + l)
        <3> HIDE DEF h, a, b
        <3> QED BY <1>1, <2>1, <2>2
    <2> HIDE DEF z, a, b
    <2> QED BY <1>3, <2>3, SamePart
<1>5. SignedPart(z, bw) = r /\ is_zero(z, bw) = is_zero(result, bw)
    <2> HIDE DEF z
    <2>1. Part(result, bw) = Part(z, bw)
        BY <1>4
    <2> QED BY <1>3, <2>1, PartSigns
<1>6. r = IF z >= h THEN z - 2 * h ELSE IF z < -h THEN z + 2 * h ELSE z
    <2> HIDE DEF z
    <2>1. SignedPart(z, bw) = IF z >= h THEN z - 2 * h ELSE IF z < -h THEN z + 2 * h ELSE z
        BY <1>3, SignedPartOf
    <2> QED BY <1>5, <2>1
<1>7. f.sr.overflow = Flag((a < 0 <=> b < 0) /\ ~(r < 0 <=> b < 0))
    BY <1>2 DEF is_overflowed, Flag
<1>8. f.sr.negative = Flag(r < 0)
    BY <1>2 DEF is_negative
<1> HIDE DEF h, a, b, r
<1>9. ((a < 0 <=> b < 0) /\ ~(r < 0 <=> b < 0)) <=> (z >= h \/ z < -h)
    BY <1>1, <1>6
<1>10. (z \notin (-h)..(h - 1)) <=> (z >= h \/ z < -h)
    BY <1>1, <1>3
<1> HIDE DEF z
<1>11. f.sr.overflow = Flag(z \notin (-h)..(h - 1))
    BY <1>7, <1>9, <1>10 DEF Flag
<1>12. f.sr.overflow = Flag(z >= h \/ z < -h)
    BY <1>7, <1>9 DEF Flag
<1>13. (f.sr.negative # f.sr.overflow) <=> z < 0
    BY <1>1, <1>3, <1>6, <1>8, <1>12 DEF Flag
<1> QED BY <1>5, <1>11, <1>13 DEF SignFlags, h, z, a, b

LEMMA SumFlags ==
    ASSUME NEW e, IsEmulator(e), NEW loc, IsLoc(loc), NEW dst \in Int, NEW addend \in Int,
           NEW sum \in Int, NEW carry \in 0..1, NEW bw \in Sizes
    PROVE  \A c \in 0..1 : sum = dst + addend + c =>
                SignFlags(Sum(e, loc, dst, addend, sum, carry, bw),
                          SignedPart(addend, bw) + SignedPart(dst, bw) + c, bw)
<1> SUFFICES ASSUME NEW c \in 0..1, sum = dst + addend + c
             PROVE  SignFlags(Sum(e, loc, dst, addend, sum, carry, bw),
                              SignedPart(addend, bw) + SignedPart(dst, bw) + c, bw)
    OBVIOUS
<1> DEFINE w == Write(e, loc, sum, bw)
           result == ReadWord(w, loc)
           n == is_negative(result, bw)
           z == is_zero(result, bw)
           v == is_overflowed(addend, dst, result, bw)
           f == SetFlags(w, n, z, carry, v)
<1>1. IsEmulator(w) /\ result \in Words /\ Part(result, bw) = Part(sum, bw)
    BY WriteIs
<1>2. Sum(e, loc, dst, addend, sum, carry, bw) = f
    BY DEF Sum
<1> HIDE DEF w, result
<1>3. result \in Int
    BY <1>1, WordsAre
<1>4. n \in 0..1 /\ z \in 0..1 /\ v \in 0..1
    BY <1>3, FlagsAreBits
<1>5. n = is_negative(result, bw) /\ z = is_zero(result, bw)
      /\ v = is_overflowed(addend, dst, result, bw)
    OBVIOUS
<1> HIDE DEF n, z, v
<1>6. f.sr.negative = n /\ f.sr.zero = z /\ f.sr.overflow = v
    BY <1>1, <1>4, SetFlagsIs
<1> HIDE DEF f
<1>7. addend + dst + c = sum
    OBVIOUS
<1>8. SignFlags(f, SignedPart(addend, bw) + SignedPart(dst, bw) + c, bw)
    BY <1>1, <1>3, <1>5, <1>6, <1>7, FlagsOfSum
<1> QED BY <1>2, <1>8

\* What SUB and CMP add: the negative of the source.
LEMMA MinusIs ==
    ASSUME NEW src \in Words, NEW bw \in Sizes, Part(src, bw) # Half(bw)
    PROVE  SignedPart(U16(65536 - src), bw) = SignedPart(65535 - src, bw) + 1
<1> DEFINE x == 65535 - src
           m == U16(65536 - src)
           s == SignedPart(x, bw)
<1>1. src \in Nat /\ src <= 65535
    BY WordsAre
<1>2. x \in Int /\ s \in Int /\ -Half(bw) <= s /\ s < Half(bw)
    BY <1>1, SignedPartIs
<1>3. Part(m, bw) = Part(x + 1, bw) /\ m \in Int /\ x + 1 \in Int
    <2>1. CASE bw = "WORD"
        <3>1. (65536 - src) % 65536 = (65535 - src + 1) % 65536
              /\ ((65536 - src) % 65536) % 65536 = (65536 - src) % 65536
              /\ (65536 - src) % 65536 \in Int /\ 65535 - src + 1 \in Int
            BY <1>1
        <3> QED BY <2>1, <3>1 DEF Part, U16
    <2>2. CASE bw = "BYTE"
        <3>1. ((65536 - src) % 65536) % 256 = (65535 - src + 1) % 256
              /\ (65536 - src) % 65536 \in Int /\ 65535 - src + 1 \in Int
            BY <1>1
        <3> QED BY <2>2, <3>1 DEF Part, U8, U16
    <2> QED BY <2>1, <2>2 DEF Sizes
<1>4. SignedPart(m, bw) = SignedPart(x + 1, bw)
    BY <1>3, PartSigns
<1>5. s + 1 # Half(bw)
    <2>1. SUFFICES ASSUME s + 1 = Half(bw) PROVE FALSE
        OBVIOUS
    <2>2. PICK k \in Int : x = s + 2 * Half(bw) * k
        BY <1>2, SignedPartIs
    <2> DEFINE h == Half(bw)
    <2>3. h \in {128, 32768} /\ h \in Int
        BY DEF Half
    <2>4. -k \in Int /\ -k - 1 \in Int
        OBVIOUS
    <2>5. src = 65536 - h - 2 * h * k
        <3>1. s + 1 = h /\ x = s + 2 * h * k
            BY <2>1, <2>2
        <3> HIDE DEF s, h
        <3> QED BY <1>1, <1>2, <2>3, <3>1
    <2>6. CASE bw = "WORD"
        <3>1. h = 32768
            BY <2>6 DEF Half
        <3> HIDE DEF h
        <3>2. src % 65536 = 32768
            BY <2>5, <3>1
        <3> QED BY <2>6, <3>2 DEF Part, U16, Half
    <2>7. CASE bw = "BYTE"
        <3>1. h = 128
            BY <2>7 DEF Half
        <3> HIDE DEF h
        <3>2. src % 256 = 128
            BY <2>5, <3>1
        <3> QED BY <2>7, <3>2 DEF Part, U8, Half
    <2> QED BY <2>6, <2>7 DEF Sizes
<1>6. SignedPart(x + 1, bw) = SignedPart(s + 1, bw)
    <2>1. PICK k \in Int : x = s + 2 * Half(bw) * k
        BY <1>2, SignedPartIs
    <2>2. s + 1 \in Int /\ x + 1 = (s + 1) + 2 * Half(bw) * k
        <3> DEFINE y == 2 * Half(bw) * k
        <3>1. y \in Int /\ x = s + y
            BY <2>1 DEF Half
        <3> HIDE DEF s, x, y
        <3>2. s + 1 \in Int /\ x + 1 = (s + 1) + y
            BY <1>2, <3>1
        <3> QED BY <3>2 DEF y
    <2> HIDE DEF s, x
    <2>3. Part(x + 1, bw) = Part(s + 1, bw)
        BY <1>3, <2>2, SamePart
    <2> QED BY <1>3, <2>2, <2>3, PartSigns
<1>7. SignedPart(s + 1, bw) = s + 1
    <2> DEFINE t == s + 1
               h == Half(bw)
    <2>1. t \in Int /\ -h <= t /\ t < h /\ h > 0 /\ h \in Int
        <3>1. h \in Int /\ h > 0
            BY DEF Half
        <3> HIDE DEF s, h
        <3> QED BY <1>2, <1>5, <3>1 DEF h
    <2> HIDE DEF t
    <2>2. SignedPart(t, bw) = IF t >= h THEN t - 2 * h ELSE IF t < -h THEN t + 2 * h ELSE t
        BY <2>1, SignedPartOf
    <2> HIDE DEF h
    <2>3. SignedPart(t, bw) = t
        BY <2>1, <2>2
    <2> QED BY <2>3 DEF t
<1> QED BY <1>4, <1>6, <1>7

\* What the five arithmetic instructions add to dst, and with what carry.
LEMMA ArithmeticFlags ==
    ASSUME NEW e, IsEmulator(e), NEW loc, IsLoc(loc), NEW src \in Words, NEW bw \in Sizes,
           NEW dst, dst = ReadWord(e, loc)
    PROVE  /\ SignFlags(ADD(e, loc, src, bw), SignedPart(src, bw) + SignedPart(dst, bw) + 0, bw)
           /\ SignFlags(ADDC(e, loc, src, bw),
                        SignedPart(src, bw) + SignedPart(dst, bw) + e.sr.carry, bw)
           /\ SignFlags(SUBC(e, loc, src, bw),
                        SignedPart(65535 - src, bw) + SignedPart(dst, bw) + e.sr.carry, bw)
           /\ Part(src, bw) # Half(bw) =>
                /\ SignFlags(SUB(e, loc, src, bw),
                             SignedPart(65535 - src, bw) + 1 + SignedPart(dst, bw) + 0, bw)
                /\ SignFlags(CMP(e, loc, src, bw),
                             SignedPart(65535 - src, bw) + 1 + SignedPart(dst, bw) + 0, bw)
<1> DEFINE not == 65535 - src
           minus == U16(65536 - src)
           C == e.sr.carry
<1>1. dst \in Words /\ not \in Words /\ minus \in Words
    BY ReadWordIsWord, SignedIsInt
<1>2. /\ dst \in Int /\ not \in Int /\ minus \in Int /\ src \in Int
      /\ Signed(dst) \in Int /\ Signed(not) \in Int /\ Signed(minus) \in Int /\ Signed(src) \in Int
    BY <1>1, WordsAre, SignedIsInt
<1>3. C \in 0..1 /\ 0 \in 0..1
    BY StatusIsBit
<1>4. SignFlags(ADD(e, loc, src, bw), SignedPart(src, bw) + SignedPart(dst, bw) + 0, bw)
    <2> DEFINE carry == is_carried(dst, Signed(src), bw)
               sum == dst + src
    <2>1. ADD(e, loc, src, bw) = Sum(e, loc, dst, src, sum, carry, bw)
        BY DEF ADD
    <2>2. carry \in 0..1
        BY <1>2, FlagsAreBits
    <2>3. sum \in Int
        BY <1>2, <1>3
    <2>6. sum = dst + src + 0
        BY <1>2
    <2> HIDE DEF carry, sum
    <2>4. \A c \in 0..1 : sum = dst + src + c =>
            SignFlags(Sum(e, loc, dst, src, sum, carry, bw),
                      SignedPart(src, bw) + SignedPart(dst, bw) + c, bw)
        BY <1>2, <2>2, <2>3, SumFlags, SMTT(60)
    <2>5. SignFlags(Sum(e, loc, dst, src, sum, carry, bw),
                    SignedPart(src, bw) + SignedPart(dst, bw) + 0, bw)
        BY <1>3, <2>4, <2>6
    <2> QED BY <2>1, <2>5
<1>5. SignFlags(ADDC(e, loc, src, bw), SignedPart(src, bw) + SignedPart(dst, bw) + C, bw)
    <2> DEFINE carry == is_carried(dst, Signed(src), bw)
               sum == dst + src + C
    <2>1. ADDC(e, loc, src, bw) = Sum(e, loc, dst, src, sum, carry, bw)
        BY DEF ADDC
    <2>2. carry \in 0..1
        BY <1>2, FlagsAreBits
    <2>3. sum \in Int
        BY <1>2, <1>3
    <2>6. sum = dst + src + C
        BY <1>2, <1>3
    <2> HIDE DEF carry, sum, C
    <2>4. \A c \in 0..1 : sum = dst + src + c =>
            SignFlags(Sum(e, loc, dst, src, sum, carry, bw),
                      SignedPart(src, bw) + SignedPart(dst, bw) + c, bw)
        BY <1>2, <2>2, <2>3, SumFlags, SMTT(60)
    <2>5. SignFlags(Sum(e, loc, dst, src, sum, carry, bw),
                    SignedPart(src, bw) + SignedPart(dst, bw) + C, bw)
        BY <1>3, <2>4, <2>6
    <2> QED BY <2>1, <2>5
<1>6. SignFlags(SUBC(e, loc, src, bw), SignedPart(not, bw) + SignedPart(dst, bw) + C, bw)
    <2> DEFINE carry == is_carried(Signed(dst), Signed(not), bw)
               sum == dst + not + C
    <2>1. SUBC(e, loc, src, bw) = Sum(e, loc, dst, not, sum, carry, bw)
        BY DEF SUBC
    <2>2. carry \in 0..1
        BY <1>2, FlagsAreBits
    <2>3. sum \in Int
        BY <1>2, <1>3
    <2>6. sum = dst + not + C
        BY <1>2, <1>3
    <2> HIDE DEF carry, sum, C, not
    <2>4. \A c \in 0..1 : sum = dst + not + c =>
            SignFlags(Sum(e, loc, dst, not, sum, carry, bw),
                      SignedPart(not, bw) + SignedPart(dst, bw) + c, bw)
        BY <1>2, <2>2, <2>3, SumFlags, SMTT(60)
    <2>5. SignFlags(Sum(e, loc, dst, not, sum, carry, bw),
                    SignedPart(not, bw) + SignedPart(dst, bw) + C, bw)
        BY <1>3, <2>4, <2>6
    <2> QED BY <2>1, <2>5
<1>7. ASSUME Part(src, bw) # Half(bw)
      PROVE  /\ SignFlags(SUB(e, loc, src, bw),
                          SignedPart(not, bw) + 1 + SignedPart(dst, bw) + 0, bw)
             /\ SignFlags(CMP(e, loc, src, bw),
                          SignedPart(not, bw) + 1 + SignedPart(dst, bw) + 0, bw)
    <2>1. SignedPart(minus, bw) = SignedPart(not, bw) + 1
        BY <1>7, MinusIs
    <2>2. SignFlags(SUB(e, loc, src, bw), SignedPart(minus, bw) + SignedPart(dst, bw) + 0, bw)
        <3> DEFINE carried == \/ is_carried(-Signed(minus) - 1, 1, bw) = 1
                              \/ is_carried(Signed(dst), Signed(minus), bw) = 1
                   carry == IF carried THEN 1 ELSE C
                   sum == dst + minus
        <3>1. SUB(e, loc, src, bw) = Sum(e, loc, dst, minus, sum, carry, bw)
            BY DEF SUB
        <3>2. carry \in 0..1
            BY <1>3
        <3>3. sum \in Int
            BY <1>2, <1>3
        <3>6. sum = dst + minus + 0
            BY <1>2
        <3> HIDE DEF carry, sum, minus
        <3>4. \A c \in 0..1 : sum = dst + minus + c =>
                SignFlags(Sum(e, loc, dst, minus, sum, carry, bw),
                          SignedPart(minus, bw) + SignedPart(dst, bw) + c, bw)
            BY <1>2, <3>2, <3>3, SumFlags, SMTT(60)
        <3>5. SignFlags(Sum(e, loc, dst, minus, sum, carry, bw),
                        SignedPart(minus, bw) + SignedPart(dst, bw) + 0, bw)
            BY <1>3, <3>4, <3>6
        <3> QED BY <3>1, <3>5
    <2>3. SignFlags(CMP(e, loc, src, bw), SignedPart(minus, bw) + SignedPart(dst, bw) + 0, bw)
        <3> DEFINE a == Part(dst, bw)
                   b == Part(minus, bw)
                   result == a + b
                   carry == IF is_carried(65535 - src, 1, bw) = 1 THEN 1
                            ELSE is_carried(Signed(dst), minus, bw)
                   n == is_negative(result, bw)
                   z == is_zero(result, bw)
                   v == is_overflowed(minus, dst, result, bw)
                   f == SetFlags(e, n, z, carry, v)
        <3>1. CMP(e, loc, src, bw) = f
            BY DEF CMP
        <3>2. carry \in 0..1
            BY <1>2, FlagsAreBits
        <3>3. a \in Int /\ b \in Int
            BY <1>2, PartIsWord, WordsAre
        <3> HIDE DEF minus, carry
        <3>4. result \in Int
            BY <3>3
        <3>5. Part(result, bw) = Part(minus + dst + 0, bw)
            <4> DEFINE h == 2 * Half(bw)
            <4>1. PICK k \in Int : dst = a + h * k
                BY <1>2, PartDiffers
            <4>2. PICK l \in Int : minus = b + h * l
                BY <1>2, PartDiffers
            <4>3. h \in {256, 65536}
                BY DEF Half
            <4> HIDE DEF a, b, h
            <4>4. k + l \in Int /\ minus + dst + 0 \in Int /\ minus + dst + 0 = a + b + h * (k + l)
                BY <1>2, <3>3, <4>1, <4>2, <4>3
            <4> QED BY <3>4, <4>4, SamePart DEF h
        <3> HIDE DEF result
        <3>6. n \in 0..1 /\ z \in 0..1 /\ v \in 0..1
            BY <3>4, FlagsAreBits
        <3>7. n = is_negative(result, bw) /\ z = is_zero(result, bw)
              /\ v = is_overflowed(minus, dst, result, bw)
            OBVIOUS
        <3> HIDE DEF n, z, v
        <3>8. f.sr.negative = n /\ f.sr.zero = z /\ f.sr.overflow = v
            BY <3>2, <3>6, SetFlagsIs
        <3> HIDE DEF f
        <3>9. SignFlags(f, SignedPart(minus, bw) + SignedPart(dst, bw) + 0, bw)
            BY <1>2, <1>3, <3>4, <3>5, <3>7, <3>8, FlagsOfSum
        <3> QED BY <3>1, <3>9
    <2> HIDE DEF minus, not
    <2> QED BY <2>1, <2>2, <2>3
<1> QED BY <1>4, <1>5, <1>6, <1>7

LEMMA SignFlagsStep ==
    ASSUME TypeOK, [Next]_vars, Executes, IsArithmetic, Negatable
    PROVE  LET v == Flag(Exact \notin (-Half(I.bw))..(Half(I.bw) - 1))
           IN  /\ emu'.sr.overflow = v
               /\ (emu'.sr.negative # emu'.sr.overflow) <=> (Exact < 0)
               /\ emu'.sr.zero = is_zero(Exact, I.bw)
<1> DEFINE e == Decoded.e
           loc == Decoded.loc
           src == Decoded.value
           bw == I.bw
           dst == ReadWord(e, loc)
           op == I.opcode
           x == SignedPart(src, bw)
           y == SignedPart(65535 - src, bw)
           d == SignedPart(dst, bw)
           C == e.sr.carry
<1>1. /\ IsEmulator(e) /\ IsLoc(loc) /\ src \in Words /\ bw \in Sizes
      /\ emu' = AluI(e, I, loc, src) /\ e.sr = emu.sr
    BY DecodedIs DEF IsArithmetic, IsFieldsI
<1>2. Src = src /\ Dst = dst /\ op \in {5, 6, 7, 8, 9}
    BY DEF Src, Dst, IsArithmetic
<1>3. op \in {8, 9} => Part(src, bw) # Half(bw)
    BY <1>2 DEF Negatable
<1>4. /\ op \in {5, 6} => Exact = d + x + CarryIn(op)
      /\ op \in {7, 8, 9} => Exact = d + y + CarryIn(op)
    BY <1>2 DEF Exact, Addend
<1>5. /\ op = 5 => CarryIn(op) = 0
      /\ op \in {6, 7} => CarryIn(op) = C
      /\ op \in {8, 9} => CarryIn(op) = 1
    BY <1>1 DEF CarryIn
<1>6. /\ op = 5 => emu' = ADD(e, loc, src, bw)
      /\ op = 6 => emu' = ADDC(e, loc, src, bw)
      /\ op = 7 => emu' = SUBC(e, loc, src, bw)
      /\ op = 8 => emu' = SUB(e, loc, src, bw)
      /\ op = 9 => emu' = CMP(e, loc, src, bw)
    BY <1>1 DEF AluI
<1>7. dst \in Words
    BY <1>1, ReadWordIsWord
<1>8. C \in 0..1
    BY <1>1, StatusIsBit
<1> HIDE DEF e, loc, src, bw, dst, op, C
<1>9. x \in Int /\ y \in Int /\ d \in Int
    <2>1. src \in Int /\ 65535 - src \in Int /\ dst \in Int
        BY <1>1, <1>7, SignedIsInt, WordsAre
    <2> QED BY <1>1, <2>1, SignedPartIs
<1>10. /\ SignFlags(ADD(e, loc, src, bw), x + d + 0, bw)
       /\ SignFlags(ADDC(e, loc, src, bw), x + d + C, bw)
       /\ SignFlags(SUBC(e, loc, src, bw), y + d + C, bw)
       /\ op \in {8, 9} => /\ SignFlags(SUB(e, loc, src, bw), y + 1 + d + 0, bw)
                           /\ SignFlags(CMP(e, loc, src, bw), y + 1 + d + 0, bw)
    BY <1>1, <1>3, ArithmeticFlags DEF dst, C
<1> HIDE DEF x, y, d
<1>11. /\ op = 5 => Exact = x + d + 0
       /\ op = 6 => Exact = x + d + C
       /\ op = 7 => Exact = y + d + C
       /\ op \in {8, 9} => Exact = y + 1 + d + 0
    BY <1>4, <1>5, <1>8, <1>9
<1>12. SignFlags(emu', Exact, bw)
    <2>1. CASE op = 5 BY <1>6, <1>10, <1>11, <2>1
    <2>2. CASE op = 6 BY <1>6, <1>10, <1>11, <2>2
    <2>3. CASE op = 7 BY <1>6, <1>10, <1>11, <2>3
    <2>4. CASE op = 8 BY <1>6, <1>10, <1>11, <2>4
    <2>5. CASE op = 9 BY <1>6, <1>10, <1>11, <2>5
    <2> QED BY <1>2, <2>1, <2>2, <2>3, <2>4, <2>5
<1> QED BY <1>12 DEF SignFlags, bw

(* N, Z and V after ADD, ADDC, SUB, SUBC and CMP are exact for every two   *)
(* operands, both sizes and both carries, wherever the operands are found  *)
(* (formatI.c:439-617, flag_handler.c:26-139): JGE and JL, which test N    *)
(* xor V, see the sign of the true result even when that does not fit.     *)
THEOREM FlagsAreExact == Spec => SignFlagsExact
<1>1. TypeOK /\ [Next]_vars
        => [Executes /\ IsArithmetic /\ Negatable =>
            LET v == Flag(Exact \notin (-Half(I.bw))..(Half(I.bw) - 1))
            IN  /\ emu'.sr.overflow = v
                /\ (emu'.sr.negative # emu'.sr.overflow) <=> (Exact < 0)
                /\ emu'.sr.zero = is_zero(Exact, I.bw)]_vars
    BY SignFlagsStep
<1> QED BY <1>1, MachineTypes, PTL DEF Spec, SignFlagsExact

-----------------------------------------------------------------------------
(* A comparison and a branch                                               *)

\* The machine's first steps, from where it started.
HistoryInv ==
    /\ IsEmulator(start)
    /\ After(0) => emu = start
    /\ After(1) => \E g \in Garbage : emu = execute(start, g)
    /\ After(2) => \E g \in Garbage, h \in Garbage : emu = execute(execute(start, g), h)

LEMMA HistoryStep == TypeOK /\ HistoryInv /\ [Next]_vars => HistoryInv'
<1> SUFFICES ASSUME TypeOK, HistoryInv, [Next]_vars PROVE HistoryInv'
    OBVIOUS
<1> USE DEF After, HistoryInv
<1>1. steps \in Nat /\ shows \in Nat
    BY CpuAssumption DEF TypeOK
<1>2. CASE Execute
    <2>1. start' = start /\ shows' = shows /\ steps' = steps + 1
          /\ \E g \in Garbage : emu' = execute(emu, g)
        BY <1>2 DEF Execute
    <2>2. steps' # 0 /\ (steps' = 1 => steps = 0) /\ (steps' = 2 => steps = 1)
        BY <1>1, <2>1
    <2>3. IsEmulator(start') /\ ~After(0)'
        BY <2>1, <2>2
    <2>4. After(1)' => \E g \in Garbage : emu' = execute(start', g)
        BY <2>1, <2>2
    <2>5. After(2)' => \E g \in Garbage, h \in Garbage : emu' = execute(execute(start', g), h)
        <3> SUFFICES ASSUME After(2)'
                     PROVE  \E g \in Garbage, h \in Garbage :
                                emu' = execute(execute(start', g), h)
            OBVIOUS
        <3>1. PICK h \in Garbage : emu' = execute(emu, h)
            BY <2>1
        <3>2. PICK g \in Garbage : emu = execute(start, g)
            BY <2>1, <2>2
        <3> QED BY <2>1, <3>1, <3>2
    <2> QED BY <2>3, <2>4, <2>5
<1>3. CASE Disassemble
    <2>1. start' = start /\ shows' # 0
        BY <1>1, <1>3 DEF Disassemble
    <2> QED BY <2>1
<1>4. CASE UNCHANGED vars
    BY <1>4 DEF vars
<1> QED BY <1>2, <1>3, <1>4 DEF Next, Stop

LEMMA History == Spec => []HistoryInv
<1>1. Init => HistoryInv
    BY CpuAssumption DEF Init, HistoryInv, After
<1>2. TypeOK /\ HistoryInv /\ [Next]_vars => HistoryInv'
    BY HistoryStep
<1> QED BY <1>1, <1>2, MachineTypes, PTL DEF Spec

LEMMA Complement ==
    ASSUME NEW src \in Words, NEW bw \in Sizes
    PROVE  SignedPart(65535 - src, bw) = -SignedPart(src, bw) - 1
<1> DEFINE h == Half(bw)
           s == SignedPart(src, bw)
           x == 65535 - src
           t == -s - 1
           n == IF bw = "WORD" THEN 1 ELSE 256
<1>1. src \in Int /\ x \in Int
    BY WordsAre
<1>2. h \in {128, 32768} /\ 2 * h * n = 65536 /\ n \in {1, 256}
    BY DEF Half, Sizes
<1>3. s \in Int /\ -h <= s /\ s < h
    BY <1>1, SignedPartIs
<1>4. PICK k \in Int : src = s + 2 * h * k
    BY <1>1, SignedPartIs
<1> HIDE DEF h, s, n
<1>5. t \in Int /\ -h <= t /\ t < h /\ n - k \in Int /\ x = t + 2 * h * (n - k)
    BY <1>1, <1>2, <1>3, <1>4
<1> HIDE DEF x, t
<1>6. Part(x, bw) = Part(t, bw)
    BY <1>1, <1>5, SamePart DEF h
<1>7. SignedPart(x, bw) = SignedPart(t, bw)
    BY <1>1, <1>5, <1>6, PartSigns
<1>8. -2 * h <= t /\ t < 2 * h
    BY <1>2, <1>5
<1>9. SignedPart(t, bw) = IF t >= h THEN t - 2 * h ELSE IF t < -h THEN t + 2 * h ELSE t
    BY <1>5, <1>8, SignedPartOf DEF h
<1>10. SignedPart(t, bw) = t
    BY <1>2, <1>5, <1>9
<1> QED BY <1>7, <1>10 DEF x, t, s

\* The flags a comparison of two registers leaves, read as relations.
LEMMA ComparedIs ==
    ASSUME IsEmulator(start), NEW g \in Garbage, emu = execute(start, g), StartsWithCompare,
           Operand(FirstI.source) # -Half(FirstI.bw)
    PROVE  LET d == Operand(FirstI.destination)
               s == Operand(FirstI.source)
           IN  /\ emu.sr.zero = Flag(d = s)
               /\ (emu.sr.negative # emu.sr.overflow) <=> d < s
               /\ d \in Int /\ s \in Int
<1> DEFINE w == Fetched(start)
           i == FirstI
           f == AfterFetch(start)
           no == FALSE
           bw == i.bw
           src == start.r[i.source]
           dest == i.destination
           loc == InReg(dest)
           c == ClearUpper(f, dest, bw)
           dst == ReadWord(c, loc)
<1>1. /\ Reads(start, f, 2, {}) /\ IsEmulator(f) /\ w \in Words
    BY FetchReads DEF Reads
<1>2. IsFieldsI(i) /\ i.opcode = w \div 4096 /\ i = FieldsI(w)
    BY <1>1, FieldsIAre DEF FirstI
<1>3. /\ i.opcode = 9 /\ i.as = 0 /\ i.ad = 0 /\ i.source \in 4..15 /\ dest \in 4..15
      /\ i.source \in 0..15 /\ dest \in 0..15 /\ bw \in Sizes
    BY <1>2 DEF StartsWithCompare, IsFieldsI
<1>4. i.source # SR /\ i.source # PC /\ dest # SR /\ dest # PC /\ i.source # 3
    BY <1>3 DEF SR, PC
<1>5. no \in BOOLEAN /\ ~no /\ emu = decode(f, w, no, g)
    BY DEF execute
<1> HIDE DEF no
<1>6. emu = decode_formatI(f, w, no)
    <2> DEFINE z == decode(f, w, no, g)
    <2>1. z = decode_formatI(f, w, no)
        BY <1>2, <1>3, DecodeByFormat
    <2> HIDE DEF z
    <2> QED BY <1>5, <2>1 DEF z
<1>7. PointersI(f, i) = f
    BY <1>4 DEF PointersI, get_reg_ptr
<1>8. SourceI(f, i, no) = [value |-> f.r[i.source], e |-> f]
    BY <1>3, <1>4 DEF SourceI, constant_generator_active
<1>9. OperandsI(f, i, no) = [value |-> f.r[i.source], loc |-> loc, e |-> c]
    BY <1>3, <1>5, <1>8 DEF OperandsI
<1>10. f.r[i.source] = src /\ f.r[dest] = start.r[dest]
    BY <1>1, <1>3, <1>4 DEF Reads
<1>11. emu = AluI(c, i, loc, src)
    <2> DEFINE o == OperandsI(PointersI(f, i), i, no)
    <2>1. decode_formatI(f, w, no) = AluI(o.e, i, o.loc, o.value)
        BY <1>2, <1>5 DEF decode_formatI, PointersI
    <2>2. o = [value |-> f.r[i.source], loc |-> loc, e |-> c]
        BY <1>7, <1>9
    <2> HIDE DEF o, c, loc, f
    <2>3. o.e = c /\ o.loc = loc /\ o.value = src
        BY <1>10, <2>2
    <2> QED BY <1>6, <2>1, <2>3
<1>12. emu = CMP(c, loc, src, bw)
    BY <1>3, <1>11 DEF AluI
<1>13. src \in Words /\ start.r[dest] \in Words /\ start.r[dest] \in Int /\ src \in Int
    BY <1>3, RegIsWord, WordsAre
<1>14. IsEmulator(c) /\ IsLoc(loc) /\ dst = c.r[dest]
    <2>1. IsEmulator(c)
        BY <1>1, <1>3, ClearReads DEF Reads
    <2> QED BY <1>3, <2>1, LocsAre, SMTT(60) DEF ReadWord, InReg
<1>15. dst \in Int /\ Part(dst, bw) = Part(start.r[dest], bw)
    <2>1. dst = IF bw = "BYTE" THEN U8(start.r[dest]) ELSE start.r[dest]
        <3>1. CASE bw = "BYTE"
            <4>1. U8(f.r[dest]) \in Words
                BY <1>10, <1>13, U8IsByte, WordsAre
            <4>2. c = SetReg(f, dest, U8(f.r[dest]))
                BY <3>1 DEF ClearUpper
            <4>3. SetReg(f, dest, U8(f.r[dest])).r = [f.r EXCEPT ![dest] = U8(f.r[dest])]
                BY <1>1, <1>3, <4>1, SetRegIs
            <4>4. c.r[dest] = U8(f.r[dest])
                BY <1>1, <1>3, <4>2, <4>3 DEF IsEmulator
            <4> QED BY <1>10, <1>14, <3>1, <4>4
        <3>2. CASE bw # "BYTE"
            BY <1>10, <1>14, <3>2 DEF ClearUpper
        <3> QED BY <3>1, <3>2
    <2> HIDE DEF dst
    <2> DEFINE x == start.r[dest]
    <2>2. x \in Int
        BY <1>13
    <2> HIDE DEF x
    <2>3. U8(x) \in Int /\ U8(U8(x)) = U8(x)
        BY <2>2 DEF U8
    <2>4. CASE bw = "BYTE"
        BY <2>1, <2>3, <2>4 DEF Part, x
    <2>5. CASE bw = "WORD"
        BY <2>1, <2>2, <2>5 DEF x
    <2> QED BY <1>3, <2>4, <2>5 DEF Sizes, x
<1> DEFINE d == SignedPart(start.r[dest], bw)
           s == SignedPart(src, bw)
           h == Half(bw)
<1>16. SignedPart(dst, bw) = d
    <2> HIDE DEF dst
    <2> QED BY <1>3, <1>13, <1>15, PartSigns
<1>17. /\ Operand(dest) = d /\ Operand(i.source) = s
       /\ d \in Int /\ s \in Int /\ -h <= d /\ d < h /\ -h <= s /\ s < h
    BY <1>3, <1>13, SignedPartIs DEF Operand
<1>18. Part(src, bw) # h
    <2>1. Part(src, bw) = h => s = -h
        <3>1. CASE bw = "WORD"
            BY <3>1 DEF Part, SignedPart, Signed, Half
        <3>2. CASE bw = "BYTE"
            BY <3>2 DEF Part, SignedPart, SignedByte, Half
        <3> QED BY <1>3, <3>1, <3>2 DEF Sizes
    <2> QED BY <1>17, <2>1
<1>19. SignFlags(emu, SignedPart(65535 - src, bw) + 1 + SignedPart(dst, bw) + 0, bw)
    <2>1. SignFlags(CMP(c, loc, src, bw),
                    SignedPart(65535 - src, bw) + 1 + SignedPart(dst, bw) + 0, bw)
        <3> HIDE DEF c, loc, src, bw
        <3> QED BY <1>3, <1>13, <1>14, <1>18, ArithmeticFlags
    <2> QED BY <1>12, <2>1
<1>20. SignedPart(65535 - src, bw) = -s - 1
    <2> HIDE DEF bw, src
    <2> QED BY <1>3, <1>13, Complement DEF s
<1> HIDE DEF d, s, dst, src
<1>21. SignedPart(65535 - src, bw) + 1 + SignedPart(dst, bw) + 0 = d - s
    BY <1>16, <1>17, <1>20
<1>22. SignFlags(emu, d - s, bw)
    BY <1>19, <1>21
<1>23. is_zero(d - s, bw) = Flag(d = s)
    <2> DEFINE z == d - s
    <2>1. h \in {128, 32768} /\ (bw = "WORD" => h = 32768) /\ (bw = "BYTE" => h = 128)
        BY DEF Half
    <2> HIDE DEF h
    <2>2. z \in Int /\ -2 * h < z /\ z < 2 * h /\ (z = 0 <=> d = s)
        BY <1>17, <2>1
    <2> HIDE DEF z
    <2>3. CASE bw = "WORD"
        <3>1. z % 65536 = 0 <=> z = 0
            BY <2>1, <2>2, <2>3
        <3> QED BY <2>2, <2>3, <3>1 DEF is_zero, Part, U16, z
    <2>4. CASE bw = "BYTE"
        <3>1. z % 256 = 0 <=> z = 0
            BY <2>1, <2>2, <2>4
        <3> QED BY <2>2, <2>4, <3>1 DEF is_zero, Part, U8, z
    <2> QED BY <1>3, <2>3, <2>4 DEF Sizes
<1>24. /\ emu.sr.zero = Flag(d = s)
       /\ (emu.sr.negative # emu.sr.overflow) <=> d < s
    BY <1>17, <1>22, <1>23 DEF SignFlags
<1> QED BY <1>17, <1>24

LEMMA ConditionsAre ==
    ASSUME NEW e
    PROVE  /\ Taken(e, 0) <=> e.sr.zero = 0
           /\ Taken(e, 1) <=> e.sr.zero = 1
           /\ Taken(e, 5) <=> e.sr.negative = e.sr.overflow
           /\ Taken(e, 6) <=> e.sr.negative # e.sr.overflow
           /\ Holds(0) = (Operand(FirstI.destination) # Operand(FirstI.source))
           /\ Holds(1) = (Operand(FirstI.destination) = Operand(FirstI.source))
           /\ Holds(5) = (Operand(FirstI.destination) >= Operand(FirstI.source))
           /\ Holds(6) = (Operand(FirstI.destination) < Operand(FirstI.source))
<1> DEFINE d == Operand(FirstI.destination)
           s == Operand(FirstI.source)
<1>1. Taken(e, 0) <=> e.sr.zero = 0 BY DEF Taken
<1>2. Taken(e, 1) <=> e.sr.zero = 1 BY DEF Taken
<1>3. Taken(e, 5) <=> e.sr.negative = e.sr.overflow BY DEF Taken
<1>4. Taken(e, 6) <=> e.sr.negative # e.sr.overflow BY DEF Taken
<1>5. Holds(0) = (d # s) BY DEF Holds
<1>6. Holds(1) = (d = s) BY DEF Holds
<1>7. Holds(5) = (d >= s) BY DEF Holds
<1>8. Holds(6) = (d < s) BY DEF Holds
<1> QED BY <1>1, <1>2, <1>3, <1>4, <1>5, <1>6, <1>7, <1>8

LEMMA BranchStep ==
    ASSUME TypeOK, HistoryInv, [Next]_vars, Executes, After(1), StartsWithCompare, IsFormatIII,
           (Current \div 1024) % 8 \in {0, 1, 5, 6}, Current % 1024 # 0,
           Operand(FirstI.source) # -Half(FirstI.bw)
    PROVE  (emu'.r[PC] # U16(emu.r[PC] + 2)) = Holds((Current \div 1024) % 8)
<1> DEFINE f == AfterFetch(emu)
           no == FALSE
           condition == (Current \div 1024) % 8
           k == Current % 1024
           next == U16(emu.r[PC] + 2)
           target == U16(next + signed_offset(k))
           d == Operand(FirstI.destination)
           s == Operand(FirstI.source)
<1>1. /\ emu.sr.zero = Flag(d = s)
      /\ (emu.sr.negative # emu.sr.overflow) <=> d < s
      /\ d \in Int /\ s \in Int
    BY ComparedIs DEF HistoryInv
<1>2. PICK g \in Garbage : emu' = execute(emu, g)
    BY StepsAre
<1>3. no \in BOOLEAN /\ ~no
    OBVIOUS
<1> HIDE DEF no
<1>4. /\ IsEmulator(f) /\ Current \in Words /\ f.r[PC] = next /\ f.sr = emu.sr
      /\ emu' = decode_formatIII(f, Current, no)
    BY <1>2, <1>3, ExecutedIs
<1> HIDE DEF f
<1>5. PC \in 0..15 /\ next \in Words
    BY <1>4, RegIsWord DEF PC
<1>6. target # next /\ target \in Words
    <2>1. k \in Int /\ 0 < k /\ k <= 1023
        BY <1>4, WordsAre
    <2>2. next \in Nat /\ next <= 65535
        BY <1>5, WordsAre
    <2> HIDE DEF k, next
    <2> DEFINE o == signed_offset(k)
    <2>3. o \in Int /\ o # 0 /\ -2048 <= o /\ o <= 2046
        BY <2>1 DEF signed_offset
    <2> HIDE DEF o
    <2>4. (next + o) % 65536 # next /\ next + o \in Int
        BY <2>2, <2>3
    <2> QED BY <2>4, U16IsWord DEF U16, o
<1>7. emu' = IF Taken(f, condition) THEN SetReg(f, PC, target) ELSE f
    BY <1>3, <1>4 DEF decode_formatIII
<1>8. SetReg(f, PC, target).r[PC] = target
    <2> HIDE DEF target
    <2>1. SetReg(f, PC, target).r = [f.r EXCEPT ![PC] = target]
        BY <1>4, <1>5, <1>6, SetRegIs, SMTT(60)
    <2> QED BY <1>4, <1>5, <2>1 DEF IsEmulator
<1> HIDE DEF target, next
<1>9. (emu'.r[PC] # next) <=> Taken(f, condition)
    BY <1>4, <1>6, <1>7, <1>8
<1>10. condition = 0 \/ condition = 1 \/ condition = 5 \/ condition = 6
    OBVIOUS
<1> DEFINE jumps == emu'.r[PC] # next
<1> SUFFICES jumps = Holds(condition)
    BY DEF next
<1>11. /\ Holds(0) = (d # s) /\ Holds(1) = (d = s) /\ Holds(5) = (d >= s) /\ Holds(6) = (d < s)
       /\ Taken(f, 0) <=> d # s
       /\ Taken(f, 1) <=> d = s
       /\ Taken(f, 5) <=> d >= s
       /\ Taken(f, 6) <=> d < s
    <2> HIDE DEF jumps, condition, d, s
    <2>1. /\ Holds(0) = (d # s) /\ Holds(1) = (d = s) /\ Holds(5) = (d >= s) /\ Holds(6) = (d < s)
        BY ConditionsAre DEF d, s
    <2>2. /\ Taken(f, 0) <=> emu.sr.zero = 0
          /\ Taken(f, 1) <=> emu.sr.zero = 1
          /\ Taken(f, 5) <=> emu.sr.negative = emu.sr.overflow
          /\ Taken(f, 6) <=> emu.sr.negative # emu.sr.overflow
        BY <1>4, ConditionsAre
    <2> QED BY <1>1, <2>1, <2>2 DEF Flag
<1>12. (jumps <=> Taken(f, condition)) /\ jumps \in BOOLEAN
    BY <1>9
<1> HIDE DEF jumps, condition, d, s
<1>13. CASE condition = 0 BY <1>11, <1>12, <1>13
<1>14. CASE condition = 1 BY <1>11, <1>12, <1>14
<1>15. CASE condition = 5 BY <1>11, <1>12, <1>15
<1>16. CASE condition = 6 BY <1>11, <1>12, <1>16
<1> QED BY <1>10, <1>13, <1>14, <1>15, <1>16

(* Whatever two registers hold, in either size: CMP s, d and a conditional *)
(* jump branch on d # s, d = s, d >= s or d < s of the signed numbers,     *)
(* unless s is the lowest one (formatI.c:586-617, formatIII.c:50-159).     *)
THEOREM BranchesAreSigned == Spec => SignedBranchesRight
<1>1. TypeOK /\ HistoryInv /\ [Next]_vars
        => [Executes /\ After(1) /\ StartsWithCompare /\ IsFormatIII
            /\ (Current \div 1024) % 8 \in {0, 1, 5, 6} /\ Current % 1024 # 0
            /\ Operand(FirstI.source) # -Half(FirstI.bw) =>
                (emu'.r[PC] # U16(emu.r[PC] + 2)) = Holds((Current \div 1024) % 8)]_vars
    BY BranchStep
<1> QED BY <1>1, MachineTypes, History, PTL DEF Spec, SignedBranchesRight
-----------------------------------------------------------------------------
(* The stack                                                               *)

\* The state in which decode_formatII looks for its operand.
LEMMA PointedIs ==
    ASSUME NEW e, IsEmulator(e), NEW n \in 0..15
    PROVE  LET p == get_reg_ptr(AfterFetch(e), n) IN
           /\ IsEmulator(p) /\ p.mem = e.mem /\ p.r[PC] = U16(e.r[PC] + 2)
           /\ \A m \in 0..15 : m # PC /\ m # SR => p.r[m] = e.r[m]
           /\ n = SR => p.r[SR] = sr_to_value(e)
           /\ Fetched(p) = MemWord(e, U16(e.r[PC] + 2)) /\ Fetched(p) \in Words
<1> DEFINE f == AfterFetch(e)
           p == get_reg_ptr(f, n)
           next == U16(e.r[PC] + 2)
<1>1. Reads(e, f, 2, {}) /\ IsEmulator(f) /\ f.r[PC] = next /\ f.r[PC] \in Words
    BY FetchReads, RegIsWord DEF Reads, PC
<1> HIDE DEF f
<1>2. Reads(f, p, 0, {SR}) /\ U16(f.r[PC] + 0) = f.r[PC]
    BY <1>1, PointerReads, U16OfWord, WordsAre
<1>3. n = SR => p.r[SR] = sr_to_value(e)
    <2> SUFFICES ASSUME n = SR PROVE p.r[SR] = sr_to_value(e)
        OBVIOUS
    <2>1. p = SetReg(f, SR, sr_to_value(f)) /\ SR \in 0..15
        BY DEF get_reg_ptr, SR
    <2>2. sr_to_value(f) \in Words /\ sr_to_value(f) = sr_to_value(e)
        BY <1>1, StatusWord DEF sr_to_value, Reads
    <2> HIDE DEF p
    <2>3. p.r = [f.r EXCEPT ![SR] = sr_to_value(f)]
        BY <1>1, <2>1, <2>2, SetRegIs
    <2> QED BY <1>1, <2>1, <2>2, <2>3 DEF IsEmulator
<1> HIDE DEF p, next
<1>4. /\ IsEmulator(p) /\ p.mem = e.mem /\ p.r[PC] = next
      /\ \A m \in 0..15 : m # PC /\ m # SR => p.r[m] = e.r[m]
    BY <1>1, <1>2 DEF Reads, PC, SR
<1>5. Fetched(p) = MemWord(e, next) /\ Fetched(p) \in Words
    BY <1>4, SameBytes, MemWordIsWord DEF Fetched
<1> QED BY <1>3, <1>4, <1>5 DEF f, p, next

\* What an instruction finds that reads its operand before it changes anything:
\* in the state f after, the operand's value is v and its place is loc.
Finds(e, i, f, loc, v) ==
    /\ IsEmulator(f) /\ f.mem = e.mem /\ v \in Words /\ IsLoc(loc)
    /\ v = Meant(e, i.as, i.source)
    /\ \A n \in 0..15 : n # PC /\ n # SR /\ ~(n = i.source /\ i.as = 3) => f.r[n] = e.r[n]
    /\ f.r[SP] = U16(e.r[SP] + Used(i))
    /\ loc.kind = "reg" => i.as = 0 /\ loc.at = i.source /\ f.r[loc.at] = v
    /\ loc.kind = "mem" =>
        /\ i.as # 0 /\ ~constant_generator_active(i.source, i.as)
        /\ ~(i.source = PC /\ i.as = 3)
        /\ loc.at = MeantAt(e, i.as, i.source)
    /\ loc.kind = "bogus" => f.bogus = v

LEMMA OperandIsMeant ==
    ASSUME NEW e, IsEmulator(e), NEW i, IsFieldsII(i), i.bw = "WORD", ~Symbolic(i), NEW garbage
    PROVE  LET o == OperandII(get_reg_ptr(AfterFetch(e), i.source), i, garbage)
           IN  Finds(e, i, o.e, o.loc, o.value)
<1> DEFINE n == i.source
           p == get_reg_ptr(AfterFetch(e), n)
           o == OperandII(p, i, garbage)
           next == U16(e.r[PC] + 2)
           v == Meant(e, i.as, n)
           cg == constant_generator_active(n, i.as)
           at == MeantAt(e, i.as, n)
<1> SUFFICES Finds(e, i, o.e, o.loc, o.value)
    OBVIOUS
<1>1. /\ n \in 0..15 /\ i.as \in 0..3 /\ PC \in 0..15 /\ SP \in 0..15 /\ SP # PC /\ SP # SR
      /\ PC # SR
    BY DEF IsFieldsII, PC, SP, SR
<1>2. /\ IsEmulator(p) /\ p.mem = e.mem /\ p.r[PC] = next
      /\ \A m \in 0..15 : m # PC /\ m # SR => p.r[m] = e.r[m]
      /\ n = SR => p.r[SR] = sr_to_value(e)
      /\ Fetched(p) = MemWord(e, next) /\ Fetched(p) \in Words
    BY <1>1, PointedIs
<1>3. p.r[SP] = U16(e.r[SP] + 0) /\ e.r[SP] \in Words
    BY <1>1, <1>2, RegIsWord, U16OfWord, WordsAre
<1>4. \A g : ClearUpper(g, n, i.bw) = g
    BY DEF ClearUpper
<1> HIDE DEF p
<1>5. CASE cg
    <2> DEFINE w == run_constant_generator(n, i.as)
               g == [p EXCEPT !.bogus = w]
    <2>1. n # PC /\ Used(i) = 0 /\ v = w /\ (n = i.source /\ i.as = 3 => n \in {SR, 3})
        BY <1>5 DEF constant_generator_active, PC, SP, SR, Used, Meant
    <2>2. o.value = w /\ o.loc = InBogus /\ o.e = g
        BY <1>4, <1>5, <2>1 DEF OperandII
    <2>3. w \in Words
        BY <1>1, ConstantIsWord
    <2> HIDE DEF w
    <2>4. IsEmulator(g) /\ g.bogus = w /\ g.r = p.r /\ g.mem = p.mem
        BY <1>2, <2>3, SetBogusIs
    <2>5. InBogus.kind = "bogus" /\ IsLoc(InBogus)
        BY LocsAre DEF InBogus
    <2> HIDE DEF g, o, v
    <2> QED BY <1>1, <1>2, <1>3, <2>1, <2>2, <2>3, <2>4, <2>5 DEF Finds, v
<1>6. CASE ~cg /\ n = PC /\ i.as = 3
    <2> DEFINE w == Fetched(p)
               f == AfterFetch(p)
               g == [f EXCEPT !.bogus = w]
    <2>1. Used(i) = 0 /\ v = w
        BY <1>2, <1>6 DEF PC, SP, Used, Meant, MeantAt
    <2>2. o.value = w /\ o.loc = InBogus /\ o.e = g
        BY <1>6 DEF OperandII
    <2>3. w \in Words
        BY <1>2
    <2>4. Reads(p, f, 2, {}) /\ IsEmulator(f)
        BY <1>2, FetchReads DEF Reads
    <2> HIDE DEF w, f
    <2>5. IsEmulator(g) /\ g.bogus = w /\ g.r = f.r /\ g.mem = f.mem
        BY <2>3, <2>4, SetBogusIs
    <2>6. InBogus.kind = "bogus" /\ IsLoc(InBogus)
        BY LocsAre DEF InBogus
    <2>7. f.mem = e.mem /\ \A m \in 0..15 : m # PC /\ m # SR => f.r[m] = e.r[m]
        BY <1>2, <2>4 DEF Reads
    <2>8. f.r[SP] = U16(e.r[SP] + 0)
        BY <1>1, <1>2, <1>3, <2>7
    <2> HIDE DEF g, o, v
    <2> QED BY <2>1, <2>2, <2>3, <2>5, <2>6, <2>7, <2>8 DEF Finds, v
<1>7. CASE ~cg /\ i.as = 0
    <2>1. o.value = p.r[n] /\ o.loc = InReg(n) /\ o.e = p
        BY <1>4, <1>7 DEF OperandII
    <2>2. v = p.r[n] /\ v \in Words
        <3>1. v = IF n = PC THEN next ELSE IF n = SR THEN sr_to_value(e) ELSE e.r[n]
            BY <1>7 DEF Meant
        <3>2. v = p.r[n]
            BY <1>1, <1>2, <3>1
        <3> QED BY <1>1, <1>2, <3>2, RegIsWord
    <2>3. Used(i) = 0 /\ InReg(n).kind = "reg" /\ InReg(n).at = n /\ IsLoc(InReg(n))
        BY <1>1, <1>7, LocsAre DEF Used, InReg
    <2> HIDE DEF o, v
    <2> QED BY <1>2, <1>3, <1>7, <2>1, <2>2, <2>3 DEF Finds, v
<1>8. CASE ~cg /\ i.as = 1
    <2> DEFINE f == AfterFetch(p)
               x == Fetched(p)
               addr == CASE n = PC -> U16(f.r[PC] + Fetched(p))
                         [] n = SR -> Fetched(p)
                         [] OTHER -> U16(f.r[n] + Fetched(p))
    <2>1. n # PC /\ Used(i) = 0
        BY <1>8 DEF Symbolic, Used
    <2>2. o.value = MemWord(f, addr) /\ o.loc = InMem(addr) /\ o.e = f
        BY <1>8, <2>1 DEF OperandII
    <2>3. Reads(p, f, 2, {}) /\ IsEmulator(f)
        BY <1>2, FetchReads DEF Reads
    <2> HIDE DEF f
    <2>4. f.mem = e.mem /\ \A m \in 0..15 : m # PC /\ m # SR => f.r[m] = e.r[m]
        BY <1>2, <2>3 DEF Reads
    <2>5. f.r[SP] = U16(e.r[SP] + 0)
        BY <1>1, <1>2, <1>3, <2>4
    <2>6. addr = at /\ at \in Words
        <3>1. x \in Words /\ x = MemWord(e, next) /\ x \in Int
            BY <1>2, WordsAre
        <3>2. at = U16((CASE n = PC -> e.r[PC] + 2 [] n = SR -> 0 [] OTHER -> e.r[n]) + x)
            BY <1>8, <3>1 DEF MeantAt
        <3> HIDE DEF x, at
        <3>3. CASE n = SR
            <4>1. at = U16(0 + x)
                BY <2>1, <3>2, <3>3
            <4>2. U16(0 + x) = x
                BY <3>1, U16OfWord
            <4> QED BY <2>1, <3>1, <3>3, <4>1, <4>2 DEF x
        <3>4. CASE n # SR
            <4>1. at = U16(e.r[n] + x) /\ addr = U16(f.r[n] + x) /\ e.r[n] \in Words
                BY <1>1, <2>1, <3>2, <3>4, RegIsWord DEF x
            <4>2. f.r[n] = e.r[n]
                BY <1>1, <2>1, <2>4, <3>4
            <4>3. e.r[n] + x \in Int
                BY <3>1, <4>1, WordsAre
            <4> QED BY <4>1, <4>2, <4>3, U16IsWord
        <3> QED BY <3>3, <3>4
    <2> HIDE DEF addr
    <2>7. v = MemWord(e, at)
        BY <1>8 DEF Meant
    <2>8. MemWord(f, at) = MemWord(e, at) /\ MemWord(e, at) \in Words
        BY <2>4, SameBytes, MemWordIsWord
    <2> HIDE DEF at
    <2>9. InMem(at).kind = "mem" /\ InMem(at).at = at /\ IsLoc(InMem(at))
        BY <2>6, LocsAre, U16OfWord, WordsAre DEF InMem
    <2> HIDE DEF o, v, cg
    <2> QED BY <1>8, <2>1, <2>2, <2>3, <2>4, <2>5, <2>6, <2>7, <2>8, <2>9
        DEF Finds, v, at, cg
<1>9. CASE ~cg /\ (i.as = 2 \/ (i.as = 3 /\ n # PC))
    <2> DEFINE f == Increment(p, n, i.bw)
               g == IF i.as = 2 THEN p ELSE f
    <2>1. o.value = MemWord(p, p.r[n]) /\ o.loc = InMem(p.r[n]) /\ o.e = g
        BY <1>9 DEF OperandII
    <2>2. n # SR
        BY <1>9 DEF constant_generator_active
    <2>3. at = p.r[n] /\ v = MemWord(e, at) /\ at \in Words
        <3>1. at = IF n = PC THEN next ELSE e.r[n]
            BY <1>9 DEF MeantAt
        <3>2. v = MemWord(e, at)
            BY <1>9 DEF Meant
        <3> QED BY <1>1, <1>2, <2>2, <3>1, <3>2, RegIsWord
    <2> HIDE DEF at
    <2>4. MemWord(p, at) = MemWord(e, at) /\ MemWord(e, at) \in Words
        BY <1>2, SameBytes, MemWordIsWord
    <2>5. InMem(at).kind = "mem" /\ InMem(at).at = at /\ IsLoc(InMem(at))
        BY <2>3, LocsAre, U16OfWord, WordsAre DEF InMem
    <2>8. g = IF i.as = 2 THEN p ELSE f
        OBVIOUS
    <2> HIDE DEF g
    <2>6. /\ IsEmulator(g) /\ g.mem = e.mem
          /\ \A m \in 0..15 : m # PC /\ m # SR /\ ~(m = n /\ i.as = 3) => g.r[m] = e.r[m]
          /\ g.r[SP] = U16(e.r[SP] + Used(i))
        <3>1. CASE i.as = 2
            <4>0. g = p
                BY <2>8, <3>1
            <4>1. Used(i) = 0
                BY <3>1 DEF Used
            <4> QED BY <1>1, <1>2, <1>3, <3>1, <4>0, <4>1
        <3>2. CASE i.as = 3
            <4>0. g = f
                BY <2>8, <3>2
            <4> DEFINE w == U16(p.r[n] + 2)
            <4>1. f = SetReg(p, n, w)
                BY DEF Increment
            <4>2. w \in Words
                BY <2>3, U16IsWord, WordsAre
            <4> HIDE DEF f
            <4>3. IsEmulator(f) /\ f.r = [p.r EXCEPT ![n] = w] /\ f.mem = p.mem
                <5>1. IsEmulator(p) /\ n \in 0..15
                    BY <1>1, <1>2
                <5> HIDE DEF w, n
                <5> QED BY <4>1, <4>2, <5>1, SetRegGives
            <4>4. f.r[n] = U16(p.r[n] + 2) /\ \A m \in 0..15 : m # n => f.r[m] = p.r[m]
                BY <1>1, <1>2, <4>3 DEF IsEmulator
            <4>5. f.r[SP] = U16(e.r[SP] + Used(i))
                <5>1. CASE n = SP
                    <6>1. Used(i) = 2
                        BY <3>2, <5>1 DEF Used
                    <6> QED BY <1>1, <1>2, <4>4, <5>1, <6>1
                <5>2. CASE n # SP
                    <6>1. Used(i) = 0
                        BY <5>2 DEF Used
                    <6> QED BY <1>1, <1>2, <1>3, <4>4, <5>2, <6>1
                <5> QED BY <5>1, <5>2
            <4> QED BY <1>2, <3>2, <4>0, <4>3, <4>4, <4>5
        <3> QED BY <1>9, <3>1, <3>2
    <2> HIDE DEF o, v, cg
    <2>7. i.as # 0 /\ ~(n = PC /\ i.as = 3)
        BY <1>9
    <2> QED BY <1>9, <2>1, <2>3, <2>4, <2>5, <2>6, <2>7 DEF Finds, v, at, cg
<1>10. i.as = 0 \/ i.as = 1 \/ i.as = 2 \/ i.as = 3
    BY <1>1
<1> QED BY <1>5, <1>6, <1>7, <1>8, <1>9, <1>10

\* PUSH and CALL, executed: what they find does not depend on what the
\* uninitialised source_value holds, unless they use it.
LEMMA StackInstructionIs ==
    ASSUME NEW e, IsEmulator(e), NEW garbage, Fetched(e) \div 4096 = 1
    PROVE  LET i == FieldsII(Fetched(e))
               o == OperandII(get_reg_ptr(AfterFetch(e), i.source), i, garbage)
           IN  /\ IsFieldsII(i)
               /\ disassemble_one(e, 0).r[PC] = o.e.r[PC]
               /\ i.opcode = 4 => execute(e, garbage) = PUSH(o.e, o.value, i.bw)
               /\ i.opcode = 5 => execute(e, garbage) = CALL(o.e, o.loc)
<1> DEFINE w == Fetched(e)
           i == FieldsII(w)
           f == AfterFetch(e)
           p == get_reg_ptr(f, i.source)
           o == OperandII(p, i, garbage)
           yes == TRUE
           no == FALSE
<1>1. IsFieldsII(i)
    BY FetchReads, FieldsIIAre
<1>2. yes /\ ~no
    OBVIOUS
<1> HIDE DEF yes, no
<1>3. /\ decode_formatII(f, w, yes, 0) = OperandII(p, i, 0).e
      /\ i.opcode = 4 => decode_formatII(f, w, no, garbage) = PUSH(o.e, o.value, i.bw)
      /\ i.opcode = 5 => decode_formatII(f, w, no, garbage) = CALL(o.e, o.loc)
    <2>1. decode_formatII(f, w, yes, 0) = OperandII(p, i, 0).e
        BY <1>2 DEF decode_formatII
    <2>2. i.opcode = 4 => decode_formatII(f, w, no, garbage) = PUSH(o.e, o.value, i.bw)
        BY <1>2 DEF decode_formatII
    <2>3. i.opcode = 5 => decode_formatII(f, w, no, garbage) = CALL(o.e, o.loc)
        BY <1>2 DEF decode_formatII
    <2> QED BY <2>1, <2>2, <2>3
<1>4. /\ disassemble_one(e, 0) = decode(f, w, yes, 0)
      /\ execute(e, garbage) = decode(f, w, no, garbage)
    BY DEF disassemble_one, execute, yes, no
<1>5. OperandII(p, i, 0).e = o.e
    <2> HIDE DEF i, p
    <2>1. i.as = 0 \/ i.as = 1 \/ i.as = 2 \/ i.as = 3
        BY <1>1 DEF IsFieldsII
    <2> QED BY <2>1 DEF OperandII
<1> HIDE DEF f, p
<1>6. \A d, g : decode(f, w, d, g) = decode_formatII(f, w, d, g)
    BY DecodeByFormat
<1> QED BY <1>1, <1>3, <1>4, <1>5, <1>6 DEF f, p

\* PUSH and CALL move the stack pointer and store a word under it.
LEMMA StoredOnStack ==
    ASSUME NEW e, IsEmulator(e), NEW w \in Words
    PROVE  LET at == U16(e.r[SP] - 2)
               f == SetMemWord(Pushed(e), Pushed(e).r[SP], w)
           IN  /\ IsEmulator(f) /\ at \in Words /\ f.r = [e.r EXCEPT ![SP] = at]
               /\ f.bogus = e.bogus /\ MemWord(f, at) = w
               /\ \A a : a \notin {at, at + 1} => Byte(f, a) = Byte(e, a)
<1> DEFINE at == U16(e.r[SP] - 2)
           p == Pushed(e)
           f == SetMemWord(p, p.r[SP], w)
<1>1. SP \in 0..15 /\ at \in Words
    BY RegIsWord, U16IsWord, WordsAre DEF SP
<1>2. p = SetReg(e, SP, at)
    BY DEF Pushed
<1> HIDE DEF at, p
<1>3. IsEmulator(p) /\ p.r = [e.r EXCEPT ![SP] = at] /\ p.mem = e.mem /\ p.bogus = e.bogus
    BY <1>1, <1>2, SetRegIs
<1>4. p.r[SP] = at
    BY <1>1, <1>3 DEF IsEmulator
<1>5. f = SetMemWord(p, at, w)
    BY <1>4
<1> HIDE DEF f
<1>6. /\ IsEmulator(f) /\ f.r = p.r /\ f.bogus = p.bogus /\ MemWord(f, at) = w
      /\ \A a : a \notin {at, at + 1} => Byte(f, a) = Byte(p, a)
    BY <1>1, <1>3, <1>5, SetMemWordIs, SMTT(60)
<1>7. \A a : Byte(p, a) = Byte(e, a)
    BY <1>3, SameBytes
<1> QED BY <1>1, <1>3, <1>6, <1>7 DEF at, p, f

\* f is e after the stack instruction i has pushed w.
HasPushed(e, i, f, w) ==
    /\ IsEmulator(f)
    /\ f.r[SP] = PushedAt(e, i) /\ MemWord(f, PushedAt(e, i)) = w
    /\ \A a : a \notin {PushedAt(e, i), PushedAt(e, i) + 1} => Byte(f, a) = Byte(e, a)
    /\ \A n \in 0..15 : n \notin {PC, SP, SR} /\ ~(n = i.source /\ i.as = 3)
            => f.r[n] = e.r[n]

LEMMA ApartUnchanged ==
    ASSUME NEW e, NEW f, NEW at, \A a : a \notin {at, at + 1} => Byte(f, a) = Byte(e, a),
           NEW b, Apart(at, b)
    PROVE  MemWord(f, b) = MemWord(e, b)
<1>1. b \notin {at, at + 1} /\ b + 1 \notin {at, at + 1}
    BY DEF Apart
<1> QED BY <1>1 DEF MemWord

\* What the stack holds after a word was pushed over what an operand left.
LEMMA PushedIsStored ==
    ASSUME NEW e, IsEmulator(e), NEW i, NEW f, NEW loc, NEW v, Finds(e, i, f, loc, v),
           NEW w \in Words
    PROVE  LET g == SetMemWord(Pushed(f), Pushed(f).r[SP], w)
           IN  /\ HasPushed(e, i, g, w) /\ g.bogus = f.bogus
               /\ \A n \in 0..15 : n # SP => g.r[n] = f.r[n]
<1> DEFINE at == PushedAt(e, i)
           g == SetMemWord(Pushed(f), Pushed(f).r[SP], w)
<1>1. IsEmulator(f) /\ f.mem = e.mem /\ f.r[SP] = U16(e.r[SP] + Used(i))
    BY DEF Finds
<1>2. U16(f.r[SP] - 2) = at
    <2> DEFINE x == e.r[SP] + Used(i)
    <2>1. e.r[SP] \in Int /\ Used(i) \in Int /\ x \in Int
        BY RegIsWord, WordsAre DEF SP, Used
    <2>2. e.r[SP] + Used(i) - 2 = x - 2
        BY <2>1
    <2>4. f.r[SP] = U16(x) /\ at = U16(x - 2)
        BY <1>1, <2>2 DEF PushedAt
    <2> HIDE DEF x
    <2>3. U16(U16(x) - 2) = U16(x - 2)
        BY <2>1 DEF U16
    <2> QED BY <2>3, <2>4
<1> HIDE DEF at
<1>3. /\ IsEmulator(g) /\ g.r = [f.r EXCEPT ![SP] = at]
      /\ g.bogus = f.bogus /\ MemWord(g, at) = w
      /\ \A a : a \notin {at, at + 1} => Byte(g, a) = Byte(f, a)
    BY <1>1, <1>2, StoredOnStack
<1> HIDE DEF g
<1>4. g.r[SP] = at /\ \A n \in 0..15 : n # SP => g.r[n] = f.r[n]
    BY <1>1, <1>3 DEF IsEmulator, SP
<1>5. \A a : Byte(f, a) = Byte(e, a)
    BY <1>1, SameBytes
<1>6. HasPushed(e, i, g, w)
    BY <1>3, <1>4, <1>5 DEF HasPushed, Finds, at
<1> QED BY <1>3, <1>4, <1>6 DEF g

LEMMA PushStep ==
    ASSUME NEW e, IsEmulator(e), NEW garbage \in Words, Fetched(e) \div 4096 = 1,
           NEW i, i = FieldsII(Fetched(e)), i.opcode = 4, i.bw = "WORD", ~Symbolic(i)
    PROVE  LET f == execute(e, garbage)
           IN  /\ HasPushed(e, i, f, Meant(e, i.as, i.source))
               /\ f.r[PC] = disassemble_one(e, 0).r[PC]
<1> DEFINE o == OperandII(get_reg_ptr(AfterFetch(e), i.source), i, garbage)
           g == o.e
           loc == o.loc
           v == o.value
           f == execute(e, garbage)
           h == SetMemWord(Pushed(g), Pushed(g).r[SP], v)
<1>1. /\ IsFieldsII(i) /\ disassemble_one(e, 0).r[PC] = g.r[PC]
      /\ f = PUSH(g, v, i.bw)
    BY StackInstructionIs
<1>2. Finds(e, i, g, loc, v)
    BY <1>1, OperandIsMeant
<1>3. PUSH(g, v, i.bw) = h
    BY DEF PUSH
<1> HIDE DEF g, loc, v, o, f
<1>4. v \in Words /\ v = Meant(e, i.as, i.source)
    BY <1>2 DEF Finds
<1>5. HasPushed(e, i, h, v) /\ \A n \in 0..15 : n # SP => h.r[n] = g.r[n]
    BY <1>2, <1>4, PushedIsStored
<1> HIDE DEF h
<1>6. h.r[PC] = g.r[PC]
    BY <1>5 DEF PC, SP
<1> QED BY <1>1, <1>3, <1>4, <1>5, <1>6 DEF f

LEMMA CallStep ==
    ASSUME NEW e, IsEmulator(e), NEW garbage \in Words, Fetched(e) \div 4096 = 1,
           NEW i, i = FieldsII(Fetched(e)), i.opcode = 5, Callable(i), Spared(e, i)
    PROVE  LET f == execute(e, garbage)
           IN  /\ HasPushed(e, i, f, disassemble_one(e, 0).r[PC])
               /\ f.r[PC] = Meant(e, i.as, i.source)
<1> DEFINE o == OperandII(get_reg_ptr(AfterFetch(e), i.source), i, garbage)
           g == o.e
           loc == o.loc
           v == o.value
           f == execute(e, garbage)
           pc == g.r[PC]
           at == PushedAt(e, i)
           p == Pushed(g)
           h == SetMemWord(p, p.r[SP], pc)
           x == ReadWord(h, loc)
<1>1. /\ IsFieldsII(i) /\ disassemble_one(e, 0).r[PC] = pc
      /\ f = CALL(g, loc)
    BY StackInstructionIs
<1>2. Finds(e, i, g, loc, v)
    BY <1>1, OperandIsMeant DEF Callable
<1> HIDE DEF g, loc, v, o, f
<1>3. pc \in Words /\ p.r[PC] = pc /\ PC \in 0..15
    BY <1>2, PushedIs DEF Finds, PC
<1>4. CALL(g, loc) = SetReg(h, PC, x)
    BY <1>3 DEF CALL
<1> HIDE DEF pc
<1>5. /\ HasPushed(e, i, h, pc) /\ h.bogus = g.bogus
      /\ \A n \in 0..15 : n # SP => h.r[n] = g.r[n]
    BY <1>2, <1>3, PushedIsStored
<1> HIDE DEF h, p
<1>6. x = v
    <2>1. CASE loc.kind = "reg"
        <3>1. loc.at \in 0..15 /\ loc.at # SP /\ g.r[loc.at] = v
            BY <1>2, <2>1 DEF Finds, Callable, IsLoc
        <3> QED BY <1>5, <2>1, <3>1 DEF ReadWord
    <2>2. CASE loc.kind = "mem"
        <3> DEFINE a == MeantAt(e, i.as, i.source)
        <3>1. loc.at = a /\ v = MemWord(e, a) /\ Apart(at, a)
            BY <1>2, <2>2 DEF Finds, Meant, Spared
        <3> HIDE DEF a
        <3>2. MemWord(h, a) = MemWord(e, a)
            BY <1>5, <3>1, ApartUnchanged DEF HasPushed
        <3> QED BY <2>2, <3>1, <3>2 DEF ReadWord
    <2>3. CASE loc.kind = "bogus"
        BY <1>2, <1>5, <2>3 DEF Finds, ReadWord
    <2> QED BY <1>2, <2>1, <2>2, <2>3 DEF Finds, IsLoc
<1> HIDE DEF x, at
<1> DEFINE z == SetReg(h, PC, v)
<1>7. v \in Words /\ v = Meant(e, i.as, i.source) /\ IsEmulator(h)
    BY <1>2, <1>5 DEF Finds, HasPushed
<1>8. IsEmulator(z) /\ z.r = [h.r EXCEPT ![PC] = v] /\ z.mem = h.mem
    <2>1. z = SetReg(h, PC, v)
        OBVIOUS
    <2> HIDE DEF z
    <2> QED BY <1>3, <1>7, <2>1, SetRegGives
<1> HIDE DEF z
<1>9. z.r[PC] = v /\ \A n \in 0..15 : n # PC => z.r[n] = h.r[n]
    BY <1>3, <1>7, <1>8 DEF IsEmulator
<1>10. \A a : Byte(z, a) = Byte(h, a) /\ MemWord(z, a) = MemWord(h, a)
    BY <1>8, SameBytes
<1>11. HasPushed(e, i, z, pc)
    BY <1>5, <1>8, <1>9, <1>10 DEF HasPushed, SP, PC
<1>12. f = z
    BY <1>1, <1>4, <1>6 DEF z
<1> QED BY <1>1, <1>7, <1>9, <1>11, <1>12 DEF f

\* MOV @SP+, Rn
LEMMA PopStep ==
    ASSUME NEW e, IsEmulator(e), NEW garbage \in Words, NEW n \in {PC} \cup 4..15,
           Pops(Fetched(e), n)
    PROVE  LET f == execute(e, garbage)
           IN  /\ f.r[n] = MemWord(e, e.r[SP]) /\ f.r[SP] = U16(e.r[SP] + 2)
               /\ \A m \in 0..15 : m \notin {PC, SP, n} => f.r[m] = e.r[m]
<1> DEFINE w == Fetched(e)
           i == FieldsI(w)
           g == AfterFetch(e)
           no == FALSE
           next == U16(e.r[SP] + 2)
           top == MemWord(e, e.r[SP])
           h == SetReg(g, SP, next)
           f == SetReg(h, n, top)
<1>1. n \in 0..15 /\ n # SR /\ n # SP /\ SP \in 0..15 /\ SP # PC /\ SP # SR /\ SP # 3
      /\ PC \in 0..15
    BY DEF PC, SP, SR
<1>2. /\ i.opcode = 4 /\ i.source = SP /\ i.as = 3 /\ i.ad = 0 /\ i.bw = "WORD"
      /\ i.destination = n /\ w \div 4096 \in 4..15
    <2>1. w = 16688 + n /\ n \in Nat /\ n <= 15
        BY <1>1 DEF Pops, SP
    <2> HIDE DEF w
    <2>2. /\ w \div 4096 = 4 /\ (w \div 256) % 16 = 1 /\ (w \div 16) % 4 = 3
          /\ (w \div 128) % 2 = 0 /\ (w \div 64) % 2 = 0 /\ w % 16 = n
        BY <2>1
    <2> QED BY <2>2 DEF FieldsI, SP
<1>3. no \in BOOLEAN /\ ~no
    OBVIOUS
<1>4. execute(e, garbage) = decode(g, w, no, garbage)
    BY DEF execute
<1> HIDE DEF no, w
<1>5. /\ IsEmulator(g) /\ g.mem = e.mem
      /\ \A m \in 0..15 : m # PC => g.r[m] = e.r[m]
    BY FetchReads DEF Reads
<1> HIDE DEF g
<1>6. e.r[SP] \in Words /\ g.r[SP] = e.r[SP] /\ next \in Words /\ top \in Words
    BY <1>1, <1>5, RegIsWord, U16IsWord, MemWordIsWord, WordsAre
<1>7. get_reg_ptr(get_reg_ptr(g, i.source), i.destination) = g
    BY <1>1, <1>2 DEF get_reg_ptr
<1> HIDE DEF i
<1>8. MemWord(g, g.r[SP]) = top
    BY <1>5, <1>6, SameBytes
<1>9. Increment(g, SP, "WORD") = h
    BY <1>6 DEF Increment
<1>10. ~constant_generator_active(i.source, i.as)
    BY <1>1, <1>2 DEF constant_generator_active
<1>11. SourceI(g, i, no).value = top /\ SourceI(g, i, no).e = h
    BY <1>1, <1>2, <1>3, <1>8, <1>9, <1>10 DEF SourceI
<1> DEFINE o == OperandsI(g, i, no)
<1>12. o.value = top /\ o.loc = InReg(n) /\ o.e = h
    BY <1>2, <1>3, <1>11 DEF OperandsI, ClearUpper
<1> HIDE DEF o, next, top, h
<1>13. decode_formatI(g, w, no) = AluI(h, i, InReg(n), top)
    BY <1>3, <1>7, <1>12 DEF decode_formatI, i, o
<1>14. AluI(h, i, InReg(n), top) = Write(h, InReg(n), top, "WORD")
    BY <1>2 DEF AluI
<1>15. Write(h, InReg(n), top, "WORD") = f
    <2>1. U16(top) = top /\ InReg(n).kind = "reg" /\ InReg(n).at = n
        BY <1>6, U16OfWord DEF InReg
    <2> QED BY <2>1 DEF Write, WriteWord
<1>16. execute(e, garbage) = f
    BY <1>2, <1>4, <1>13, <1>14, <1>15, DecodeByFormat
<1>17. IsEmulator(h) /\ h.r = [g.r EXCEPT ![SP] = next]
    BY <1>1, <1>5, <1>6, SetRegIs DEF h
<1>18. IsEmulator(f) /\ f.r = [h.r EXCEPT ![n] = top]
    <2>1. n \in 0..15 /\ top \in Words /\ IsEmulator(h)
        BY <1>1, <1>6, <1>17
    <2> QED BY <2>1, SetRegIs
<1> HIDE DEF f
<1>19. h.r[SP] = next /\ \A m \in 0..15 : m # SP => h.r[m] = g.r[m]
    BY <1>1, <1>5, <1>17 DEF IsEmulator
<1>20. f.r[n] = top /\ \A m \in 0..15 : m # n => f.r[m] = h.r[m]
    BY <1>1, <1>17, <1>18 DEF IsEmulator
<1> QED BY <1>1, <1>5, <1>16, <1>19, <1>20 DEF next, top

LEMMA CallGoesStep ==
    ASSUME TypeOK, [Next]_vars, Executes, IsFormatII, II.opcode = 5, Callable(II), Spared(emu, II)
    PROVE  emu'.r[PC] = Meant(emu, II.as, II.source)
<1> DEFINE i == II
<1>1. PICK g \in Garbage : emu' = execute(emu, g)
    BY StepsAre
<1>2. g \in Words /\ IsEmulator(emu) /\ Fetched(emu) \div 4096 = 1 /\ i = FieldsII(Fetched(emu))
    BY CpuAssumption DEF TypeOK, IsFormatII, II, Current
<1> HIDE DEF i
<1>3. i.opcode = 5 /\ Callable(i) /\ Spared(emu, i)
    BY DEF i
<1>4. execute(emu, g).r[PC] = Meant(emu, i.as, i.source)
    BY <1>2, <1>3, CallStep
<1> QED BY <1>1, <1>4 DEF i

(* A CALL through any word operand, in any mode but SP, @SP+ and symbolic, *)
(* goes where the operand said before CALL pushed pc, if the word pushed   *)
(* is not the operand's (formatII.c:64-189, 326-334).                      *)
THEOREM CallsGoToSource == Spec => CallGoesToSource
<1>1. TypeOK /\ [Next]_vars
        => [Executes /\ IsFormatII /\ II.opcode = 5 /\ Callable(II) /\ Spared(emu, II) =>
                emu'.r[PC] = Meant(emu, II.as, II.source)]_vars
    BY CallGoesStep
<1> QED BY <1>1, MachineTypes, PTL DEF Spec, CallGoesToSource

\* The stack pointer comes back by what PUSH and CALL moved it.
LEMMA PoppedBack ==
    ASSUME NEW e, IsEmulator(e), NEW i
    PROVE  U16(PushedAt(e, i) + 2) = U16(e.r[SP] + Used(i)) /\ U16(e.r[SP]) = e.r[SP]
<1> DEFINE x == e.r[SP] + Used(i)
<1>1. e.r[SP] \in Words /\ e.r[SP] \in Int /\ Used(i) \in Int /\ x \in Int
    BY RegIsWord, WordsAre DEF SP, Used
<1>2. e.r[SP] + Used(i) - 2 = x - 2
    BY <1>1
<1>3. PushedAt(e, i) = U16(x - 2)
    BY <1>2 DEF PushedAt
<1> HIDE DEF x
<1>4. U16(U16(x - 2) + 2) = U16(x)
    BY <1>1 DEF U16
<1>5. U16(PushedAt(e, i) + 2) = U16(x)
    BY <1>3, <1>4
<1> QED BY <1>1, <1>5, U16OfWord DEF x

LEMMA PushedIsPopped == HistoryInv => PushPop
<1> DEFINE i == FirstII
           v == Meant(start, i.as, i.source)
           pop == MemWord(start, Second)
           at == PushedAt(start, i)
<1> SUFFICES ASSUME HistoryInv, After(2), FirstIsFormatII, i.opcode = 4, i.bw = "WORD",
                    ~Symbolic(i), Apart(at, Second), \E n \in 4..15 : Pops(pop, n)
             PROVE  emu.r[pop % 16] = v /\ emu.r[SP] = U16(start.r[SP] + Used(i))
    BY Zenon DEF PushPop
<1>1. PICK n \in 4..15 : Pops(pop, n)
    OBVIOUS
<1>2. PICK g \in Garbage, h \in Garbage : emu = execute(execute(start, g), h)
    BY DEF HistoryInv
<1>3. IsEmulator(start) /\ g \in Words /\ h \in Words
    BY CpuAssumption DEF HistoryInv
<1> DEFINE f == execute(start, g)
<1>4. i = FieldsII(Fetched(start)) /\ Fetched(start) \div 4096 = 1
    BY DEF FirstII, FirstIsFormatII
<1> HIDE DEF i, v
<1>5. HasPushed(start, i, f, Meant(start, i.as, i.source)) /\ f.r[PC] = Second
    BY <1>3, <1>4, PushStep DEF Second
<1> HIDE DEF f, at
<1>6. IsEmulator(f) /\ f.r[SP] = at /\ MemWord(f, at) = v
    BY <1>5 DEF HasPushed, at, v
<1>7. MemWord(f, Second) = pop
    BY <1>5, ApartUnchanged DEF HasPushed, at
<1>8. Fetched(f) = pop
    BY <1>5, <1>7 DEF Fetched
<1> HIDE DEF pop
<1>9. /\ execute(f, h).r[n] = MemWord(f, f.r[SP])
      /\ execute(f, h).r[SP] = U16(f.r[SP] + 2)
    BY <1>1, <1>3, <1>6, <1>8, PopStep
<1>10. pop % 16 = n
    BY <1>1 DEF Pops, SP
<1>11. U16(at + 2) = U16(start.r[SP] + Used(i))
    BY <1>3, PoppedBack DEF at
<1> QED BY <1>2, <1>6, <1>9, <1>10, <1>11 DEF f

(* Whatever the operand, its addressing mode and the stack pointer: PUSH   *)
(* and MOV @SP+, Rn bring the operand to Rn and the stack pointer back,    *)
(* unless the word pushed overwrites the second instruction                *)
(* (formatII.c:304-318, formatI.c:304-360).                                *)
THEOREM PushThenPop == Spec => []PushPop
BY History, PushedIsPopped, PTL

LEMMA CallReturns == HistoryInv => CallReturn
<1> DEFINE i == FirstII
           target == Meant(start, i.as, i.source)
           ret == MemWord(start, target)
           at == PushedAt(start, i)
           keeps(n) == n # SR /\ ~(n = i.source /\ i.as = 3)
<1> SUFFICES ASSUME HistoryInv, After(2), FirstIsFormatII, i.opcode = 5, Callable(i),
                    Spared(start, i), Apart(at, target), Pops(ret, PC)
             PROVE  /\ emu.r[PC] = Second
                    /\ \A n \in 1..15 : keeps(n) => emu.r[n] = start.r[n]
    BY Zenon DEF CallReturn
<1>2. PICK g \in Garbage, h \in Garbage : emu = execute(execute(start, g), h)
    BY DEF HistoryInv
<1>3. IsEmulator(start) /\ g \in Words /\ h \in Words
    BY CpuAssumption DEF HistoryInv
<1> DEFINE f == execute(start, g)
<1>4. i = FieldsII(Fetched(start)) /\ Fetched(start) \div 4096 = 1
    BY DEF FirstII, FirstIsFormatII
<1> HIDE DEF i
<1>5. HasPushed(start, i, f, Second) /\ f.r[PC] = target
    BY <1>3, <1>4, CallStep DEF Second
<1> HIDE DEF f, at, target
<1>6. IsEmulator(f) /\ f.r[SP] = at /\ MemWord(f, at) = Second
    BY <1>5 DEF HasPushed, at
<1>7. MemWord(f, target) = ret
    BY <1>5, ApartUnchanged DEF HasPushed, at
<1>8. Fetched(f) = ret
    BY <1>5, <1>7 DEF Fetched
<1> HIDE DEF ret
<1>9. /\ execute(f, h).r[PC] = MemWord(f, f.r[SP])
      /\ execute(f, h).r[SP] = U16(f.r[SP] + 2)
      /\ \A m \in 0..15 : m \notin {PC, SP, PC} => execute(f, h).r[m] = f.r[m]
    BY <1>3, <1>6, <1>8, PopStep
<1>10. U16(at + 2) = start.r[SP]
    <2>1. Used(i) = 0 /\ start.r[SP] + 0 = start.r[SP]
        <3>1. start.r[SP] \in Int
            BY <1>3, RegIsWord, WordsAre DEF SP
        <3> QED BY <3>1 DEF Callable, Used
    <2> QED BY <1>3, <2>1, PoppedBack DEF at
<1>11. ASSUME NEW n \in 1..15, keeps(n)
       PROVE  emu.r[n] = start.r[n]
    <2>1. CASE n = SP
        BY <1>2, <1>6, <1>9, <1>10, <2>1 DEF f
    <2>2. CASE n # SP
        <3>1. n \in 0..15 /\ n \notin {PC, SP, SR} /\ ~(n = i.source /\ i.as = 3)
            BY <1>11, <2>2 DEF PC
        <3> QED BY <1>2, <1>5, <1>9, <3>1 DEF f, HasPushed
    <2> QED BY <2>1, <2>2
<1> QED BY <1>2, <1>6, <1>9, <1>11 DEF f

(* A CALL and the return instruction it lands on leave the program after   *)
(* the CALL, with the stack pointer and the registers as they were, for    *)
(* every operand the word pushed does not overwrite                        *)
(* (formatII.c:326-334, formatI.c:304-360).                                *)
THEOREM CallThenReturn == Spec => []CallReturn
BY History, CallReturns, PTL
=============================================================================
