----------------------------- MODULE BitValues -----------------------------
(***************************************************************************)
(* The value decoders of CBitRead (packetbitbuf.cpp): ReadVarUBit,         *)
(* ReadUBitVar, ReadVarInt64, ReadString, ReadBits and ReadBytes, built on *)
(* the reader model CBitRead.  A client decodes, field after field, a      *)
(* buffer written by a reference encoder of the wire format, possibly cut  *)
(* short; each decoder is an operator from a reader to <<reader, result>>. *)
(*                                                                         *)
(* An unsigned value is the set of its set bit positions, so 32- and       *)
(* 64-bit values need no integers that wide: x << k is {b + k : b \in x},  *)
(* x & m an intersection, and truncation to w bits an intersection with    *)
(* 0 .. w-1.                                                               *)
(***************************************************************************)
EXTENDS Integers, Sequences, SequencesExt, FiniteSetsExt, BitLabels

CONSTANTS
  Messages,  \* field sequences a client decodes (see Field below)
  Cuts       \* numbers of bytes missing from the end of the buffer

\* A field of the wire format.  kind selects the decoder; v is the value
\* (a bit set) of the numeric kinds and the payload of "bits"/"bytes"; n is
\* the bit or byte count of "bits"/"bytes" and align is pOut & 3 there;
\* str, term, maxLen and line are the characters, the terminator byte and
\* the arguments of ReadString.
\* The fixed-point kinds use sign, int, frac (the magnitude's integer part
\* and its fraction in units of the kind's resolution), mode (the
\* EBitCoordType), inb (the in-bounds flag of ReadBitCoordMP), comps (the
\* components of a vector, each [present, sign, int, frac]) and zneg.
Kinds == {"varubit", "ubitvar", "varint64", "string", "bits", "bytes",
          "char", "byte", "short", "word", "float", "angle", "coord",
          "coordmp", "cellcoord", "vec3coord", "angles", "normal", "vec3normal"}

ASSUME Cuts \subseteq Nat

VARIABLES
  msg,  \* the fields encoded in the buffer
  buf,  \* the buffer's bytes
  rd,   \* the CBitRead over buf
  out   \* one record per field decoded: result, cursor after, m_bOverflow

vars == <<msg, buf, rd, out>>

R == INSTANCE CBitRead
       WITH MaxBytes <- 0, Lengths <- {0}, Widths <- {8},
            SeekTargets <- LAMBDA n : {0}, SeekAfterOverflow <- TRUE,
            ret <- ZeroWord

kMaxVarintBytes == 10

(***************************************************************************)
(* Values.                                                                 *)
(***************************************************************************)
BitOf(b) == IF b >= 0 THEN (buf[b \div 8 + 1] \div 2 ^ (b % 8)) % 2 ELSE 0

\* The value of a word returned by ReadUBitLong.
Val(w) == {i - 1 : i \in {j \in 1 .. WordBits : BitOf(w[j]) = 1}}

ShiftUp(x, k) == {b + k : b \in x}

Below(x, k) == {b \in x : b < k}

ShiftDown(x, k) == {b - k : b \in {c \in x : c >= k}}

ByteOf(x) == MapThenSumSet(LAMBDA b : 2 ^ b, Below(x, 8))

\* The unsigned int a bit set of fewer than 31 bits stands for.
UInt(x) == MapThenSumSet(LAMBDA b : 2 ^ b, x)

\* Exact rationals num / den.  Every value the coordinate decoders compute
\* as float is a multiple of 1/32, 1/8 or 1 below 2^19, so float arithmetic
\* is exact for them; a normal is a multiple of NORMAL_RESOLUTION, which
\* float rounds (see README).
Q(num, den) == [num |-> num, den |-> den]

\* value = intval + fractval * (1 / den); if (signbit) value = -value.
Fixed(neg, int, frac, den) == Q(IF neg THEN -(int * den + frac) ELSE int * den + frac, den)

\* *((float *)&nvalue): the 32 bits read as an IEEE-754 single.
FloatOf(x) == [sign |-> 31 \in x, exponent |-> ShiftDown(Below(x, 31), 23),
               mantissa |-> Below(x, 23)]

(***************************************************************************)
(* Protocol constants of coordsize.h, which the repository does not hold   *)
(* (the values of the Source SDK it is taken from).                        *)
(***************************************************************************)
COORD_INTEGER_BITS == 14
COORD_FRACTIONAL_BITS == 5
COORD_DENOMINATOR == 32
COORD_INTEGER_BITS_MP == 11
COORD_FRACTIONAL_BITS_MP_LOWPRECISION == 3
COORD_DENOMINATOR_LOWPRECISION == 8
NORMAL_FRACTIONAL_BITS == 11
NORMAL_DENOMINATOR == 2047

\* bLowPrecision ? COORD_FRACTIONAL_BITS_MP_LOWPRECISION : COORD_FRACTIONAL_BITS,
\* and the matching resolution's denominator.
FracBitsMP(coordType) ==
  IF coordType = "kCW_LowPrecision" THEN COORD_FRACTIONAL_BITS_MP_LOWPRECISION
  ELSE COORD_FRACTIONAL_BITS
DenMP(coordType) ==
  IF coordType = "kCW_LowPrecision" THEN COORD_DENOMINATOR_LOWPRECISION
  ELSE COORD_DENOMINATOR

\* sizeof(char), sizeof(short) ... << 3.
IntWidth == [char |-> 8, byte |-> 8, short |-> 16, word |-> 16]

(***************************************************************************)
(* The reference encoder: the wire format the decoders read.               *)
(***************************************************************************)
BitsOf(x, w) == [i \in 1 .. w |-> IF i - 1 \in x THEN 1 ELSE 0]

ByteBits(c) == [i \in 1 .. 8 |-> (c \div 2 ^ (i - 1)) % 2]

\* A 7-bit head whose bits 5-6 select 0, 2, 4 or 7 more bits of v >> 5.
EncVarUBit(v) ==
  LET hi == ShiftDown(v, 5)
      w == CHOOSE k \in {0, 2, 4, 7} : hi \subseteq 0 .. k - 1
                          /\ \A j \in {0, 2, 4, 7} : hi \subseteq 0 .. j - 1 => k <= j
      sel == CASE w = 0 -> {} [] w = 2 -> {5} [] w = 4 -> {6} [] w = 7 -> {5, 6}
  IN BitsOf(Below(v, 5) \cup sel, 7) \o BitsOf(hi, w)

\* A 6-bit head whose bits 4-5 select 0, 4, 8 or 28 more bits of v >> 4.
EncUBitVar(v) ==
  LET hi == ShiftDown(v, 4)
      w == CHOOSE k \in {0, 4, 8, 28} : hi \subseteq 0 .. k - 1
                          /\ \A j \in {0, 4, 8, 28} : hi \subseteq 0 .. j - 1 => k <= j
      sel == CASE w = 0 -> {} [] w = 4 -> {4} [] w = 8 -> {5} [] w = 28 -> {4, 5}
  IN BitsOf(Below(v, 4) \cup sel, 6) \o BitsOf(hi, w)

\* Canonical base-128 varint: 7-bit groups, low group first, bit 7 = more.
EncVarInt64(v) ==
  LET n == IF v = {} THEN 1 ELSE (Max(v) \div 7) + 1
  IN FoldLeft(LAMBDA acc, k : acc \o BitsOf(Below(ShiftDown(v, 7 * k), 7)
                                            \cup (IF k < n - 1 THEN {7} ELSE {}), 8),
              << >>, [i \in 1 .. n |-> i - 1])

IntBits(x, w) == BitsOf({b \in 0 .. w - 1 : (x \div 2 ^ b) % 2 = 1}, w)

Flag01(b) == << IF b THEN 1 ELSE 0 >>

\* Flags has_int, has_frac; if either, sign, int - 1 and the fraction.
EncCoord(c) ==
  Flag01(c.int > 0) \o Flag01(c.frac > 0)
  \o (IF c.int > 0 \/ c.frac > 0
        THEN Flag01(c.sign) \o (IF c.int > 0 THEN IntBits(c.int - 1, COORD_INTEGER_BITS) ELSE << >>)
             \o (IF c.frac > 0 THEN IntBits(c.frac, COORD_FRACTIONAL_BITS) ELSE << >>)
        ELSE << >>)

\* In-bounds flag, has_int, then (integral) sign and int - 1 when there is
\* an int, or (float modes) sign, int - 1 when there is one, and fraction.
EncCoordMP(f) ==
  LET intPart == IF f.int > 0
                   THEN IntBits(f.int - 1, IF f.inb THEN COORD_INTEGER_BITS_MP
                                           ELSE COORD_INTEGER_BITS)
                   ELSE << >>
  IN Flag01(f.inb) \o Flag01(f.int > 0)
     \o (IF f.mode = "kCW_Integral"
           THEN IF f.int > 0 THEN Flag01(f.sign) \o intPart ELSE << >>
           ELSE Flag01(f.sign) \o intPart \o IntBits(f.frac, FracBitsMP(f.mode)))

EncCellCoord(f) ==
  IntBits(f.int, f.n)
  \o (IF f.mode = "kCW_Integral" THEN << >> ELSE IntBits(f.frac, FracBitsMP(f.mode)))

EncNormal(c) == Flag01(c.sign) \o IntBits(c.frac, NORMAL_FRACTIONAL_BITS)

\* The presence flags of all components, then the present components.
EncVec(comps, Enc(_)) ==
  FoldLeft(LAMBDA acc, c : acc \o Flag01(c.present), << >>, comps)
  \o FoldLeft(LAMBDA acc, c : acc \o (IF c.present THEN Enc(c) ELSE << >>), << >>, comps)

EncField(f) ==
  CASE f.kind = "varubit"  -> EncVarUBit(f.v)
    [] f.kind = "ubitvar"  -> EncUBitVar(f.v)
    [] f.kind = "varint64" -> EncVarInt64(f.v)
    [] f.kind = "string"   -> FoldLeft(LAMBDA acc, c : acc \o ByteBits(c), << >>,
                                       f.str \o << f.term >>)
    [] f.kind = "bits"     -> BitsOf(f.v, f.n)
    [] f.kind = "bytes"    -> BitsOf(f.v, 8 * f.n)
    [] f.kind \in DOMAIN IntWidth -> BitsOf(f.v, IntWidth[f.kind])
    [] f.kind = "float"    -> BitsOf(f.v, 32)
    [] f.kind = "angle"    -> BitsOf(f.v, f.n)
    [] f.kind = "coord"    -> EncCoord(f)
    [] f.kind = "coordmp"  -> EncCoordMP(f)
    [] f.kind = "cellcoord" -> EncCellCoord(f)
    [] f.kind \in {"vec3coord", "angles"} -> EncVec(f.comps, EncCoord)
    [] f.kind = "normal"   -> EncNormal(f)
    [] f.kind = "vec3normal" -> EncVec(f.comps, EncNormal) \o Flag01(f.zneg)

\* Bit offset of the end of field i's encoding.
EncEnd(m, i) == FoldLeft(LAMBDA acc, j : acc + Len(EncField(m[j])), 0, [j \in 1 .. i |-> j])

\* The encoded message, zero-padded to whole bytes, as bytes.
Encode(m) ==
  LET bits == FoldLeft(LAMBDA acc, f : acc \o EncField(f), << >>, m)
      nb == (Len(bits) + 7) \div 8
      pad == bits \o [i \in 1 .. 8 * nb - Len(bits) |-> 0]
  IN [k \in 1 .. nb |-> FoldLeft(LAMBDA acc, i : acc + pad[8 * (k - 1) + i] * 2 ^ (i - 1),
                                 0, << 1, 2, 3, 4, 5, 6, 7, 8 >>)]

(***************************************************************************)
(* Faults used to validate the properties (see PROJECT.json "mutants").    *)
(***************************************************************************)
ReadVarUBitSwapped(r) ==
  LET a == R!ReadUBitLong(r, 7)
      ret == Val(a[2])
      Ext(n) == LET b == R!ReadUBitLong(a[1], n)
                IN << b[1], ShiftUp(Val(b[2]), 5) \cup (ret \ {5, 6}) >>
  IN CASE ret \cap {5, 6} = {5}    -> Ext(4)
       [] ret \cap {5, 6} = {6}    -> Ext(2)
       [] ret \cap {5, 6} = {5, 6} -> Ext(7)
       [] OTHER                    -> << a[1], ret >>

RECURSIVE StringLoopOffByOne(_, _, _, _, _)
StringLoopOffByOne(r, maxLen, bLine, str, bTooSmall) ==
  LET res == R!ReadSBitLong(r, 8)
      val == ByteOf(Val(res[2]))
  IN IF val = 0 \/ (bLine /\ val = 10)
       THEN [r |-> res[1], str |-> str, bTooSmall |-> bTooSmall]
     ELSE IF Len(str) <= maxLen - 1
       THEN StringLoopOffByOne(res[1], maxLen, bLine, Append(str, val), bTooSmall)
     ELSE StringLoopOffByOne(res[1], maxLen, bLine, str, TRUE)

(***************************************************************************)
(* The decoders.                                                           *)
(***************************************************************************)
\* sizeof(unsigned long) on the Windows build the program targets.
sizeofULong == 4

ReadVarUBit(r) ==
  LET a == R!ReadUBitLong(r, 7)
      ret == Val(a[2])
      \* ret = 32 * ReadUBitLong(n) | ret & 0xFFFFFF9F
      Ext(n) == LET b == R!ReadUBitLong(a[1], n)
                IN << b[1], ShiftUp(Val(b[2]), 5) \cup (ret \ {5, 6}) >>
  IN CASE ret \cap {5, 6} = {5}    -> Ext(2)
       [] ret \cap {5, 6} = {6}    -> Ext(4)
       [] ret \cap {5, 6} = {5, 6} -> Ext(7)
       [] OTHER                    -> << a[1], ret >>

ReadUBitVar(r) ==
  LET a == R!ReadUBitLong(r, 6)
      ret == Val(a[2])
      \* ret = (ret & 15) | (ReadUBitLong(n) << 4)
      Ext(n) == LET b == R!ReadUBitLong(a[1], n)
                IN << b[1], Below(ret, 4) \cup ShiftUp(Val(b[2]), 4) >>
  IN CASE ret \cap {4, 5} = {4}    -> Ext(4)
       [] ret \cap {4, 5} = {5}    -> Ext(8)
       [] ret \cap {4, 5} = {4, 5} -> Ext(28)
       [] OTHER                    -> << a[1], ret >>

\* result |= (uint64)(b & 0x7F) << (7 * count), in 64 bits.
RECURSIVE VarInt64Loop(_, _, _)
VarInt64Loop(r, count, result) ==
  IF count = kMaxVarintBytes THEN << r, result >>
  ELSE LET res == R!ReadUBitLong(r, 8)
           b == Val(res[2])
           acc == result \cup (ShiftUp(Below(b, 7), 7 * count) \cap 0 .. 63)
       IN IF 7 \in b THEN VarInt64Loop(res[1], count + 1, acc) ELSE << res[1], acc >>

ReadVarInt64(r) == VarInt64Loop(r, 0, {})

\* The while loop of ReadString; ReadChar is ReadSBitLong(8), and char val
\* keeps the low byte.  str is pStr[0 .. iChar - 1].
RECURSIVE StringLoop(_, _, _, _, _)
StringLoop(r, maxLen, bLine, str, bTooSmall) ==
  LET res == R!ReadSBitLong(r, 8)
      val == ByteOf(Val(res[2]))
  IN IF val = 0 \/ (bLine /\ val = 10)
       THEN [r |-> res[1], str |-> str, bTooSmall |-> bTooSmall]
     ELSE IF Len(str) < maxLen - 1
       THEN StringLoop(res[1], maxLen, bLine, Append(str, val), bTooSmall)
     ELSE StringLoop(res[1], maxLen, bLine, str, TRUE)

\* Fault used to validate TruncationReported: overflow not reported.
ReadStringNoOverflowCheck(r, maxLen, bLine) ==
  LET s == StringLoop(r, maxLen, bLine, << >>, FALSE)
  IN << s.r, [str |-> s.str, ok |-> ~s.bTooSmall] >>

\* Returns the characters stored (*pOutNumChars is their number) and the
\* result !IsOverflowed() && !bTooSmall.
ReadString(r, maxLen, bLine) ==
  LET s == StringLoop(r, maxLen, bLine, << >>, FALSE)
  IN << s.r, [str |-> s.str, ok |-> ~s.r.overflow /\ ~s.bTooSmall] >>

\* pOut receives nb bytes of x at offset dst.n from pOutData; dst.v holds
\* the bits written so far.
Put(dst, x, nb) == [n |-> dst.n + nb, v |-> dst.v \cup ShiftUp(Below(x, 8 * nb), 8 * dst.n)]

\* The three while loops of ReadBits: whether each goes on, with pOut at
\* offset o from pOutData and nBitsLeft = left, and what it reads and stores.
LoopCond(loop, align, o, left) ==
  CASE loop = "align" -> (align + o) % 4 # 0 /\ left >= 8
    [] loop = "dword" -> left >= 32
    [] loop = "byte"  -> left >= 8

LoopWidth(loop) == IF loop = "dword" THEN 32 ELSE 8

LoopStore(loop) == IF loop = "dword" THEN sizeofULong ELSE 1

RECURSIVE ReadLoop(_, _, _, _, _)
ReadLoop(r, left, dst, loop, align) ==
  IF LoopCond(loop, align, dst.n, left)
    THEN LET res == R!ReadUBitLong(r, LoopWidth(loop))
         IN ReadLoop(res[1], left - LoopWidth(loop),
                     Put(dst, Val(res[2]), LoopStore(loop)), loop, align)
    ELSE << r, left, dst >>

ReadBits(r, nBits, align) ==
  LET a == ReadLoop(r, nBits, [n |-> 0, v |-> {}], "align", align)
      d == ReadLoop(a[1], a[2], a[3], "dword", align)
      b == ReadLoop(d[1], d[2], d[3], "byte", align)
  IN IF b[2] # 0
       THEN LET res == R!ReadUBitLong(b[1], b[2]) IN << res[1], Put(b[3], Val(res[2]), 1) >>
       ELSE << b[1], b[3] >>

ReadBytes(r, nBytes, align) ==
  LET res == ReadBits(r, 8 * nBytes, align)
  IN << res[1], [n |-> res[2].n, v |-> res[2].v, ok |-> ~res[1].overflow] >>

\* The int a ReadUBitLong or ReadSBitLong result is returned as.
AsInt(res) == << res[1], Val(res[2]) >>

ReadChar(r) == AsInt(R!ReadSBitLong(r, IntWidth.char))
ReadByte(r) == AsInt(R!ReadUBitLong(r, IntWidth.byte))
ReadShort(r) == AsInt(R!ReadSBitLong(r, IntWidth.short))
ReadWord(r) == AsInt(R!ReadUBitLong(r, IntWidth.word))

ReadBitFloat(r) == LET res == R!ReadUBitLong(r, 32) IN << res[1], FloatOf(Val(res[2])) >>

\* ReadOneBit as the flag the decoders test, and ReadUBitLong(n) as an int.
ReadFlag(r) == LET res == R!ReadOneBit(r) IN << res[1], 0 \in Val(res[2]) >>
ReadUInt(r, n) == LET res == R!ReadUBitLong(r, n) IN << res[1], UInt(Val(res[2])) >>

\* ReadUInt(n) when the flag is set, 0 (and no bits read) otherwise.
ReadIf(flag, r, n) == IF flag THEN ReadUInt(r, n) ELSE << r, 0 >>

\* bitsForBitnum[bitNum & 31] = 1 << (bitNum & 31); 1 << 31 is INT_MIN.
GetBitForBitnum(bitNum) ==
  IF bitNum % 32 = 31 THEN -2147483647 - 1 ELSE 2 ^ (bitNum % 32)

\* (float)i * (360.0f / shift), with int i = ReadUBitLong(numbits).
ReadBitAngle(r, numbits) ==
  LET i == ReadUInt(r, numbits) IN << i[1], Q(360 * i[2], GetBitForBitnum(numbits)) >>

ReadBitCoord(r) ==
  LET i == ReadFlag(r)
      f == ReadFlag(i[1])
      s == ReadFlag(f[1])
      iv == ReadIf(i[2], s[1], COORD_INTEGER_BITS)
      fv == ReadIf(f[2], iv[1], COORD_FRACTIONAL_BITS)
  IN IF i[2] \/ f[2]
       THEN << fv[1], Fixed(s[2], IF i[2] THEN iv[2] + 1 ELSE 0, fv[2], COORD_DENOMINATOR) >>
       ELSE << f[1], Q(0, COORD_DENOMINATOR) >>

\* Fault used to validate DecodesEncoded: the float modes read the sign
\* only when there is an int, as the integral mode does.
ReadBitCoordMPSignWithInt(r, coordType) ==
  LET inb == ReadFlag(r)
      intBits == IF inb[2] THEN COORD_INTEGER_BITS_MP ELSE COORD_INTEGER_BITS
      i == ReadFlag(inb[1])
      s == IF i[2] THEN ReadFlag(i[1]) ELSE << i[1], FALSE >>
      iv == ReadIf(i[2], s[1], intBits)
  IN IF coordType = "kCW_Integral"
       THEN << iv[1], Fixed(s[2], IF i[2] THEN iv[2] + 1 ELSE 0, 0, 1) >>
       ELSE LET fv == ReadUInt(iv[1], FracBitsMP(coordType))
            IN << fv[1], Fixed(s[2], IF i[2] THEN iv[2] + 1 ELSE 0, fv[2], DenMP(coordType)) >>

ReadBitCoordMP(r, coordType) ==
  LET inb == ReadFlag(r)
      intBits == IF inb[2] THEN COORD_INTEGER_BITS_MP ELSE COORD_INTEGER_BITS
      i == ReadFlag(inb[1])
      \* kCW_Integral reads the sign only when there is an int
      s == IF i[2] \/ coordType # "kCW_Integral" THEN ReadFlag(i[1]) ELSE << i[1], FALSE >>
      iv == ReadIf(i[2], s[1], intBits)
  IN IF coordType = "kCW_Integral"
       THEN << iv[1], Fixed(s[2], IF i[2] THEN iv[2] + 1 ELSE 0, 0, 1) >>
       ELSE LET fv == ReadUInt(iv[1], FracBitsMP(coordType))
            IN << fv[1], Fixed(s[2], IF i[2] THEN iv[2] + 1 ELSE 0, fv[2], DenMP(coordType)) >>

ReadBitCellCoord(r, bits, coordType) ==
  LET iv == ReadUInt(r, bits)
      fv == ReadUInt(iv[1], FracBitsMP(coordType))
  IN IF coordType = "kCW_Integral" THEN << iv[1], Q(iv[2], 1) >>
     ELSE << fv[1], Fixed(FALSE, iv[2], fv[2], DenMP(coordType)) >>

\* fa.Init(0, 0, 0), three flags, then a coord for each flag set.
ReadBitVec3Coord(r) ==
  LET x == ReadFlag(r)
      y == ReadFlag(x[1])
      z == ReadFlag(y[1])
      C(rr, flag) == IF flag THEN ReadBitCoord(rr) ELSE << rr, Q(0, COORD_DENOMINATOR) >>
      cx == C(z[1], x[2])
      cy == C(cx[1], y[2])
      cz == C(cy[1], z[2])
  IN << cz[1], << cx[2], cy[2], cz[2] >> >>

\* fa.Init(tmp.x, tmp.y, tmp.z) of the vector ReadBitVec3Coord read.
ReadBitAngles(r) == ReadBitVec3Coord(r)

ReadBitNormal(r) ==
  LET s == ReadFlag(r)
      f == ReadUInt(s[1], NORMAL_FRACTIONAL_BITS)
  IN << f[1], Fixed(s[2], 0, f[2], NORMAL_DENOMINATOR) >>

\* z = sqrt(1 - x*x - y*y) if x*x + y*y < 1, else 0, negated if znegative:
\* sqrt(rad) / den, where x = a / den and y = b / den.  -0.0 equals 0.0.
ZOf(x, y, zneg) ==
  LET d2 == NORMAL_DENOMINATOR * NORMAL_DENOMINATOR
      s == x.num * x.num + y.num * y.num
      rad == IF s < d2 THEN d2 - s ELSE 0
  IN [rad |-> rad, den |-> NORMAL_DENOMINATOR, neg |-> zneg /\ rad > 0]

ReadBitVec3Normal(r) ==
  LET x == ReadFlag(r)
      y == ReadFlag(x[1])
      nx == IF x[2] THEN ReadBitNormal(y[1]) ELSE << y[1], Q(0, NORMAL_DENOMINATOR) >>
      ny == IF y[2] THEN ReadBitNormal(nx[1]) ELSE << nx[1], Q(0, NORMAL_DENOMINATOR) >>
      zn == ReadFlag(ny[1])
  IN << zn[1], << nx[2], ny[2], ZOf(nx[2], ny[2], zn[2]) >> >>

(***************************************************************************)
(* The specification: a client decodes the fields of msg in order.         *)
(***************************************************************************)
Init ==
  /\ msg \in Messages
  /\ \E c \in Cuts :
       \* never empty: ReadOneBit on a 0-byte reader never latches overflow
       \* (README, "Findings"), and the program's readers span NET_MAX_PAYLOAD
       /\ c < Len(Encode(msg))
       /\ buf = SubSeq(Encode(msg), 1, Len(Encode(msg)) - c)
  /\ rd = R!StartReading(Len(buf), 0)
  /\ out = << >>

Field == msg[Len(out) + 1]

\* The decoder for the next field, if it is of kind k, has returned res.
Decoded(k, res) ==
  /\ Len(out) < Len(msg)
  /\ Field.kind = k
  /\ rd' = res[1]
  /\ out' = Append(out, [val |-> res[2], end |-> R!GetNumBitsRead(res[1]),
                         overflow |-> res[1].overflow])
  /\ UNCHANGED <<msg, buf>>

DoReadVarUBit == Decoded("varubit", ReadVarUBit(rd))
DoReadUBitVar == Decoded("ubitvar", ReadUBitVar(rd))
DoReadVarInt64 == Decoded("varint64", ReadVarInt64(rd))
DoReadString == Decoded("string", ReadString(rd, Field.maxLen, Field.line))
DoReadBits == Decoded("bits", ReadBits(rd, Field.n, Field.align))
DoReadBytes == Decoded("bytes", ReadBytes(rd, Field.n, Field.align))
DoReadChar == Decoded("char", ReadChar(rd))
DoReadByte == Decoded("byte", ReadByte(rd))
DoReadShort == Decoded("short", ReadShort(rd))
DoReadWord == Decoded("word", ReadWord(rd))
DoReadBitFloat == Decoded("float", ReadBitFloat(rd))
DoReadBitAngle == Decoded("angle", ReadBitAngle(rd, Field.n))
DoReadBitCoord == Decoded("coord", ReadBitCoord(rd))
DoReadBitCoordMP == Decoded("coordmp", ReadBitCoordMP(rd, Field.mode))
DoReadBitCellCoord == Decoded("cellcoord", ReadBitCellCoord(rd, Field.n, Field.mode))
DoReadBitVec3Coord == Decoded("vec3coord", ReadBitVec3Coord(rd))
DoReadBitAngles == Decoded("angles", ReadBitAngles(rd))
DoReadBitNormal == Decoded("normal", ReadBitNormal(rd))
DoReadBitVec3Normal == Decoded("vec3normal", ReadBitVec3Normal(rd))

\* Every field has been decoded.
Finished == Len(out) = Len(msg) /\ UNCHANGED vars

Next ==
  \/ DoReadVarUBit \/ DoReadUBitVar \/ DoReadVarInt64
  \/ DoReadString \/ DoReadBits \/ DoReadBytes
  \/ DoReadChar \/ DoReadByte \/ DoReadShort \/ DoReadWord \/ DoReadBitFloat
  \/ DoReadBitAngle \/ DoReadBitCoord \/ DoReadBitCoordMP \/ DoReadBitCellCoord
  \/ DoReadBitVec3Coord \/ DoReadBitAngles \/ DoReadBitNormal \/ DoReadBitVec3Normal
  \/ Finished

Spec == Init /\ [][Next]_vars

(***************************************************************************)
(* Properties.                                                             *)
(***************************************************************************)
CoordValue(c) == Fixed(c.sign, c.int, c.frac, COORD_DENOMINATOR)
NormalValue(c) == Fixed(c.sign, 0, c.frac, NORMAL_DENOMINATOR)

\* What a correct decoder returns for field f, read whole.
Expected(f) ==
  CASE f.kind = "string" ->
         [str |-> SubSeq(f.str, 1, IF Len(f.str) < f.maxLen - 1 THEN Len(f.str) ELSE f.maxLen - 1),
          ok |-> Len(f.str) <= f.maxLen - 1]
    [] f.kind = "bits"  -> [n |-> (f.n + 7) \div 8, v |-> f.v]
    [] f.kind = "bytes" -> [n |-> f.n, v |-> f.v, ok |-> TRUE]
    [] f.kind \in {"char", "short"} ->   \* sign-extended to an int
         f.v \cup (IF IntWidth[f.kind] - 1 \in f.v THEN IntWidth[f.kind] .. 31 ELSE {})
    [] f.kind = "float" -> FloatOf(f.v)
    [] f.kind = "angle" -> Q(360 * UInt(f.v), 2 ^ f.n)   \* raw * (360 / 2^n)
    [] f.kind = "coord" -> CoordValue(f)
    [] f.kind = "coordmp" ->
         Fixed(f.sign, f.int, IF f.mode = "kCW_Integral" THEN 0 ELSE f.frac,
               IF f.mode = "kCW_Integral" THEN 1 ELSE DenMP(f.mode))
    [] f.kind = "cellcoord" ->
         IF f.mode = "kCW_Integral" THEN Q(f.int, 1) ELSE Fixed(FALSE, f.int, f.frac, DenMP(f.mode))
    [] f.kind \in {"vec3coord", "angles"} ->
         [i \in 1 .. 3 |-> IF f.comps[i].present THEN CoordValue(f.comps[i])
                           ELSE Q(0, COORD_DENOMINATOR)]
    [] f.kind = "normal" -> NormalValue(f)
    [] f.kind = "vec3normal" ->
         LET xy == [i \in 1 .. 2 |-> IF f.comps[i].present THEN NormalValue(f.comps[i])
                                     ELSE Q(0, NORMAL_DENOMINATOR)]
         IN << xy[1], xy[2], ZOf(xy[1], xy[2], f.zneg) >>
    [] OTHER            -> f.v

\* The field encoded by all-zero bits: what a decoder reads past the end.
Zeroed(f) ==
  [f EXCEPT !.v = {}, !.sign = FALSE, !.int = 0, !.frac = 0, !.inb = FALSE, !.zneg = FALSE,
            !.comps = [i \in DOMAIN f.comps |-> [f.comps[i] EXCEPT !.present = FALSE]]]

\* What a decoder returns for field f when the buffer ended before it.
Nothing(f) ==
  CASE f.kind = "string" -> [str |-> << >>, ok |-> FALSE]
    [] f.kind = "bits"   -> [n |-> (f.n + 7) \div 8, v |-> {}]
    [] f.kind = "bytes"  -> [n |-> f.n, v |-> {}, ok |-> FALSE]
    [] OTHER             -> Expected(Zeroed(f))

InBuffer(i) == EncEnd(msg, i) <= 8 * Len(buf)

\* Every field the buffer holds whole decodes to the value it was encoded
\* from, and leaves the cursor exactly at its end, whatever bit offset it
\* starts at: the selector bits of ReadVarUBit and ReadUBitVar, the 7-bit
\* groups and the 10-byte cap of ReadVarInt64, ReadString's stop at the
\* terminator and its truncation to maxLen - 1 characters, and the align,
\* dword, byte and tail loops of ReadBits all take part.
DecodesEncoded ==
  \A i \in DOMAIN out :
    InBuffer(i) => out[i].val = Expected(msg[i]) /\ out[i].end = EncEnd(msg, i)

\* A field cut short is reported (spec.md 4.1, 8): m_bOverflow is set after
\* a field exactly when its encoding runs past the end of the buffer,
\* ReadString and ReadBytes then return false, and a field that starts at
\* or after the end decodes as zero (an empty string, zero bytes).
TruncationReported ==
  \A i \in DOMAIN out :
    /\ out[i].overflow <=> ~InBuffer(i)
    /\ ~InBuffer(i) /\ msg[i].kind \in {"string", "bytes"} => ~out[i].val.ok
    /\ EncEnd(msg, i - 1) >= 8 * Len(buf) => out[i].val = Nothing(msg[i])
====
