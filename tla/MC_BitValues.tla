---------------------------- MODULE MC_BitValues ----------------------------
(***************************************************************************)
(* Messages for BitValues: short sequences of fields chosen so that every  *)
(* selector of ReadVarUBit and ReadUBitVar, one- to ten-byte varints, a    *)
(* string stored whole and one truncated, newline-terminated lines, and    *)
(* ReadBits calls that use each of its loops start at varying bit offsets. *)
(***************************************************************************)
EXTENDS BitValues

Num(k, v) == [kind |-> k, v |-> v, n |-> 0, align |-> 0,
              str |-> << >>, term |-> 0, maxLen |-> 0, line |-> FALSE,
              sign |-> FALSE, int |-> 0, frac |-> 0, mode |-> "kCW_None",
              inb |-> FALSE, comps |-> << >>, zneg |-> FALSE]

\* A fixed-point field or vector component: sign, integer part, fraction.
Fix(k, sign, int, frac) == [Num(k, {}) EXCEPT !.sign = sign, !.int = int, !.frac = frac]
Comp(present, sign, int, frac) == [present |-> present, sign |-> sign, int |-> int, frac |-> frac]

Str(s, term, maxLen, line) ==
  [Num("string", {}) EXCEPT !.str = s, !.term = term, !.maxLen = maxLen, !.line = line]

Bits(n, v, align) == [Num("bits", v) EXCEPT !.n = n, !.align = align]

Bytes(n, v, align) == [Num("bytes", v) EXCEPT !.n = n, !.align = align]

\* One value per selector of each: 5+0, 5+2, 5+4, 5+7 and 4+0, 4+4, 4+8,
\* 4+28 bits.
VarUBits == {Num("varubit", v) : v \in {{0, 3}, {1, 6}, {5, 8}, {0, 11}}}
UBitVars == {Num("ubitvar", v) : v \in {{2}, {0, 7}, {4, 11}, {3, 31}}}

\* One byte, two bytes, and the ten-byte value with bit 63 set.
VarInt64s == {Num("varint64", v) : v \in {{}, {0, 7}, {5, 63}}}

\* "AB" read whole, read into a 2-byte buffer (truncated), and a line.
Strings == {Str(<< 65, 66 >>, 0, 8, FALSE), Str(<< 65, 66 >>, 0, 2, FALSE),
            Str(<< 200 >>, 10, 4, TRUE)}

\* A tail only; align bytes then a dword then a tail; bytes from an
\* aligned and from an unaligned pOut.
BitFields == {Bits(3, {0, 2}, 0), Bits(45, {0, 9, 31, 40}, 3),
              Bytes(5, {1, 33}, 0), Bytes(2, {15}, 2)}

\* Chars and shorts with and without the sign bit, bytes and words with the
\* top bit, a float with sign, exponent and mantissa bits.
Ints == {Num("char", {7, 0}), Num("char", {6}), Num("byte", {7, 1}),
         Num("short", {15, 3}), Num("word", {15, 8}),
         Num("float", {31, 30, 23, 22, 0})}

\* 1-, 8- and 16-bit angles.
Angles == {[Num("angle", v) EXCEPT !.n = n] : <<n, v>> \in {<<1, {0}>>, <<8, {7, 2}>>, <<16, {15, 0}>>}}

\* Zero, a negative fraction only, an int only, and the largest int with a
\* fraction.
Coords == {Fix("coord", FALSE, 0, 0), Fix("coord", TRUE, 0, 3),
           Fix("coord", FALSE, 5, 0), Fix("coord", TRUE, 16384, 31)}

\* Each mode, in and out of bounds, with and without an int.
CoordMPs == {[Fix("coordmp", s, i, f) EXCEPT !.mode = m, !.inb = b] :
               <<m, b, s, i, f>> \in {<<"kCW_Integral", TRUE, TRUE, 2048, 0>>,
                                     <<"kCW_Integral", FALSE, FALSE, 0, 0>>,
                                     <<"kCW_Integral", FALSE, TRUE, 3000, 0>>,
                                     <<"kCW_None", TRUE, TRUE, 0, 17>>,
                                     <<"kCW_None", FALSE, FALSE, 9000, 1>>,
                                     <<"kCW_LowPrecision", TRUE, TRUE, 7, 5>>}}

CellCoords == {[Fix("cellcoord", FALSE, i, f) EXCEPT !.mode = m, !.n = n] :
                 <<m, n, i, f>> \in {<<"kCW_Integral", 5, 21, 0>>,
                                    <<"kCW_None", 3, 6, 30>>,
                                    <<"kCW_LowPrecision", 4, 9, 7>>}}

\* Vectors with some components absent, present and zero, or negative.
Vecs == {[Num(k, {}) EXCEPT !.comps = c] :
           <<k, c>> \in {<<"vec3coord", << Comp(TRUE, TRUE, 1, 0), Comp(FALSE, FALSE, 0, 0),
                                            Comp(TRUE, FALSE, 0, 16) >> >>,
                         <<"angles", << Comp(FALSE, FALSE, 0, 0), Comp(TRUE, FALSE, 0, 0),
                                         Comp(TRUE, TRUE, 90, 0) >> >>}}

\* A normal, and unit vectors whose z is derived: x alone, x and y with
\* x*x + y*y = 1 (z = 0 despite its sign bit), and neither.
Normals == {Fix("normal", TRUE, 0, 1023),
            [Num("vec3normal", {}) EXCEPT !.comps = << Comp(TRUE, TRUE, 0, 1000),
                                                      Comp(FALSE, FALSE, 0, 0) >>, !.zneg = TRUE],
            [Num("vec3normal", {}) EXCEPT !.comps = << Comp(TRUE, FALSE, 0, 2047),
                                                      Comp(TRUE, FALSE, 0, 0) >>, !.zneg = TRUE],
            [Num("vec3normal", {}) EXCEPT !.comps = << Comp(FALSE, FALSE, 0, 0),
                                                      Comp(FALSE, FALSE, 0, 0) >>]}

Pool == VarUBits \cup UBitVars \cup VarInt64s \cup Strings \cup BitFields
        \cup Ints \cup Angles \cup Coords \cup CoordMPs \cup CellCoords \cup Vecs \cup Normals

\* A field alone, or after a 3-bit field that leaves it unaligned.
MCMessages == {<< f >> : f \in Pool} \cup {<< Bits(3, {1}, 0), f >> : f \in Pool}
=============================================================================
