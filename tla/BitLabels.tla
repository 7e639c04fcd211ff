----------------------------- MODULE BitLabels -----------------------------
(***************************************************************************)
(* Symbolic bit labels shared by the bit-reader modules.                   *)
(*                                                                         *)
(* The reader (CBitRead in packetbitbuf.cpp) only masks and shifts the     *)
(* bits it fetches; it never branches on their values.  The models         *)
(* therefore label bit b of the buffer with the number b itself: a read    *)
(* that returns the labels pos .. pos+n-1 returned the right bits for      *)
(* every possible buffer content.  A machine word is a sequence of 32      *)
(* labels, element 1 being the least significant bit.                      *)
(***************************************************************************)
EXTENDS Integers, Sequences

WordBits == 32

\* A bit known to be 0 (shifted in, or the zero word of an exhausted buffer).
ZERO == -1

\* A bit read from memory outside the buffer: its value is whatever the
\* process happens to hold there.
JUNK == -2

Labels(nbits) == (0 .. nbits - 1) \cup {ZERO, JUNK}

Zeros(k) == [i \in 1 .. k |-> ZERO]

ZeroWord == Zeros(WordBits)

\* The labels of the n bits starting at bit p, as a 32-bit value.
BitsAt(p, n) == [i \in 1 .. WordBits |-> IF i <= n THEN p + i - 1 ELSE ZERO]

\* Arithmetic right shift of the low n bits: copies bit n into the upper bits.
SignExtend(w, n) == [i \in 1 .. WordBits |-> IF i <= n THEN w[i] ELSE w[n]]
=============================================================================
