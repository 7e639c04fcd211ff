---------------------------- MODULE MC_CBitRead ----------------------------
(* Model-checking instance of CBitRead. *)
EXTENDS CBitRead

\* Seek targets that hit each boundary: before the start, the head/body
\* split, both sides of a dword boundary, the last bit, the end, past it.
MCSeekTargets(nbits) == {-1, 0, 3, 8, 31, 32, 33, nbits - 1, nbits, nbits + 1}

\* Head sizes 0..3 (lengths 4, 5, 6, 7) and more than one body dword (8, 9).
MCLengthsLong == 4 .. 9

MCWidths == {1, 3, 8, 13, 32}
=============================================================================
