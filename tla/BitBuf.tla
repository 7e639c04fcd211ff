------------------------------- MODULE BitBuf -------------------------------
(***************************************************************************)
(* What the bit reader promises (spec.md section 4.1): a cursor over a     *)
(* buffer of nbits bits.  A read of n bits returns the next n bits and     *)
(* advances the cursor by n; a read that would pass the end returns 0,     *)
(* leaves the cursor at the end and latches the overflow flag.  A seek     *)
(* outside 0..nbits clamps to the end and latches overflow.  The flag is   *)
(* cleared only by starting a new read.  ret is the value of the last      *)
(* read, as 32 bit labels.                                                 *)
(***************************************************************************)
EXTENDS BitLabels

CONSTANT MaxBytes   \* the longest buffer a reader may be started on

VARIABLES nbits, pos, overflow, ret

vars == <<nbits, pos, overflow, ret>>

TypeOK ==
  /\ nbits \in {8 * b : b \in 0 .. MaxBytes}
  /\ pos \in 0 .. nbits
  /\ overflow \in BOOLEAN
  /\ ret \in [1 .. WordBits -> Labels(nbits)]

Init ==
  /\ nbits \in {8 * b : b \in 0 .. MaxBytes}
  /\ pos = 0
  /\ overflow = FALSE
  /\ ret = ZeroWord

StartReading(nBytes, startBit) ==
  /\ nbits' = 8 * nBytes
  /\ IF startBit < 0 \/ startBit > 8 * nBytes
       THEN pos' = 8 * nBytes /\ overflow' = TRUE
       ELSE pos' = startBit /\ overflow' = FALSE
  /\ UNCHANGED ret

ReadUBitLong(n) ==
  /\ IF pos + n <= nbits
       THEN /\ ret' = BitsAt(pos, n)
            /\ pos' = pos + n
            /\ UNCHANGED overflow
       ELSE /\ ret' = ZeroWord
            /\ pos' = nbits
            /\ overflow' = TRUE
  /\ UNCHANGED nbits

ReadSBitLong(n) ==
  /\ IF pos + n <= nbits
       THEN /\ ret' = SignExtend(BitsAt(pos, n), n)
            /\ pos' = pos + n
            /\ UNCHANGED overflow
       ELSE /\ ret' = ZeroWord
            /\ pos' = nbits
            /\ overflow' = TRUE
  /\ UNCHANGED nbits

Seek(p) ==
  /\ IF p < 0 \/ p > nbits
       THEN pos' = nbits /\ overflow' = TRUE
       ELSE pos' = p /\ UNCHANGED overflow
  /\ UNCHANGED <<nbits, ret>>

\* Every out-of-range seek behaves alike, so -1 and nbits+1 stand for them.
Next ==
  \/ \E b \in 0 .. MaxBytes : \E s \in -1 .. 8 * b + 1 : StartReading(b, s)
  \/ \E n \in 1 .. WordBits : ReadUBitLong(n) \/ ReadSBitLong(n)
  \/ \E p \in -1 .. nbits + 1 : Seek(p)

Spec == Init /\ [][Next]_vars
=============================================================================
