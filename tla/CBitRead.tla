------------------------------ MODULE CBitRead ------------------------------
(***************************************************************************)
(* The bit reader CBitRead of packetbitbuf.cpp, at the level of its        *)
(* fields.  The buffer is m_nDataBytes bytes; the m_nDataBytes % 4 bytes   *)
(* that do not fill a dword are the "head", read byte by byte by Seek; the *)
(* rest is read one dword at a time through m_pDataIn.  m_nInBufWord       *)
(* caches the current dword shifted so that its next unread bit is bit 0,  *)
(* and m_nBitsAvail counts its unread bits.                                *)
(*                                                                         *)
(* The reader object is the record rd:                                     *)
(*   dataBytes, dataBits  m_nDataBytes, m_nDataBits (nBits = -1: 8 * bytes) *)
(*   dataIn               m_pDataIn as a byte offset from m_pData          *)
(*   bitsAvail, word      m_nBitsAvail, m_nInBufWord (32 bit labels)       *)
(*   overflow             m_bOverflow                                      *)
(*   oob                  ghost: some fetch read memory outside the buffer *)
(* ret is the value returned by the last read.  Every operation of the     *)
(* class is an operator from a reader to a reader (and a value), so the    *)
(* decoders built on it can compose them.                                  *)
(***************************************************************************)
EXTENDS BitLabels

CONSTANTS
  MaxBytes,          \* longest buffer (for the abstract specification)
  Lengths,           \* the buffer lengths, in bytes, a reader is started on
  Widths,            \* the numbits passed to ReadUBitLong and ReadSBitLong
  SeekTargets(_),    \* the positions a client seeks to, given m_nDataBits
  SeekAfterOverflow  \* whether a client may seek on an overflowed reader

ASSUME Lengths \subseteq 0 .. MaxBytes
ASSUME Widths \subseteq 1 .. WordBits
ASSUME SeekAfterOverflow \in BOOLEAN

VARIABLES rd, ret

vars == <<rd, ret>>

MinInt(a, b) == IF a < b THEN a ELSE b

(***************************************************************************)
(* Word operations on label sequences.                                     *)
(***************************************************************************)
ShiftRight(w, k) == [i \in 1 .. WordBits |-> IF i + k <= WordBits THEN w[i + k] ELSE ZERO]

ShiftLeft(w, k) == [i \in 1 .. WordBits |-> IF i > k THEN w[i - k] ELSE ZERO]

\* w & s_nMaskTable[n]
Mask(w, n) == [i \in 1 .. WordBits |-> IF i <= n THEN w[i] ELSE ZERO]

\* a | b, where a bit set on both sides with different labels is garbage.
OrBits(a, b) ==
  [i \in 1 .. WordBits |->
     IF a[i] = ZERO THEN b[i]
     ELSE IF b[i] = ZERO \/ b[i] = a[i] THEN a[i] ELSE JUNK]

\* The label of bit b of memory, seen from a reader of dataBits bits.
MemBit(r, b) == IF 0 <= b /\ b < r.dataBits THEN b ELSE JUNK

\* *(uint32 const *)(m_pData + o): four bytes, little endian.
WordAt(r, o) == [i \in 1 .. WordBits |-> MemBit(r, 8 * o + i - 1)]

(***************************************************************************)
(* Faults used to validate the properties (see PROJECT.json "mutants").    *)
(***************************************************************************)
GetNumBitsReadNoHeadAdjust(r) ==
  LET cur == ((r.dataIn \div 4) - 1) * 32 + (32 - r.bitsAvail)
  IN MinInt(cur, r.dataBits)

GrabNextDWordNoEndCheck(r, imm) ==
  IF r.dataIn > r.dataBytes
    THEN [r EXCEPT !.overflow = TRUE, !.word = ZeroWord]
    ELSE [r EXCEPT !.word = WordAt(r, r.dataIn), !.dataIn = @ + 4,
                   !.oob = @ \/ r.dataIn + 4 > r.dataBytes]

GrabNextDWordAdvancePastEnd(r, imm) ==
  IF r.dataIn = r.dataBytes
    THEN [r EXCEPT !.bitsAvail = 1, !.word = ZeroWord, !.dataIn = @ + 4,
                   !.overflow = @ \/ imm]
  ELSE IF r.dataIn > r.dataBytes
    THEN [r EXCEPT !.overflow = TRUE, !.word = ZeroWord, !.dataIn = @ + 4]
  ELSE [r EXCEPT !.word = WordAt(r, r.dataIn), !.dataIn = @ + 4,
                 !.oob = @ \/ r.dataIn + 4 > r.dataBytes]

(***************************************************************************)
(* The class.                                                              *)
(***************************************************************************)
GetNumBitsRead(r) ==
  LET cur == ((r.dataIn \div 4) - 1) * 32 + (32 - r.bitsAvail)
             + 8 * (r.dataBytes % 4)
  IN MinInt(cur, r.dataBits)

GetNumBytesRead(r) == (GetNumBitsRead(r) + 7) \div 8

GrabNextDWord(r, bOverFlowImmediately) ==
  IF r.dataIn = r.dataBytes
    THEN [r EXCEPT !.bitsAvail = 1, !.word = ZeroWord, !.dataIn = @ + 4,
                   !.overflow = @ \/ bOverFlowImmediately]
  ELSE IF r.dataIn > r.dataBytes
    THEN [r EXCEPT !.overflow = TRUE, !.word = ZeroWord]
  ELSE [r EXCEPT !.word = WordAt(r, r.dataIn), !.dataIn = @ + 4,
                 !.oob = @ \/ r.dataIn + 4 > r.dataBytes]

FetchNext(r) == GrabNextDWord([r EXCEPT !.bitsAvail = 32], FALSE)

\* Each read returns <<reader, value>>.
ReadOneBit(r) ==
  LET r1 == [r EXCEPT !.bitsAvail = @ - 1]
  IN << IF r1.bitsAvail = 0 THEN FetchNext(r1)
        ELSE [r1 EXCEPT !.word = ShiftRight(@, 1)],
        Mask(r.word, 1) >>

ReadUBitLong(r, numbits) ==
  IF r.bitsAvail >= numbits
    THEN LET r1 == [r EXCEPT !.bitsAvail = @ - numbits]
         IN << IF r1.bitsAvail # 0 THEN [r1 EXCEPT !.word = ShiftRight(@, numbits)]
               ELSE FetchNext(r1),
               Mask(r.word, numbits) >>
    ELSE \* need to merge words
         LET rest == numbits - r.bitsAvail
             r1 == GrabNextDWord(r, TRUE)
         IN IF r1.overflow
              THEN << r1, ZeroWord >>
              ELSE << [r1 EXCEPT !.bitsAvail = 32 - rest,
                                 !.word = ShiftRight(@, rest)],
                      OrBits(r.word, ShiftLeft(Mask(r1.word, rest), r.bitsAvail)) >>

ReadSBitLong(r, numbits) ==
  LET res == ReadUBitLong(r, numbits)
  IN << res[1], SignExtend(res[2], numbits) >>

\* Seek into the head: the partial first dword is assembled from bytes.
SeekHead(r, q, nHead) ==
  LET nRead == IF nHead > 1 THEN nHead ELSE 1   \* bytes *(pPartial++) reads
      w == [i \in 1 .. WordBits |-> IF i <= 8 * nRead THEN MemBit(r, i - 1) ELSE ZERO]
  IN [r EXCEPT !.word = ShiftRight(w, q % 32), !.dataIn = nRead,
               !.bitsAvail = 8 * nHead - (q % 32),
               !.oob = @ \/ nRead > r.dataBytes]

SeekBody(r, q, nHead) ==
  LET adj == q - 8 * nHead
      r1 == GrabNextDWord([r EXCEPT !.dataIn = 4 * (adj \div 32) + nHead,
                                    !.bitsAvail = 32], FALSE)
  IN [r1 EXCEPT !.word = ShiftRight(@, adj % 32),
                !.bitsAvail = MinInt(@, 32 - (adj % 32))]

Seek(r, nPosition) ==
  LET bad == nPosition < 0 \/ nPosition > r.dataBits
      q == IF bad THEN r.dataBits ELSE nPosition
      nHead == r.dataBytes % 4
      r0 == [r EXCEPT !.overflow = @ \/ bad]
  IN IF r.dataBytes < 4 \/ (nHead # 0 /\ q \div 8 < nHead)
       THEN SeekHead(r0, q, nHead)
       ELSE SeekBody(r0, q, nHead)

StartReading(nBytes, iStartBit) ==
  Seek([dataBytes |-> nBytes, dataBits |-> 8 * nBytes, dataIn |-> 0,
        bitsAvail |-> 0, word |-> ZeroWord, overflow |-> FALSE, oob |-> FALSE],
       iStartBit)

(***************************************************************************)
(* The specification: a client calls the operations in any order.          *)
(***************************************************************************)
Init ==
  /\ \E n \in Lengths : rd = StartReading(n, 0)
  /\ ret = ZeroWord

Apply(res) == rd' = res[1] /\ ret' = res[2]

DoStartReading == \E n \in Lengths : rd' = StartReading(n, 0) /\ UNCHANGED ret
DoReadOneBit == Apply(ReadOneBit(rd))
DoReadUBitLong == \E n \in Widths : Apply(ReadUBitLong(rd, n))
DoReadSBitLong == \E n \in Widths : Apply(ReadSBitLong(rd, n))
DoSeek ==
  /\ ~rd.overflow \/ SeekAfterOverflow
  /\ \E p \in SeekTargets(rd.dataBits) : rd' = Seek(rd, p)
  /\ UNCHANGED ret

Next ==
  \/ DoStartReading \/ DoReadOneBit \/ DoReadUBitLong \/ DoReadSBitLong \/ DoSeek

Spec == Init /\ [][Next]_vars

(***************************************************************************)
(* Properties.                                                             *)
(***************************************************************************)
TypeOK ==
  /\ rd.dataBytes \in Lengths
  /\ rd.dataBits = 8 * rd.dataBytes
  /\ rd.dataIn \in 0 .. rd.dataBytes + 4
  /\ rd.bitsAvail \in -WordBits .. WordBits
  /\ rd.word \in [1 .. WordBits -> Labels(rd.dataBits)]
  /\ rd.overflow \in BOOLEAN /\ rd.oob \in BOOLEAN
  /\ ret \in [1 .. WordBits -> Labels(8 * MaxBytes)]

\* No operation ever loads memory outside the buffer: every dword fetched
\* through m_pDataIn, and every head byte Seek assembles, lies inside it.
\* This rests on m_pDataIn staying dword-aligned relative to the buffer's
\* end across the head/body split, seeks, and the end-of-buffer sentinel.
InBounds == ~rd.oob

\* The reader implements the abstract bit reader of spec.md 4.1: with the
\* cursor computed as GetNumBitsRead does, every read returns exactly the
\* next n bits (merging across dword and head/body boundaries at every
\* offset) or latches overflow and returns 0, and every seek moves the
\* cursor where the abstract one goes.
ABS == INSTANCE BitBuf
         WITH nbits <- rd.dataBits, pos <- GetNumBitsRead(rd),
              overflow <- rd.overflow, ret <- ret

Refinement == ABS!Spec
=============================================================================
