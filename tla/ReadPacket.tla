----------------------------- MODULE ReadPacket -----------------------------
(***************************************************************************)
(* ReadPacket of sniffles.cpp: the envelope decoder and frame dispatcher.  *)
(* It copies the decrypted payload (size bytes) into the stack buffer      *)
(* data[NET_MAX_PAYLOAD], reads the envelope through a CBitRead over the   *)
(* WHOLE stack buffer, and, when the flags say the payload carries frames, *)
(* loops while fewer than size bytes are consumed: read Cmd and Size as    *)
(* varints, hand the bytes at the cursor to the message parser for Cmd,    *)
(* and SeekRelative(Size * 8), whatever the parser made of them.           *)
(*                                                                         *)
(* The reader is the detailed CBitRead model; the bytes behind its bit     *)
(* labels are in buf.  The stack buffer is modelled as the packet          *)
(* followed by Slack bytes of whatever the stack held (StaleBytes).        *)
(* Envelope fields the code reads but never uses (the sequence numbers,    *)
(* the two unknown fields) are consumed, not valued.                       *)
(*                                                                         *)
(* The message parsers (protobuf ParseFromArray) are external: the         *)
(* callback is recorded in calls as <<Cmd, offset of parseBuffer in data,  *)
(* bufferSize>>; its outcome is not used by the loop.                      *)
(***************************************************************************)
EXTENDS Integers, Sequences, SequencesExt, BitLabels

CONSTANTS
  Packets,     \* decrypted payloads: [bytes: Seq(0..255), frames: reference frames]
  Slack,       \* bytes of the stack buffer beyond the packet
  StaleBytes,  \* values those bytes may hold
  MaxDispatch  \* bound on the callbacks one call may make

ASSUME Slack \in Nat /\ StaleBytes \subseteq 0 .. 255 /\ MaxDispatch \in Nat

VARIABLES
  pkt,      \* the payload being decoded (fixed for the call)
  buf,      \* data[]: pkt.bytes, then stale bytes
  rd,       \* the CBitRead over data[]
  pc,       \* "call", "loop" or "done"
  calls     \* the message-parser callbacks made, in order

vars == <<pkt, buf, rd, pc, calls>>

R == INSTANCE CBitRead
       WITH MaxBytes <- 0, Lengths <- {0}, Widths <- {8},
            SeekTargets <- LAMBDA n : {0}, SeekAfterOverflow <- TRUE,
            ret <- ZeroWord

size == Len(pkt.bytes)

kMaxVarint32Bytes == 5

HalfRange == 2 ^ 30
MaxInt32 == (HalfRange - 1) + HalfRange

(***************************************************************************)
(* From bit labels to values.                                              *)
(***************************************************************************)
BitOf(b) == IF b >= 0 THEN (buf[b \div 8 + 1] \div 2 ^ (b % 8)) % 2 ELSE 0

\* The value of the low 8 bits of a word returned by ReadUBitLong(8).
ByteValue(w) == FoldLeft(LAMBDA acc, i : acc + BitOf(w[i]) * 2 ^ (i - 1), 0, << 1, 2, 3, 4, 5, 6, 7, 8 >>)

\* (b & 0x7F) << (7 * count), truncated to 32 bits and read as an int32.
VarGroup(b, count) ==
  IF count < 4 THEN (b % 128) * 2 ^ (7 * count)
  ELSE LET h == b % 16 IN (IF h >= 8 THEN h - 16 ELSE h) * 2 ^ 28

\* Size * 8 in 32-bit arithmetic.
Times8Wrap(s) == LET m == s % 2 ^ 29 IN IF m >= 2 ^ 28 THEN (m - 2 ^ 29) * 8 ELSE m * 8

\* a + b in 32-bit arithmetic, for a >= 0.
AddWrap(a, b) ==
  IF b > MaxInt32 - a
    THEN ((b - HalfRange) - HalfRange) + ((a - HalfRange) - HalfRange)
    ELSE a + b

(***************************************************************************)
(* Reader operations used by ReadPacket.                                   *)
(***************************************************************************)
\* Fault used to validate DispatchMatchesFrames: a varint capped at 4 bytes.
RECURSIVE VarInt32LoopCap4(_, _, _)
VarInt32LoopCap4(r, count, result) ==
  IF count = 4 THEN << r, result >>
  ELSE LET res == R!ReadUBitLong(r, 8)
           b == ByteValue(res[2])
       IN IF b >= 128 THEN VarInt32LoopCap4(res[1], count + 1, result + VarGroup(b, count))
          ELSE << res[1], result + VarGroup(b, count) >>

\* ReadVarInt32: <<reader, value as the int it is stored in>>.
RECURSIVE VarInt32Loop(_, _, _)
VarInt32Loop(r, count, result) ==
  IF count = kMaxVarint32Bytes THEN << r, result >>
  ELSE LET res == R!ReadUBitLong(r, 8)
           b == ByteValue(res[2])
       IN IF b >= 128 THEN VarInt32Loop(res[1], count + 1, result + VarGroup(b, count))
          ELSE << res[1], result + VarGroup(b, count) >>

ReadVarInt32(r) == VarInt32Loop(r, 0, 0)

\* ReadSignedVarInt32 (inline in the missing header): a zigzag-decoded
\* ReadVarInt32; ReadPacket discards the value, so only the cursor matters.
ReadSignedVarInt32(r) == ReadVarInt32(r)[1]

SeekRelative(r, nOffset) == R!Seek(r, AddWrap(R!GetNumBitsRead(r), nOffset))

\* Skip a field of n bits (ReadSBitLong whose value is discarded).
Skip(r, n) == R!ReadSBitLong(r, n)[1]

HasFrames(nFlags) == nFlags = 0 \/ nFlags % 256 >= 225

(***************************************************************************)
(* The handler.                                                            *)
(***************************************************************************)
Init ==
  /\ pkt \in Packets
  /\ \E stale \in [1 .. Slack -> StaleBytes] : buf = pkt.bytes \o stale
  /\ rd = R!StartReading(Len(buf), 0)
  /\ pc = "call"
  /\ calls = << >>

\* Lines 9-24: the size check, the copy and Seek(0), the envelope, the flags.
ReadEnvelope ==
  /\ pc = "call"
  /\ IF size < 8
       THEN pc' = "done" /\ UNCHANGED rd
       ELSE LET r0 == R!Seek(rd, 0)                          \* memcpy, Seek(0)
                r2 == Skip(Skip(r0, 32), 32)              \* nSeqNrIn, nSeqNrOut
                fl == ReadVarInt32(r2)                   \* nFlags
                r4 == ReadSignedVarInt32(Skip(fl[1], 16)) \* unk0, unk1
            IN /\ rd' = r4
               /\ pc' = IF HasFrames(fl[2]) THEN "loop" ELSE "done"
  /\ UNCHANGED <<pkt, buf, calls>>

\* Fault used to validate CursorAdvances: the seek taken from the frame's
\* start instead of from the end of its header.
DispatchFrameSeekFromStart ==
  /\ pc = "loop"
  /\ R!GetNumBytesRead(rd) < size
  /\ Len(calls) < MaxDispatch
  /\ LET c == ReadVarInt32(rd)
         s == ReadVarInt32(c[1])
     IN /\ calls' = Append(calls, << c[2], R!GetNumBytesRead(s[1]), s[2] >>)
        /\ rd' = SeekRelative(rd, Times8Wrap(s[2]))
  /\ UNCHANGED <<pkt, buf, pc>>

\* One iteration of the while loop, lines 29-76.
DispatchFrame ==
  /\ pc = "loop"
  /\ R!GetNumBytesRead(rd) < size
  /\ Len(calls) < MaxDispatch
  /\ LET c == ReadVarInt32(rd)
         s == ReadVarInt32(c[1])
     IN /\ calls' = Append(calls, << c[2], R!GetNumBytesRead(s[1]), s[2] >>)
        /\ rd' = SeekRelative(s[1], Times8Wrap(s[2]))
  /\ UNCHANGED <<pkt, buf, pc>>

LoopExit ==
  /\ pc = "loop"
  /\ ~(R!GetNumBytesRead(rd) < size)
  /\ pc' = "done"
  /\ UNCHANGED <<pkt, buf, rd, calls>>

\* ReadPacket has returned; the capture thread waits for the next packet.
Returned == pc = "done" /\ UNCHANGED vars

Next == ReadEnvelope \/ DispatchFrame \/ LoopExit \/ Returned

\* ReadPacket runs to completion on the capture thread.  Termination is
\* checked through a variant (CursorAdvances) rather than a fairness
\* condition: the run is deterministic once the payload is fixed.
Spec == Init /\ [][Next]_vars

(***************************************************************************)
(* Properties.                                                             *)
(***************************************************************************)
\* The dispatcher hands the message parsers exactly the frames the payload
\* was built from: every (command id, payload offset, length), in order,
\* each exactly once, and none when the flags mark a frameless payload.
\* This needs the varint reads, the offset taken from GetNumBytesRead and
\* the SeekRelative over each payload to keep the cursor on frame starts.
DispatchMatchesFrames ==
  pc = "done" =>
    calls = [i \in DOMAIN pkt.frames |->
               << pkt.frames[i].cmd, pkt.frames[i].start, pkt.frames[i].len >>]

\* Every payload handed to a parser lies inside the received packet
\* (spec.md 3: declared lengths are bounds-checked before slicing).
PayloadInPacket ==
  \A i \in DOMAIN calls :
    /\ calls[i][3] >= 0
    /\ calls[i][2] + calls[i][3] <= size

\* ReadPacket returns, whatever the payload (spec.md 5: bounded time): every
\* iteration of the while loop moves the read cursor strictly forward.  The
\* cursor is bounded by the reader's length, so the loop ends.  This needs
\* the Size varint, Size * 8 and SeekRelative to never move it back.
CursorAdvances ==
  [][DispatchFrame => R!GetNumBitsRead(rd') > R!GetNumBitsRead(rd)]_vars
=============================================================================
