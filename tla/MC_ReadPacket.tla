--------------------------- MODULE MC_ReadPacket ---------------------------
(***************************************************************************)
(* Payloads for ReadPacket, built from frame lists by a reference encoder. *)
(* Each payload records the frames it was built from, with the offset of   *)
(* each frame's payload, so the decoder is checked against its encoder.    *)
(***************************************************************************)
EXTENDS ReadPacket, SequencesExt, Bitwise

\* Canonical little-endian base-128 varint.
RECURSIVE EncodeVarint(_)
EncodeVarint(v) ==
  IF v < 128 THEN << v >> ELSE << (v % 128) + 128 >> \o EncodeVarint(v \div 128)

\* spec.md 4.3: the payload carries frames iff flags = 0 or flags & 0xFF >= 0xE1.
CarriesFrames(flags) == flags = 0 \/ (flags & 255) >= 225

Enc(v) == [val |-> v, enc |-> EncodeVarint(v)]

\* Flag values on both sides of the 0xE1 threshold, one needing two bytes.
FlagEncs == {Enc(0), Enc(225), Enc(16), Enc(511)}

\* unk1: one or two bytes.
UnkEncs == {<< 0 >>, << 128, 1 >>}

\* A known and an unknown command id (two-byte varint).
CmdEncs == {Enc(4), Enc(200)}

\* Payload lengths, with non-canonical encodings: 1 in two bytes and 0 in
\* the full five bytes a varint may take.
LenEncs == {Enc(0), Enc(2), [val |-> 1, enc |-> << 129, 0 >>],
            [val |-> 0, enc |-> << 128, 128, 128, 128, 0 >>]}

FrameChoices == [cmd : CmdEncs, len : LenEncs]

\* Payload bytes have the continuation bit set, so a cursor left inside a
\* payload reads a different frame header than the one that is there.
PayloadByte == 128

Envelope(flag, unk) == << 1, 0, 0, 0, 2, 0, 0, 0 >> \o flag.enc \o << 7, 0 >> \o unk

RECURSIVE Layout(_, _)
Layout(fl, off) ==
  IF fl = << >> THEN [bytes |-> << >>, frames |-> << >>]
  ELSE LET f == Head(fl)
           hdr == f.cmd.enc \o f.len.enc
           st == off + Len(hdr)
           rest == Layout(Tail(fl), st + f.len.val)
       IN [bytes |-> hdr \o [i \in 1 .. f.len.val |-> PayloadByte] \o rest.bytes,
           frames |-> << [cmd |-> f.cmd.val, start |-> st, len |-> f.len.val] >>
                      \o rest.frames]

MakePacket(flag, unk, fl) ==
  LET env == Envelope(flag, unk)
      body == Layout(fl, Len(env))
  IN [bytes |-> env \o body.bytes,
      frames |-> IF CarriesFrames(flag.val) THEN body.frames ELSE << >>]

\* Well-formed payloads with up to two frames, and one shorter than 8 bytes.
MCPackets ==
  {MakePacket(f, u, fl) : f \in FlagEncs, u \in UnkEncs, fl \in BoundedSeq(FrameChoices, 2)}
  \cup {[bytes |-> << 1, 2, 3 >>, frames |-> << >>]}

\* A frame whose Size varint decodes to -6 (0xFFFFFFFA as an int): the
\* SeekRelative lands back on the frame's own Cmd byte.
MCNegativePackets ==
  {[bytes |-> Envelope(Enc(0), << 0 >>) \o << 4, 250, 255, 255, 255, 15 >>,
    frames |-> << >>]}

\* Well-formed payloads whose last frame lost its last payload byte.
MCTruncatedPackets ==
  {[p EXCEPT !.bytes = Front(@)] :
      p \in {MakePacket(Enc(0), << 0 >>, fl) : fl \in BoundedSeq(FrameChoices, 2)}}
  \ {MakePacket(Enc(0), << 0 >>, fl) : fl \in BoundedSeq(FrameChoices, 2)}
=============================================================================
