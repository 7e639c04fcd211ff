---------------------------- MODULE PayloadUnwrap ----------------------------
(***************************************************************************)
(* packet_loop_handler of sniffles.cpp: the capture callback, run once per *)
(* captured frame on the capture thread.  For a UDP datagram from port     *)
(* 27015 it mallocs pDataOut, decrypts the payload into it 8 bytes at a    *)
(* time, copies the tail that does not fill a block, reads the one-byte   *)
(* delta offset and the big-endian final-size field behind it and, when   *)
(* deltaOffset + 5 + dataFinalSize = size, copies the inner payload into   *)
(* a second buffer, frees pDataOut, calls ReadPacket and frees the copy.   *)
(*                                                                         *)
(* Bytes are abstracted to what the handler reads of them: the delta      *)
(* offset and the final-size field are chosen among small sets (ICE is a   *)
(* permutation of each block, so any plaintext can arrive).  Memory is    *)
(* tracked as the number of bytes of pDataOut written so far and the set  *)
(* of live heap blocks; ghost variables record every byte index read.     *)
(***************************************************************************)
EXTENDS Integers, Sequences, FiniteSets

CONSTANTS
  Sizes,        \* UDP payload sizes raw->payload_size() may report (>= 1)
  DeltaOffsets, \* values of the first decrypted byte
  MaxPackets    \* bound on the datagrams handled

ASSUME Sizes \subseteq Nat \ {0} /\ DeltaOffsets \subseteq 0 .. 255
ASSUME MaxPackets \in Nat

\* ice.blockSize() of IceKey(2): 8 bytes.
blockSize == 8

\* A final-size field far beyond any payload: dataFinalSize + deltaOffset + 5
\* cannot wrap in uint32 back to a size (deltaOffset + 5 < size), so every
\* such field behaves alike.
HugeSize == 2 ^ 30

VARIABLES
  pc,         \* "idle", "decrypt" or "header"
  size,       \* payload_size() of the current datagram
  bytesLeft,  \* bytesLeft of the decrypt loop
  written,    \* bytes of pDataOut written by the loop and the tail copy
  heap,       \* heap blocks of this call still live: "out" is pDataOut
  leaked,     \* heap blocks still live when a handler call returned
  reads,      \* ghost: byte indices of pDataOut read in this call
  delivered,  \* ReadPacket calls: [start, len, size]
  handled     \* datagrams handled so far

vars == <<pc, size, bytesLeft, written, heap, leaked, reads, delivered, handled>>

\* A handler call returns with the heap blocks in live still allocated:
\* nothing refers to them any more.
Return(live) ==
  /\ pc' = "idle"
  /\ heap' = {}
  /\ leaked' = leaked + Cardinality(live)

\* The bytes of pDataOut the header check reads.
HeaderReads(d, f) ==
  {0} \cup (d + 1 .. d + 4) \cup (IF f + d + 5 = size THEN d + 5 .. size - 1 ELSE {})

\* Fault: the copy starts at the final-size field, &pDataOut[deltaOffset + 1].
DeliverFromSizeField(d, f) ==
  delivered' = Append(delivered, [start |-> d + 1, len |-> f, size |-> size])

Deliver(d, f) ==
  delivered' = Append(delivered, [start |-> d + 5, len |-> f, size |-> size])

(***************************************************************************)
(* Faults used to validate the properties (see PROJECT.json "mutants").    *)
(***************************************************************************)
CopyTailFullBlock ==
  /\ pc = "decrypt"
  /\ ~(bytesLeft >= blockSize)
  /\ written' = written + blockSize
  /\ pc' = "header"
  /\ UNCHANGED <<size, bytesLeft, heap, leaked, reads, delivered, handled>>

CheckHeaderNoLengthGuard(d, f) ==
  /\ pc = "header"
  /\ IF d > 0
       THEN /\ reads' = reads \cup HeaderReads(d, f)
            /\ IF f + d + 5 = size
                 THEN Deliver(d, f) /\ Return({})
                 ELSE UNCHANGED delivered /\ Return(heap)
       ELSE /\ reads' = reads \cup {0}
            /\ UNCHANGED delivered /\ Return(heap)
  /\ UNCHANGED <<size, bytesLeft, written, handled>>

(***************************************************************************)
(* The handler.                                                            *)
(***************************************************************************)
Init ==
  /\ pc = "idle"
  /\ size = 0 /\ bytesLeft = 0 /\ written = 0
  /\ heap = {} /\ leaked = 0
  /\ reads = {} /\ delivered = << >>
  /\ handled = 0

\* Lines 83-93: a frame that is not IP, not UDP, or not from the server
\* port is ignored.
Ignore ==
  /\ pc = "idle"
  /\ handled < MaxPackets
  /\ handled' = handled + 1
  /\ UNCHANGED <<pc, size, bytesLeft, written, heap, leaked, reads, delivered>>

\* Lines 93-119: a datagram from the server port; pDataOut is malloc'd.
Receive(s) ==
  /\ pc = "idle"
  /\ handled < MaxPackets
  /\ handled' = handled + 1
  /\ pc' = "decrypt" /\ size' = s /\ bytesLeft' = s /\ written' = 0
  /\ heap' = {"out"}
  /\ reads' = {}
  /\ UNCHANGED <<leaked, delivered>>

\* Lines 121-128: one iteration of the decrypt loop.
DecryptBlock ==
  /\ pc = "decrypt"
  /\ bytesLeft >= blockSize
  /\ written' = written + blockSize
  /\ bytesLeft' = bytesLeft - blockSize
  /\ UNCHANGED <<pc, size, heap, leaked, reads, delivered, handled>>

\* Line 131: the loop is done; the tail is copied undecrypted.
CopyTail ==
  /\ pc = "decrypt"
  /\ ~(bytesLeft >= blockSize)
  /\ written' = written + bytesLeft
  /\ pc' = "header"
  /\ UNCHANGED <<size, bytesLeft, heap, leaked, reads, delivered, handled>>

\* Lines 133-151: the header checks, the copy, ReadPacket and the frees.
\* d is the first decrypted byte, f the final-size field behind it.  On a
\* match packetData is malloc'd, pDataOut freed, ReadPacket called and
\* packetData freed; otherwise the handler returns with pDataOut live.
\* ReadPacket is taken as one step that returns: whether it does is
\* ReadPacket's own question (readpacket_negative shows it may not).
\* malloc(dataFinalSize) is taken to succeed.
CheckHeader(d, f) ==
  /\ pc = "header"
  /\ IF d > 0 /\ d + 5 < size
       THEN /\ reads' = reads \cup HeaderReads(d, f)
            /\ IF f + d + 5 = size
                 THEN Deliver(d, f) /\ Return({})
                 ELSE UNCHANGED delivered /\ Return(heap)
       ELSE /\ reads' = reads \cup {0}
            /\ UNCHANGED delivered /\ Return(heap)
  /\ UNCHANGED <<size, bytesLeft, written, handled>>

\* The final-size fields tried for offset d: the matching one, one off by
\* one on each side, and one far too large.
FinalSizes(d) == {size - d - 5, size - d - 4, size - d - 6, HugeSize}

\* The capture loop has delivered its MaxPackets frames.
Done == pc = "idle" /\ handled = MaxPackets /\ UNCHANGED vars

Next ==
  \/ Done
  \/ Ignore
  \/ \E s \in Sizes : Receive(s)
  \/ DecryptBlock
  \/ CopyTail
  \/ \E d \in DeltaOffsets : \E f \in FinalSizes(d) : CheckHeader(d, f)

Spec == Init /\ [][Next]_vars

(***************************************************************************)
(* Properties.                                                             *)
(***************************************************************************)
TypeOK ==
  /\ pc \in {"idle", "decrypt", "header"}
  /\ size \in Sizes \cup {0}
  /\ written \in 0 .. size /\ bytesLeft \in 0 .. size
  /\ heap \subseteq {"out"} /\ leaked \in Nat
  /\ handled \in 0 .. MaxPackets

\* The handler reads only bytes of pDataOut that the decrypt loop or the
\* tail copy wrote (spec.md 4.2: the header is validated before use), and
\* copies out for ReadPacket only such bytes.  It rests on the loop and the tail copy together covering
\* the whole payload, and on deltaOffset + 5 < size guarding the reads.
ReadsWritten == pc = "idle" => reads \subseteq 0 .. written - 1

\* The handler implements the unwrap contract of spec.md 4.2: every
\* ReadPacket call gets the bytes behind a validated header, from
\* deltaOffset + 5 to the end of the datagram, and never an empty or
\* out-of-range slice.  A datagram counts as handled at the abstract level
\* when its handler call returns, so Receive, the decrypt loop and the tail
\* copy are stuttering steps and CheckHeader is the abstract Unwrap or Drop.
Contract == INSTANCE PayloadContract
  WITH handled <- handled - (IF pc = "idle" THEN 0 ELSE 1)

Refinement == Contract!Spec

\* No heap block outlives the handler call that allocated it.
NoLeak == leaked = 0
=============================================================================
