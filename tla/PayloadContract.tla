--------------------------- MODULE PayloadContract ---------------------------
(***************************************************************************)
(* What payload unwrapping promises (spec.md section 4.2), one datagram at *)
(* a time: a datagram is either dropped, or the slice behind its header is *)
(* handed on.  The header is the delta-offset byte, delta_offset - 1 bytes *)
(* of padding and the 4-byte final-size field, so a delivered slice starts *)
(* at delta_offset + 5 >= 6, lies inside the datagram, is not empty, and   *)
(* runs to the datagram's last byte.  Each datagram is one atomic step     *)
(* here; the capture callback takes several.                               *)
(***************************************************************************)
EXTENDS Integers, Sequences

CONSTANTS
  Sizes,       \* payload sizes a datagram may have
  MaxPackets   \* bound on the datagrams handled

VARIABLES
  handled,     \* datagrams handled so far
  delivered    \* slices handed on: [start, len, size]

vars == <<handled, delivered>>

\* The slices a datagram of s bytes may deliver: those behind some delta
\* offset d with 0 < d and d + 5 < s, running to the end of the datagram.
Slices(s) == {[start |-> d + 5, len |-> s - d - 5, size |-> s] : d \in 1 .. s - 6}

Init == handled = 0 /\ delivered = << >>

\* A datagram is dropped: not from the server port, or its header fails.
Drop ==
  /\ handled < MaxPackets
  /\ handled' = handled + 1
  /\ UNCHANGED delivered

\* A datagram of s bytes whose header validates: its payload slice is handed on.
Unwrap(s) ==
  /\ handled < MaxPackets
  /\ handled' = handled + 1
  /\ \E sl \in Slices(s) : delivered' = Append(delivered, sl)

Next == Drop \/ \E s \in Sizes : Unwrap(s)

Spec == Init /\ [][Next]_vars
=============================================================================
