----------------------------- MODULE DataPacket -----------------------------
(***************************************************************************)
(* data_packet (source/data_packet.hpp): a growing byte buffer.  A packet  *)
(* is a record: `mem` is what was put so far, m_mem_ptr[0 .. m_offset),    *)
(* and `total` the size of its memory, m_end_ptr - m_mem_ptr.              *)
(***************************************************************************)
EXTENDS Naturals, Sequences

CONSTANT MinMem     \* min_mem_size

ASSUME DataPacketAssumption == MinMem \in Nat

NewPacket == [mem |-> <<>>, total |-> MinMem]

\* A faulty variant, the mistake its name tells; not part of the specification.
M_ResizeOnlyDoubles(d, new_size) == [d EXCEPT !.total = 2 * @]

\* A realloc() that succeeds: twice the memory, or what is needed if that is more.
Resize(d, new_size) ==
    [d EXCEPT !.total = IF 2 * @ > new_size THEN 2 * @ ELSE new_size]

Fits(d, data) == Len(d.mem) + Len(data) <= d.total

\* A copy to m_offset; what lies behind the end is not the packet's.
Write(d, data) ==
    [d EXCEPT !.mem = @ \o IF Fits(d, data) THEN data
                           ELSE SubSeq(data, 1, d.total - Len(@))]

\* operator<< and write_data(); `granted` is realloc's answer, if it is asked.
\* One refused leaves the packet as it is.
Put(d, data, granted) ==
    CASE Fits(d, data) -> Write(d, data)
      [] ~ Fits(d, data) /\ granted -> Write(Resize(d, Len(d.mem) + Len(data)), data)
      [] OTHER -> d
=============================================================================
