------------------------------ MODULE Framing ------------------------------
(***************************************************************************)
(* The wire format of net_worker, byte by byte, on one outward link: what  *)
(* pointer::send writes (message id and body size as 16-bit little-endian  *)
(* words, then the body), how async_read_some cuts it, and how             *)
(* pointer::parse_data takes it apart again (source/net_worker.hpp:107-208,*)
(* source/common.hpp:16-24).  The frame is built in a data_packet.          *)
(*                                                                         *)
(* A byte has Base values instead of 256, so a word has Base * Base; the   *)
(* control of the link is NetWorker's for a single bullet, with what       *)
(* OneContinuation says folded into `link` and `parsing`.                  *)
(*                                                                         *)
(* parse_data() moves what is left to the front of the buffer with memcpy, *)
(* whose result is undefined where source and destination overlap, as they *)
(* do when more is left than was just handled.  Every order of copying the *)
(* bytes is modelled here (Copies); `clean` notes when one did harm.       *)
(***************************************************************************)
EXTENDS DataPacket

CONSTANTS
    Base,       \* how many values a byte has
    Messages,   \* what the peer may send: an id and a serialised body
    Accepts,    \* the packets parse_msg() returns true for
    MaxRecv,    \* max_recv_size: bytes the receive buffer holds
    MaxSent,    \* bound: messages the peer sends over one connection
    MaxLives    \* bound: connections one after the other

Bytes == 0..(Base - 1)
Word == Base * Base
HeaderSize == 4

ASSUME FramingAssumption ==
    /\ Base \in Nat \ {0, 1}
    /\ Messages \subseteq [id : 0..(Word - 1), body : Seq(Bytes)]
    \* The programs pass 1 MiB, room for any packet a header can announce.
    /\ MaxRecv \in Nat /\ MaxRecv >= HeaderSize + Word - 1
    /\ MinMem >= HeaderSize     \* it is 64
    /\ MaxSent \in Nat /\ MaxLives \in Nat

VARIABLES
    link,       \* "free", "pushed", "connecting", "connected" or "waiting"
    life,       \* history: the number of connections so far
    wire,       \* bytes the peer has written and the kernel has not yet given
    buf,        \* m_recv_buf_ptr[0 .. m_recv_size); `by` is the life of a byte
    parsing,    \* parse_data() runs
    gone,       \* the peer has closed or reset the connection
    sent,       \* history: messages the peer sent over this connection
    got,        \* history: packets this connection handed to a handler
    clean,      \* history: the buffer was empty when this connection began, no
                \* frame on it is without its body and memcpy did no harm
    short       \* history: some read left less than a header in the buffer

linkVars == <<link, life, gone, clean, short>>
vars == <<linkVars, wire, buf, parsing, sent, got>>

-----------------------------------------------------------------------------
\* msg_send_guard passes the size of the serialised message through a uint16_t
\* parameter of send(): of a longer body only the first Len % 2^16 bytes are
\* announced and written.  Cut(m) is what the peer's handler should see.
Cut(m) == [m EXCEPT !.body = SubSeq(@, 1, Len(@) % Word)]

Halves(n) == <<n % Base, n \div Base>>

\* The destructor of msg_send_guard serialises the message into a packet and
\* send() builds the frame in another.  It does not look at what write_data()
\* returns: when realloc() refuses it memory, the header goes out alone.
Written(m, granted) ==
    LET body == Put(NewPacket, m.body, TRUE).mem
        size == Len(body) % Word
        head == Put(Put(NewPacket, Halves(m.id), granted), Halves(size), granted)
    IN  Put(head, SubSeq(body, 1, size), granted).mem

Frame(m) == Written(m, TRUE)

\* parse_data() reads a word where it lies in the buffer.
WordAt(b, i) == b[i].val + Base * b[i + 1].val
BodySize(b) == WordAt(b, 3)
PackageSize(b) == HeaderSize + BodySize(b)

\* Faulty variants, M_..., each the mistake its name tells; they are not part of
\* the specification and stand before the definition they replace.
M_CompleteNeedsMore(b) == Len(b) > HeaderSize /\ PackageSize(b) <= Len(b)

Complete(b) == Len(b) >= HeaderSize /\ PackageSize(b) <= Len(b)

First(b) == [id   |-> WordAt(b, 1),
             body |-> [i \in 1..BodySize(b) |-> b[HeaderSize + i].val]]

\* What should stand in the buffer once the first packet is handled.
Behind(b) == SubSeq(b, PackageSize(b) + 1, Len(b))

\* What memcpy() leaves there: a byte that it has already overwritten when it
\* comes to copy it is one from further back, by whole packages.  Only Behind(b)
\* if no more is left than was handled.
Copies(b) ==
    LET size == PackageSize(b)
        left == Len(b) - size
    IN  {[i \in 1..left |-> b[i + size * hops[i]]] :
            hops \in {h \in [1..left -> 1..(Len(b) \div size)] :
                        \A i \in 1..left : i + size * h[i] <= Len(b)}}

\* Bytes as they arrive over the current connection.
Tagged(bs) == [i \in DOMAIN bs |-> [val |-> bs[i], by |-> life]]

-----------------------------------------------------------------------------
Init ==
    /\ link = "free" /\ life = 0 /\ gone = FALSE /\ clean = TRUE /\ short = FALSE
    /\ wire = <<>> /\ buf = <<>> /\ parsing = FALSE
    /\ sent = <<>> /\ got = <<>>

PushBullet ==
    /\ link = "free" /\ link' = "pushed"
    /\ UNCHANGED <<life, gone, clean, short, wire, buf, parsing, sent, got>>

\* shoot(), and handle_reconnect() after each loss.
Connect ==
    /\ link \in {"pushed", "waiting"} /\ link' = "connecting"
    /\ UNCHANGED <<life, gone, clean, short, wire, buf, parsing, sent, got>>

\* start(): neither the buffer nor m_recv_size is reset.
ConnectOk ==
    /\ link = "connecting" /\ life < MaxLives
    /\ link' = "connected" /\ life' = life + 1 /\ gone' = FALSE
    /\ clean' = (buf = <<>>)
    /\ wire' = <<>> /\ sent' = <<>> /\ got' = <<>>
    /\ UNCHANGED <<short, buf, parsing>>

ConnectFailed ==
    /\ link = "connecting" /\ link' = "waiting"
    /\ UNCHANGED <<life, gone, clean, short, wire, buf, parsing, sent, got>>

\* close(): bytes still in the kernel are lost.
Close ==
    /\ link' = "waiting" /\ wire' = <<>>
    /\ UNCHANGED <<life, gone, clean>>

\* The peer's send(), a blocking write of the frame.  A message the peer has no
\* memory to serialise ends it, which is PeerGone.
Send(m, granted) ==
    /\ link = "connected" /\ ~ gone /\ Len(sent) < MaxSent
    /\ wire' = wire \o Written(m, granted)
    /\ sent' = Append(sent, m)
    /\ clean' = (clean /\ Written(m, granted) = Frame(m))
    /\ UNCHANGED <<link, life, gone, short, buf, parsing, got>>

\* The peer leaves; what would still arrive is read before this step.
PeerGone ==
    /\ link = "connected" /\ ~ gone
    /\ gone' = TRUE /\ wire' = <<>>
    /\ UNCHANGED <<link, life, clean, short, buf, parsing, sent, got>>

M_ReceiveIgnoresRoom(n) ==
    /\ link = "connected" /\ ~ parsing
    /\ n <= Len(wire)
    /\ buf' = buf \o Tagged(SubSeq(wire, 1, n))
    /\ UNCHANGED <<sent, got>>

\* A read of n bytes, limited by left_size.
Receive(n) ==
    /\ link = "connected" /\ ~ parsing
    /\ n <= Len(wire) /\ n <= MaxRecv - Len(buf)
    /\ buf' = buf \o Tagged(SubSeq(wire, 1, n))
    /\ UNCHANGED <<sent, got>>

Read(n) ==
    /\ Receive(n) /\ Len(buf) + n >= HeaderSize
    /\ wire' = SubSeq(wire, n + 1, Len(wire))
    /\ parsing' = TRUE
    /\ UNCHANGED linkVars

M_ReadShortWaits(n) ==
    /\ Receive(n) /\ Len(buf) + n < HeaderSize
    /\ wire' = SubSeq(wire, n + 1, Len(wire))
    /\ UNCHANGED <<linkVars, parsing>>

\* parse_data() closes the slot; its loop then finds no packet, for a package
\* size is at least 4, and read_start() posts no read.
ReadShort(n) ==
    /\ Receive(n) /\ Len(buf) + n < HeaderSize
    /\ Close /\ short' = TRUE
    /\ UNCHANGED parsing

\* The read fails, or has no room and ends with no bytes.
ReadNothing ==
    /\ link = "connected" /\ ~ parsing
    /\ gone \/ Len(buf) = MaxRecv
    /\ Close
    /\ UNCHANGED <<short, buf, parsing, sent, got>>

M_HandleKeepsHeader ==
    /\ parsing /\ Complete(buf) /\ First(buf) \in Accepts
    /\ got' = Append(got, First(buf))
    /\ buf' = SubSeq(buf, BodySize(buf) + 1, Len(buf))
    /\ UNCHANGED <<linkVars, wire, parsing, sent>>

Handle ==
    /\ parsing /\ Complete(buf) /\ First(buf) \in Accepts
    /\ got' = Append(got, First(buf))
    /\ buf' \in Copies(buf)
    /\ clean' = (clean /\ buf' = Behind(buf))
    /\ UNCHANGED <<link, life, gone, short, wire, parsing, sent>>

\* parse_data() closes the slot and returns before the packet is removed.
Refuse ==
    /\ parsing /\ Complete(buf) /\ First(buf) \notin Accepts
    /\ Close /\ parsing' = FALSE
    /\ UNCHANGED <<short, buf, sent, got>>

M_DoneBeforeLoopEnds ==
    /\ parsing /\ parsing' = FALSE
    /\ UNCHANGED <<linkVars, wire, buf, sent, got>>

Done ==
    /\ parsing /\ ~ Complete(buf)
    /\ parsing' = FALSE
    /\ UNCHANGED <<linkVars, wire, buf, sent, got>>

Next ==
    \/ PushBullet \/ Connect \/ ConnectOk \/ ConnectFailed
    \/ \E m \in Messages, granted \in BOOLEAN : Send(m, granted)
    \/ PeerGone
    \/ \E n \in 1..Len(wire) : Read(n) \/ ReadShort(n)
    \/ ReadNothing \/ Handle \/ Refuse \/ Done

Spec == Init /\ [][Next]_vars
-----------------------------------------------------------------------------
Cells == [val : Bytes, by : Nat]

\* Every variable has its type; m_recv_size stays within the buffer
\* (net_worker.hpp:137-149, 210-217).
TypeOK ==
    /\ link \in {"free", "pushed", "connecting", "connected", "waiting"}
    /\ life \in Nat
    /\ gone \in BOOLEAN /\ clean \in BOOLEAN /\ short \in BOOLEAN /\ parsing \in BOOLEAN
    /\ wire \in Seq(Bytes)
    /\ buf \in Seq(Cells) /\ Len(buf) <= MaxRecv
    /\ sent \in Seq(Messages)
    /\ got \in Seq(Accepts)

\* On a connection that began with an empty buffer, while the peer has memory for
\* its frames and until an overlapping memcpy() harms what it moves, the handlers
\* see the messages the peer sent, in the order sent, none twice and none skipped,
\* each with the body that was announced, wherever the reads cut the stream and
\* however many packets one read brings (net_worker.hpp:107-127, 171-208,
\* data_packet.hpp:34-98).
DeliveredInOrder ==
    clean =>
        /\ Len(got) <= Len(sent)
        /\ \A i \in DOMAIN got : got[i] = Cut(sent[i])

\* Between two reads nothing that has arrived in full is held back: once the
\* kernel has no more bytes, every message sent has been handled, on a connection
\* as in DeliveredInOrder (net_worker.hpp:179-207).
CaughtUp ==
    link = "connected" /\ clean /\ ~ parsing /\ ~ gone /\ wire = <<>> =>
        Len(got) = Len(sent)

\* Between two reads, on any connection and whatever stands in the buffer, the first
\* packet in it is incomplete, and then the read has room, for no packet that a header
\* can announce fills the buffer without being complete; or it was refused on an
\* earlier connection (net_worker.hpp:138, 179-207).
RoomToRead ==
    link = "connected" /\ ~ parsing =>
        IF Complete(buf) THEN First(buf) \notin Accepts ELSE Len(buf) < MaxRecv
=============================================================================
