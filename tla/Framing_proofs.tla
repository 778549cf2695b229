-------------------------- MODULE Framing_proofs --------------------------
(***************************************************************************)
(* Proofs about Framing and FramingWorker, for every size of a byte, every *)
(* set of messages and every buffer that has room for one packet.          *)
(*                                                                         *)
(* The argument for DeliveredInOrder and CaughtUp: what is in the buffer   *)
(* and behind it on the wire is the frames of the messages not handled     *)
(* yet, one after the other; InStream says so with the offset at which     *)
(* each begins.                                                            *)
(*                                                                         *)
(* The argument for PacketsStandForBytes: cutting a buffer into packets    *)
(* and then putting the bytes of a read behind it gives the same packets,  *)
(* and the same stump, as cutting what was put together (SplitJoined); so  *)
(* one step on the bytes is one step, or a stutter, on the packets.  The   *)
(* exception, Garbled, needs more left than was handled (NoOverlapNoHarm). *)
(***************************************************************************)
EXTENDS FramingWorker, SequenceTheorems, FiniteSetTheorems,
        WellFoundedInduction, TLAPS

-----------------------------------------------------------------------------
(* Words.                                                                  *)

LEMMA BaseFacts ==
    /\ Base \in Nat /\ Base > 1
    /\ Word \in Nat /\ Word > 1
    /\ MaxRecv \in Nat /\ MaxRecv >= Word + 3
    /\ Messages \subseteq [id : 0..(Word - 1), body : Seq(Bytes)]
  <1>1. Base \in Nat /\ Base > 1
    BY FramingAssumption
  <1>2. Base * Base \in Nat /\ Base * Base > 1
    BY <1>1, SMT
  <1> QED BY <1>1, <1>2, FramingAssumption DEF Word, HeaderSize

\* A word is the bytes of its two halves.
LEMMA HalvesBytes ==
    ASSUME NEW n \in 0..(Word - 1)
    PROVE  /\ Halves(n) \in Seq(Bytes) /\ Len(Halves(n)) = 2
           /\ Halves(n)[1] \in Bytes /\ Halves(n)[2] \in Bytes
           /\ Halves(n)[1] + Base * Halves(n)[2] = n
  <1>1. Base \in Nat /\ Base > 1 /\ n \in Nat /\ n < Base * Base
    BY BaseFacts DEF Word
  <1>2. /\ n % Base \in 0..(Base - 1) /\ n \div Base \in Nat
        /\ n = Base * (n \div Base) + (n % Base)
    BY <1>1, SMT
  <1>3. n \div Base < Base
    <2>1. SUFFICES ASSUME n \div Base >= Base PROVE FALSE
      BY <1>1, <1>2
    <2>2. Base * (n \div Base) >= Base * Base
      BY <2>1, <1>1, <1>2, SMT
    <2> QED BY <2>2, <1>1, <1>2, SMT
  <1>4. n % Base \in Bytes /\ n \div Base \in Bytes
    BY <1>1, <1>2, <1>3 DEF Bytes
  <1>5. (n % Base) + Base * (n \div Base) = n
    BY <1>1, <1>2, SMT
  <1> QED BY <1>4, <1>5 DEF Halves

\* Two bytes make a word.
LEMMA WordRange ==
    ASSUME NEW a \in Bytes, NEW b \in Bytes
    PROVE  a + Base * b \in 0..(Word - 1)
  <1>1. Base \in Nat /\ Base > 1 /\ a \in 0..(Base - 1) /\ b \in 0..(Base - 1)
    BY BaseFacts DEF Bytes
  <1>2. Base * b \in Nat /\ Base * b <= Base * (Base - 1)
    BY <1>1, SMT
  <1>3. Base * (Base - 1) = Base * Base - Base
    BY <1>1, SMT
  <1> QED BY <1>1, <1>2, <1>3, SMT DEF Word

\* Where the parts of a frame lie.
LEMMA JoinFacts ==
    ASSUME NEW f \in Seq(Bytes), NEW g \in Seq(Bytes), NEW b \in Seq(Bytes),
           Len(f) = 2, Len(g) = 2
    PROVE  /\ f \o g \o b \in Seq(Bytes) /\ Len(f \o g \o b) = 4 + Len(b)
           /\ (f \o g \o b)[1] = f[1] /\ (f \o g \o b)[2] = f[2]
           /\ (f \o g \o b)[3] = g[1] /\ (f \o g \o b)[4] = g[2]
           /\ \A i \in 1..Len(b) : (f \o g \o b)[4 + i] = b[i]
  <1> DEFINE h == f \o g
  <1>1. h \in Seq(Bytes) /\ Len(h) = 4 /\ \A i \in 1..4 : h[i] = IF i <= 2 THEN f[i] ELSE g[i - 2]
    <2>1. /\ f \o g \in Seq(Bytes) /\ Len(f \o g) = Len(f) + Len(g)
          /\ \A i \in 1..(Len(f) + Len(g)) : (f \o g)[i] = IF i <= Len(f) THEN f[i] ELSE g[i - Len(f)]
      BY ConcatProperties
    <2> QED BY <2>1
  <1> HIDE DEF h
  <1>2. h[1] = f[1] /\ h[2] = f[2] /\ h[3] = g[1] /\ h[4] = g[2]
    BY <1>1
  <1>3. /\ h \o b \in Seq(Bytes) /\ Len(h \o b) = 4 + Len(b)
        /\ \A i \in 1..(4 + Len(b)) : (h \o b)[i] = IF i <= 4 THEN h[i] ELSE b[i - 4]
    <2>1. /\ h \o b \in Seq(Bytes) /\ Len(h \o b) = Len(h) + Len(b)
          /\ \A i \in 1..(Len(h) + Len(b)) : (h \o b)[i] = IF i <= Len(h) THEN h[i] ELSE b[i - Len(h)]
      BY <1>1, ConcatProperties
    <2> QED BY <2>1, <1>1
  <1>4. Len(b) \in Nat
    OBVIOUS
  <1> DEFINE w == h \o b
  <1>5. w \in Seq(Bytes) /\ Len(w) = 4 + Len(b)
    BY <1>3
  <1>6. \A i \in 1..(4 + Len(b)) : w[i] = IF i <= 4 THEN h[i] ELSE b[i - 4]
    BY <1>3
  <1> HIDE DEF w
  <1>7. w[1] = h[1] /\ w[2] = h[2] /\ w[3] = h[3] /\ w[4] = h[4]
    BY <1>6, <1>4
  <1>8. \A i \in 1..Len(b) : w[4 + i] = b[i]
    BY <1>6, <1>4
  <1> QED BY <1>2, <1>5, <1>7, <1>8 DEF h, w

\* Packets over S, whose content lies within their memory.
Filling(S) == {d \in [mem : Seq(S), total : Nat] : Len(d.mem) <= d.total}

\* A data_packet, however large it has grown and whatever is put: the data is
\* behind what was there, all of it and within the memory, or realloc() was asked
\* and refused and nothing has changed (data_packet.hpp:34-98).
THEOREM PutCorrect ==
    ASSUME NEW S, NEW d \in Filling(S), NEW data \in Seq(S), NEW granted \in BOOLEAN
    PROVE  /\ Put(d, data, granted) \in Filling(S)
           /\ \/ Put(d, data, granted).mem = d.mem \o data
              \/ ~granted /\ ~Fits(d, data) /\ Put(d, data, granted) = d
  <1>1. PICK k \in Nat, n \in Nat, t \in Nat :
          k = Len(d.mem) /\ n = Len(data) /\ t = d.total /\ k <= t
    BY LenProperties DEF Filling
  <1>2. d.mem \o data \in Seq(S) /\ Len(d.mem \o data) = k + n
    BY <1>1, ConcatProperties DEF Filling
  <1>3. ASSUME NEW e, e \in [mem : Seq(S), total : Nat], e.mem = d.mem, k + n <= e.total
        PROVE  Write(e, data) \in Filling(S) /\ Write(e, data).mem = d.mem \o data
    <2>1. Fits(e, data)
      BY <1>1, <1>3 DEF Fits
    <2>2. Write(e, data) = [e EXCEPT !.mem = d.mem \o data]
      BY <1>3, <2>1 DEF Write
    <2>3. Write(e, data) \in [mem : Seq(S), total : Nat]
          /\ Write(e, data).mem = d.mem \o data /\ Write(e, data).total = e.total
      BY <1>2, <1>3, <2>2
    <2> QED BY <1>2, <1>3, <2>3 DEF Filling
  <1>4. CASE Fits(d, data)
    <2>1. Put(d, data, granted) = Write(d, data)
      BY <1>4 DEF Put
    <2>2. d \in [mem : Seq(S), total : Nat] /\ k + n <= d.total
      BY <1>1, <1>4 DEF Fits, Filling
    <2> QED BY <1>3, <2>1, <2>2
  <1>5. CASE ~Fits(d, data) /\ granted
    <2> DEFINE e == Resize(d, k + n)
    <2>1. Put(d, data, granted) = Write(e, data)
      BY <1>1, <1>5 DEF Put
    <2>2. e = [d EXCEPT !.total = IF 2 * t > k + n THEN 2 * t ELSE k + n]
      BY <1>1 DEF Resize
    <2>3. (IF 2 * t > k + n THEN 2 * t ELSE k + n) \in Nat
          /\ k + n <= (IF 2 * t > k + n THEN 2 * t ELSE k + n)
      BY <1>1
    <2>4. e \in [mem : Seq(S), total : Nat] /\ e.mem = d.mem /\ k + n <= e.total
      BY <2>2, <2>3 DEF Filling
    <2> HIDE DEF e
    <2> QED BY <1>3, <2>1, <2>4
  <1>6. CASE ~Fits(d, data) /\ ~granted
    <2>1. Put(d, data, granted) = d
      BY <1>6 DEF Put
    <2> QED BY <1>6, <2>1
  <1> QED BY <1>4, <1>5, <1>6

LEMMA Remainder ==
    ASSUME NEW k \in Nat, NEW w \in Nat, w > 1
    PROVE  k % w \in Nat /\ k % w \in 0..(w - 1) /\ k % w <= k
  OBVIOUS

\* What send() writes is bytes, and the parts of a frame in order if no memory
\* is refused.
LEMMA WrittenFacts ==
    ASSUME NEW m \in Messages, NEW granted \in BOOLEAN
    PROVE  /\ Written(m, granted) \in Seq(Bytes)
           /\ Frame(m) = Halves(m.id) \o Halves(Len(m.body) % Word)
                             \o SubSeq(m.body, 1, Len(m.body) % Word)
  <1>1. m.id \in 0..(Word - 1) /\ m.body \in Seq(Bytes) /\ Word \in Nat /\ Word > 1
    BY BaseFacts
  <1>2. PICK l \in Nat : l = Len(m.body) % Word /\ l \in 0..(Word - 1) /\ l <= Len(m.body)
    <2>1. PICK k \in Nat, w \in Nat : k = Len(m.body) /\ w = Word /\ w > 1
      BY <1>1, LenProperties
    <2>2. k % w \in Nat /\ k % w \in 0..(w - 1) /\ k % w <= k
      BY <2>1, Remainder
    <2> QED BY <2>1, <2>2
  <1>3. PICK f \in Seq(Bytes), h \in Seq(Bytes), b \in Seq(Bytes) :
          f = Halves(m.id) /\ h = Halves(l) /\ b = SubSeq(m.body, 1, l)
    <2>1. Halves(m.id) \in Seq(Bytes) /\ Halves(l) \in Seq(Bytes)
      BY <1>1, <1>2, HalvesBytes
    <2>2. SubSeq(m.body, 1, l) \in Seq(Bytes)
      <3>1. PICK c \in Seq(Bytes), k \in Nat : c = m.body /\ k = Len(c) /\ l <= k
        BY <1>1, <1>2, LenProperties
      <3>2. SubSeq(c, 1, l) \in Seq(Bytes)
        BY <3>1
      <3> QED BY <3>1, <3>2
    <2> QED BY <2>1, <2>2
  <1>4. NewPacket \in Filling(Bytes) /\ NewPacket.mem = <<>>
    <2>1. <<>> \in Seq(Bytes) /\ Len(<<>>) = 0
      BY EmptySeq
    <2> QED BY <2>1, DataPacketAssumption DEF NewPacket, Filling
  <1>5. Put(NewPacket, m.body, TRUE).mem = m.body
    <2>1. PICK d \in Filling(Bytes), c \in Seq(Bytes) :
            d = NewPacket /\ c = m.body /\ d.mem = <<>>
      BY <1>1, <1>4
    <2>2. Put(d, c, TRUE).mem = d.mem \o c
      BY <2>1, PutCorrect
    <2>3. <<>> \o c = c
      BY ConcatEmptySeq
    <2> QED BY <2>1, <2>2, <2>3
  <1>6. ASSUME NEW g \in BOOLEAN
        PROVE  /\ Written(m, g) \in Seq(Bytes)
               /\ g => Written(m, g) = f \o h \o b
    <2> DEFINE p == Put(NewPacket, f, g)
               q == Put(p, h, g)
               r == Put(q, b, g)
    <2>1. Written(m, g) = r.mem
      BY <1>2, <1>3, <1>5 DEF Written
    <2>2. p \in Filling(Bytes) /\ (g => p.mem = <<>> \o f)
      BY <1>4, PutCorrect
    <2> HIDE DEF p
    <2>3. q \in Filling(Bytes) /\ (g => q.mem = p.mem \o h)
      BY <2>2, PutCorrect
    <2> HIDE DEF q
    <2>4. r \in Filling(Bytes) /\ (g => r.mem = q.mem \o b)
      BY <2>3, PutCorrect
    <2> HIDE DEF r
    <2>5. <<>> \o f = f
      BY ConcatEmptySeq
    <2>6. r.mem \in Seq(Bytes)
      BY <2>4 DEF Filling
    <2> QED BY <2>1, <2>2, <2>3, <2>4, <2>5, <2>6
  <1>7. Written(m, granted) \in Seq(Bytes) /\ Frame(m) = f \o h \o b
    BY <1>6 DEF Frame
  <1> QED BY <1>2, <1>3, <1>7

\* The body that is sent, and the frame around it.
LEMMA FrameFacts ==
    ASSUME NEW m \in Messages
    PROVE  /\ Cut(m).id = m.id /\ m.id \in 0..(Word - 1)
           /\ Cut(m).body \in Seq(Bytes) /\ Len(Cut(m).body) \in 0..(Word - 1)
           /\ Cut(m) = [id |-> m.id, body |-> Cut(m).body]
           /\ Frame(m) \in Seq(Bytes)
           /\ Len(Frame(m)) = HeaderSize + Len(Cut(m).body)
           /\ Frame(m)[1] + Base * Frame(m)[2] = m.id
           /\ Frame(m)[3] + Base * Frame(m)[4] = Len(Cut(m).body)
           /\ \A i \in 1..Len(Cut(m).body) : Frame(m)[HeaderSize + i] = Cut(m).body[i]
  <1> DEFINE l == Len(m.body) % Word
             b == SubSeq(m.body, 1, l)
  <1>1. m \in [id : 0..(Word - 1), body : Seq(Bytes)] /\ Word \in Nat /\ Word > 1
    BY BaseFacts
  <1>2. Len(m.body) \in Nat /\ l \in 0..(Word - 1) /\ l <= Len(m.body)
    BY <1>1, SMT
  <1>3. b \in Seq(Bytes) /\ Len(b) = l
    BY <1>1, <1>2
  <1>4. Cut(m) = [id |-> m.id, body |-> b]
    <2>1. m = [id |-> m.id, body |-> m.body]
      BY <1>1
    <2>2. Cut(m) = [m EXCEPT !.body = b]
      BY DEF Cut
    <2> HIDE DEF b, l
    <2> QED BY <2>1, <2>2, Zenon
  <1> HIDE DEF l, b
  <1>5. Cut(m).body = b /\ Cut(m).id = m.id /\ m.id \in 0..(Word - 1) /\ Len(b) \in 0..(Word - 1)
    BY <1>1, <1>2, <1>3, <1>4
  <1> DEFINE f == Halves(m.id)
             g == Halves(Len(b))
  <1>6. Frame(m) = f \o g \o b
    <2>1. Frame(m) = Halves(m.id) \o Halves(l) \o b
      BY WrittenFacts DEF l, b
    <2> QED BY <1>3, <2>1
  <1>7. f \in Seq(Bytes) /\ Len(f) = 2 /\ f[1] + Base * f[2] = m.id
    BY <1>5, HalvesBytes
  <1>8. g \in Seq(Bytes) /\ Len(g) = 2 /\ g[1] + Base * g[2] = Len(b)
    BY <1>5, HalvesBytes
  <1> HIDE DEF f, g
  <1>9. /\ f \o g \o b \in Seq(Bytes) /\ Len(f \o g \o b) = 4 + Len(b)
        /\ (f \o g \o b)[1] = f[1] /\ (f \o g \o b)[2] = f[2]
        /\ (f \o g \o b)[3] = g[1] /\ (f \o g \o b)[4] = g[2]
        /\ \A i \in 1..Len(b) : (f \o g \o b)[4 + i] = b[i]
    BY ZenonT(30), <1>3, <1>7, <1>8, JoinFacts
  <1> QED BY <1>3, <1>4, <1>5, <1>6, <1>7, <1>8, <1>9 DEF HeaderSize

\* What parse_data() computes from a buffer with a whole header.
LEMMA HeaderFacts ==
    ASSUME NEW b \in Seq(Cells), Len(b) >= HeaderSize
    PROVE  /\ WordAt(b, 1) \in 0..(Word - 1)
           /\ BodySize(b) \in 0..(Word - 1)
           /\ PackageSize(b) \in HeaderSize..(HeaderSize + Word - 1)
  <1>1. Len(b) \in Nat /\ \A i \in 1..4 : b[i].val \in Bytes
    <2>1. Len(b) \in Nat /\ \A i \in 1..4 : b[i] \in Cells
      BY DEF HeaderSize
    <2> QED BY <2>1 DEF Cells
  <1>2. WordAt(b, 1) \in 0..(Word - 1) /\ WordAt(b, 3) \in 0..(Word - 1)
    <2>1. b[1].val \in Bytes /\ b[2].val \in Bytes /\ b[3].val \in Bytes /\ b[4].val \in Bytes
      BY <1>1
    <2>2. /\ b[1].val + Base * b[2].val \in 0..(Word - 1)
          /\ b[3].val + Base * b[4].val \in 0..(Word - 1)
      BY <2>1, WordRange
    <2>3. 1 + 1 = 2 /\ 3 + 1 = 4
      OBVIOUS
    <2> QED BY <2>2, <2>3, Zenon DEF WordAt
  <1> QED BY <1>2, BaseFacts DEF BodySize, PackageSize, HeaderSize

\* What stays behind the first packet.
LEMMA BehindFacts ==
    ASSUME NEW b \in Seq(Cells), Complete(b)
    PROVE  /\ Behind(b) \in Seq(Cells)
           /\ PackageSize(b) \in HeaderSize..Len(b)
           /\ Len(Behind(b)) = Len(b) - PackageSize(b)
           /\ \A i \in 1..Len(Behind(b)) : Behind(b)[i] = b[PackageSize(b) + i]
  <1> DEFINE s == PackageSize(b)
  <1>1. s \in HeaderSize..Len(b) /\ Len(b) \in Nat /\ s \in Nat
    BY HeaderFacts, BaseFacts DEF Complete, HeaderSize
  <1>2. Behind(b) = SubSeq(b, s + 1, Len(b))
    BY DEF Behind
  <1> HIDE DEF s
  <1>3. \A i \in (s + 1)..Len(b) : b[i] \in Cells
    BY <1>1
  <1>4. /\ SubSeq(b, s + 1, Len(b)) \in Seq(Cells)
        /\ Len(SubSeq(b, s + 1, Len(b))) = IF s + 1 <= Len(b) THEN Len(b) - (s + 1) + 1 ELSE 0
        /\ \A i \in 1..(Len(b) - (s + 1) + 1) : SubSeq(b, s + 1, Len(b))[i] = b[(s + 1) + i - 1]
    BY <1>1, <1>3, SubSeqProperties
  <1>5. Len(Behind(b)) = Len(b) - s
    BY <1>1, <1>2, <1>4
  <1>6. \A i \in 1..Len(Behind(b)) : Behind(b)[i] = b[s + i]
    BY <1>1, <1>2, <1>4, <1>5
  <1> QED BY <1>1, <1>2, <1>4, <1>5, <1>6 DEF s

\* However memcpy() copies, as many bytes are left, and each of them stood
\* one or more packets further on.
LEMMA CopiesFacts ==
    ASSUME NEW b \in Seq(Cells), Complete(b), NEW c \in Copies(b)
    PROVE  /\ c \in Seq(Cells)
           /\ Len(c) = Len(b) - PackageSize(b)
           /\ \A i \in 1..Len(c) :
                \E k \in Nat : /\ k >= 1
                              /\ i + PackageSize(b) * k <= Len(b)
                              /\ c[i] = b[i + PackageSize(b) * k]
  <1>1. PICK n \in Nat : n = Len(b)
    BY LenProperties
  <1>2. PICK z \in Nat : z = PackageSize(b) /\ z <= n
    BY <1>1, HeaderFacts, BaseFacts DEF Complete, HeaderSize
  <1>3. PICK hops \in [1..(n - z) -> 1..(n \div z)] :
           /\ \A i \in 1..(n - z) : i + z * hops[i] <= n
           /\ c = [i \in 1..(n - z) |-> b[i + z * hops[i]]]
    BY <1>1, <1>2 DEF Copies
  <1>4. \A i \in 1..(n - z) : b[i + z * hops[i]] \in Cells
    <2> SUFFICES ASSUME NEW i \in 1..(n - z) PROVE b[i + z * hops[i]] \in Cells
      OBVIOUS
    <2>1. hops[i] \in 1..(n \div z) /\ i + z * hops[i] <= n
      BY <1>3
    <2>2. PICK k \in Nat : k = hops[i]
      BY <2>1
    <2>3. PICK p \in Nat : p = z * k
      BY <2>2
    <2>4. i + p \in 1..n
      <3>1. i + p <= n /\ i >= 1
        BY <2>1, <2>2, <2>3
      <3> QED BY <3>1
    <2> QED BY <1>1, <2>2, <2>3, <2>4, ElementOfSeq
  <1>5. n - z \in Nat
    BY <1>2
  <1>6. c \in [1..(n - z) -> Cells]
    BY <1>3, <1>4
  <1>7. \A i \in 1..(n - z) :
          \E k \in Nat : k >= 1 /\ i + z * k <= n /\ c[i] = b[i + z * k]
    <2> SUFFICES ASSUME NEW i \in 1..(n - z)
                 PROVE  \E k \in Nat : /\ k >= 1
                                       /\ i + z * k <= n
                                       /\ c[i] = b[i + z * k]
      OBVIOUS
    <2>1. hops[i] \in 1..(n \div z) /\ i + z * hops[i] <= n
      BY <1>3
    <2>2. c[i] = b[i + z * hops[i]]
      BY <1>3
    <2>3. hops[i] \in Nat /\ hops[i] >= 1
      BY <2>1
    <2> QED BY <2>1, <2>2, <2>3
  <1>8. c \in Seq(Cells)
    BY <1>5, <1>6, SeqDef
  <1>9. DOMAIN c = 1..(n - z)
    BY <1>6
  <1>10. Len(c) = n - z
    <2>1. PICK l \in Nat : l = n - z
      BY <1>5
    <2>2. PICK m \in Nat : m = Len(c) /\ DOMAIN c = 1..m
      BY <1>8, LenProperties
    <2>3. 1..l = 1..m
      BY <1>9, <2>1, <2>2
    <2>4. (l >= 1 => l \in 1..m) /\ (m >= 1 => m \in 1..l)
      <3>1. (l >= 1 => l \in 1..l) /\ (m >= 1 => m \in 1..m)
        OBVIOUS
      <3> QED BY <2>3, <3>1, Zenon
    <2>5. l <= m /\ m <= l
      BY <2>4
    <2>6. l = m
      BY <2>5
    <2> QED BY <2>1, <2>2, <2>6
  <1> QED BY <1>1, <1>2, <1>7, <1>8, <1>10

\* memcpy() can only do harm when more is left than was handled.
THEOREM NoOverlapNoHarm ==
    ASSUME NEW b \in Seq(Cells), Complete(b), Len(b) - PackageSize(b) <= PackageSize(b)
    PROVE  Copies(b) \subseteq {Behind(b)}
  <1> SUFFICES ASSUME NEW c \in Copies(b) PROVE c = Behind(b)
    OBVIOUS
  <1>1. PICK n \in Nat : n = Len(b)
    BY LenProperties
  <1>2. PICK z \in Nat : z = PackageSize(b) /\ z <= n
    BY <1>1, HeaderFacts, BaseFacts DEF Complete, HeaderSize
  <1>3. \A i \in 1..Len(c) :
          \E k \in Nat : k >= 1 /\ i + z * k <= n /\ c[i] = b[i + z * k]
    BY <1>1, <1>2, CopiesFacts
  <1>4. /\ Behind(b) \in Seq(Cells) /\ Len(Behind(b)) = n - z
        /\ \A i \in 1..(n - z) : Behind(b)[i] = b[z + i]
    BY <1>1, <1>2, BehindFacts
  <1>5. c \in Seq(Cells) /\ Len(c) = n - z
    BY <1>1, <1>2, CopiesFacts
  <1>6. \A i \in 1..(n - z) : c[i] = b[z + i]
    <2> SUFFICES ASSUME NEW i \in 1..(n - z) PROVE c[i] = b[z + i]
      OBVIOUS
    <2>1. PICK k \in Nat : k >= 1 /\ i + z * k <= n /\ c[i] = b[i + z * k]
      BY <1>3, <1>5
    <2>2. n <= z + z
      BY <1>1, <1>2
    <2>3. k = 1
      <3>1. SUFFICES ASSUME k # 1 PROVE FALSE
        OBVIOUS
      <3>2. k >= 2
        BY <2>1, <3>1
      <3>3. PICK p \in Nat : p = z * k
        OBVIOUS
      <3>4. p >= z + z
        BY <3>2, <3>3
      <3>5. i >= 1 /\ i + p <= n
        BY <2>1, <3>3
      <3> QED BY <2>2, <3>4, <3>5
    <2>4. z * k = z
      BY <2>3
    <2>5. i + z * k = z + i
      BY <2>4
    <2> QED BY <2>1, <2>5
  <1> QED BY <1>4, <1>5, <1>6, SeqEqual

LEMMA FrameLength ==
    ASSUME NEW m \in Messages
    PROVE  Len(Frame(m)) \in Nat /\ Len(Frame(m)) >= HeaderSize
  <1>1. Len(Frame(m)) = HeaderSize + Len(Cut(m).body) /\ Len(Cut(m).body) \in 0..(Word - 1)
    BY FrameFacts
  <1> QED BY <1>1, BaseFacts DEF HeaderSize

-----------------------------------------------------------------------------
(* Reading: n bytes move from the wire to the buffer.                      *)

LEMMA ReceiveFacts ==
    ASSUME TypeOK, NEW n \in 1..Len(wire), Receive(n)
    PROVE  /\ Len(wire) \in Nat /\ Len(buf) \in Nat
           /\ buf' \in Seq(Cells) /\ Len(buf') = Len(buf) + n /\ Len(buf') <= MaxRecv
           /\ \A i \in 1..Len(buf) : buf'[i] = buf[i]
           /\ \A i \in 1..n : buf'[Len(buf) + i].val = wire[i]
           /\ SubSeq(wire, n + 1, Len(wire)) \in Seq(Bytes)
           /\ Len(SubSeq(wire, n + 1, Len(wire))) = Len(wire) - n
           /\ \A i \in 1..(Len(wire) - n) : SubSeq(wire, n + 1, Len(wire))[i] = wire[n + i]
  <1>1. /\ wire \in Seq(Bytes) /\ buf \in Seq(Cells) /\ life \in Nat
        /\ Len(wire) \in Nat /\ Len(buf) \in Nat /\ n \in Nat /\ n <= Len(wire) /\ n >= 1
        /\ n <= MaxRecv - Len(buf) /\ MaxRecv \in Nat
    BY BaseFacts DEF TypeOK, Receive
  <1> DEFINE h == SubSeq(wire, 1, n)
             t == SubSeq(wire, n + 1, Len(wire))
             g == Tagged(h)
  <1>2. h \in Seq(Bytes) /\ Len(h) = n /\ \A i \in 1..n : h[i] = wire[i]
    <2>1. \A i \in 1..n : wire[i] \in Bytes
      BY <1>1
    <2>2. /\ h \in Seq(Bytes) /\ Len(h) = (IF 1 <= n THEN n - 1 + 1 ELSE 0)
          /\ \A i \in 1..(n - 1 + 1) : h[i] = wire[1 + i - 1]
      BY <1>1, <2>1, SubSeqProperties
    <2> HIDE DEF h
    <2> QED BY <1>1, <2>2
  <1>3. t \in Seq(Bytes) /\ Len(t) = Len(wire) - n /\ \A i \in 1..(Len(wire) - n) : t[i] = wire[n + i]
    <2>1. \A i \in (n + 1)..Len(wire) : wire[i] \in Bytes
      BY <1>1
    <2>2. /\ t \in Seq(Bytes) /\ Len(t) = (IF n + 1 <= Len(wire) THEN Len(wire) - (n + 1) + 1 ELSE 0)
          /\ \A i \in 1..(Len(wire) - (n + 1) + 1) : t[i] = wire[(n + 1) + i - 1]
      BY <1>1, <2>1, SubSeqProperties
    <2> HIDE DEF t
    <2> QED BY <1>1, <2>2
  <1> HIDE DEF h
  <1>4. g \in Seq(Cells) /\ Len(g) = n /\ \A i \in 1..n : g[i].val = wire[i]
    <2>1. DOMAIN h = 1..n /\ \A i \in 1..n : h[i] \in Bytes
      BY <1>1, <1>2
    <2>2. g = [i \in 1..n |-> [val |-> h[i], by |-> life]]
      BY <2>1 DEF Tagged
    <2>3. \A i \in 1..n : [val |-> h[i], by |-> life] \in Cells
      BY <1>1, <2>1 DEF Cells
    <2> HIDE DEF g
    <2>4. g \in [1..n -> Cells]
      BY <2>2, <2>3
    <2> QED BY <1>1, <1>2, <2>2, <2>4
  <1> HIDE DEF g, t
  <1>5. buf' = buf \o g
    BY DEF Receive, g, h
  <1>6. /\ buf' \in Seq(Cells) /\ Len(buf') = Len(buf) + n
        /\ \A i \in 1..(Len(buf) + n) : buf'[i] = IF i <= Len(buf) THEN buf[i] ELSE g[i - Len(buf)]
    <2>1. /\ buf \o g \in Seq(Cells) /\ Len(buf \o g) = Len(buf) + Len(g)
          /\ \A i \in 1..(Len(buf) + Len(g)) : (buf \o g)[i] = IF i <= Len(buf) THEN buf[i] ELSE g[i - Len(buf)]
      BY <1>1, <1>4, ConcatProperties
    <2> QED BY <1>4, <1>5, <2>1
  <1>7. \A i \in 1..Len(buf) : buf'[i] = buf[i]
    BY <1>1, <1>6
  <1>8. \A i \in 1..n : buf'[Len(buf) + i].val = wire[i]
    <2> SUFFICES ASSUME NEW i \in 1..n PROVE buf'[Len(buf) + i].val = wire[i]
      OBVIOUS
    <2>1. /\ Len(buf) + i \in 1..(Len(buf) + n) /\ ~ (Len(buf) + i <= Len(buf))
          /\ (Len(buf) + i) - Len(buf) = i
      BY <1>1
    <2>2. buf'[Len(buf) + i] = g[i]
      BY <1>6, <2>1
    <2> QED BY <1>4, <2>2
  <1> QED BY <1>1, <1>3, <1>6, <1>7, <1>8 DEF t

-----------------------------------------------------------------------------
(* The type invariant, and room for every read.                            *)

LEMMA InitType == Init => TypeOK
  <1> SUFFICES ASSUME Init PROVE TypeOK
    OBVIOUS
  <1>1. /\ wire \in Seq(Bytes) /\ sent \in Seq(Messages) /\ got \in Seq(Accepts)
        /\ buf \in Seq(Cells) /\ Len(buf) = 0
    BY EmptySeq DEF Init
  <1>2. /\ link = "free" /\ life \in Nat /\ gone \in BOOLEAN /\ clean \in BOOLEAN
        /\ short \in BOOLEAN /\ parsing \in BOOLEAN
    BY DEF Init
  <1> QED BY <1>1, <1>2, BaseFacts DEF TypeOK

LEMMA CloseType ==
    ASSUME TypeOK, Close
    PROVE  /\ link' = "waiting" /\ wire' = <<>> /\ wire' \in Seq(Bytes)
           /\ life' = life /\ gone' = gone /\ clean' = clean
  BY DEF Close

\* Every step keeps the types, the buffer within its bounds among them.
LEMMA TypeStep == TypeOK /\ [Next]_vars => TypeOK'
  <1> SUFFICES ASSUME TypeOK, [Next]_vars PROVE TypeOK'
    OBVIOUS
  <1>1. CASE UNCHANGED vars
    BY <1>1 DEF vars, linkVars, TypeOK
  <1>2. CASE PushBullet \/ Connect \/ ConnectFailed
    BY <1>2 DEF PushBullet, Connect, ConnectFailed, TypeOK
  <1>3. CASE ConnectOk
    <2>1. clean' \in BOOLEAN
      BY <1>3, Zenon DEF ConnectOk
    <2>2. wire' \in Seq(Bytes) /\ sent' \in Seq(Messages) /\ got' \in Seq(Accepts)
      BY <1>3, EmptySeq DEF ConnectOk
    <2>3. /\ link' = "connected" /\ life' \in Nat /\ gone' = FALSE
          /\ buf' = buf /\ parsing' = parsing /\ short' = short
      BY <1>3 DEF ConnectOk, TypeOK
    <2> QED BY <2>1, <2>2, <2>3 DEF TypeOK
  <1>4. ASSUME NEW m \in Messages, NEW g \in BOOLEAN, Send(m, g) PROVE TypeOK'
    <2>1. wire' \in Seq(Bytes)
      <3>1. Written(m, g) \in Seq(Bytes) /\ wire \in Seq(Bytes) /\ wire' = wire \o Written(m, g)
        BY <1>4, WrittenFacts DEF Send, TypeOK
      <3> QED BY <3>1, ConcatProperties
    <2>2. sent' \in Seq(Messages)
      BY <1>4, AppendProperties DEF Send, TypeOK
    <2>3. clean' \in BOOLEAN
      BY <1>4, Zenon DEF Send
    <2>4. UNCHANGED <<link, life, gone, short, buf, parsing, got>>
      BY <1>4 DEF Send
    <2> QED BY <2>1, <2>2, <2>3, <2>4 DEF TypeOK
  <1>5. CASE PeerGone
    BY <1>5 DEF PeerGone, TypeOK
  <1>6. ASSUME NEW n \in 1..Len(wire), Read(n) \/ ReadShort(n) PROVE TypeOK'
    <2>1. Receive(n)
      BY <1>6 DEF Read, ReadShort
    <2>2. /\ buf' \in Seq(Cells) /\ Len(buf') <= MaxRecv
          /\ SubSeq(wire, n + 1, Len(wire)) \in Seq(Bytes)
      BY <2>1, ReceiveFacts
    <2>3. sent' = sent /\ got' = got
      BY <2>1 DEF Receive
    <2>4. CASE Read(n)
      BY <2>2, <2>3, <2>4 DEF Read, TypeOK, linkVars
    <2>5. CASE ReadShort(n)
      BY <2>2, <2>3, <2>5, CloseType DEF ReadShort, TypeOK
    <2> QED BY <1>6, <2>4, <2>5
  <1>7. CASE ReadNothing
    BY <1>7, CloseType DEF ReadNothing, TypeOK
  <1>8. CASE Handle
    <2>1. /\ buf' \in Seq(Cells) /\ Len(buf') = Len(buf) - PackageSize(buf)
          /\ PackageSize(buf) \in HeaderSize..Len(buf)
      BY <1>8, CopiesFacts, BehindFacts DEF Handle, TypeOK
    <2>2. Len(buf') <= MaxRecv
      BY <2>1, BaseFacts DEF TypeOK, HeaderSize
    <2>3. got' \in Seq(Accepts)
      BY <1>8, AppendProperties DEF Handle, TypeOK
    <2>4. clean' \in BOOLEAN
      BY <1>8, Zenon DEF Handle
    <2> QED BY <1>8, <2>1, <2>2, <2>3, <2>4 DEF Handle, TypeOK
  <1>9. CASE Refuse
    BY <1>9, CloseType DEF Refuse, TypeOK
  <1>10. CASE Done
    BY <1>10 DEF Done, TypeOK, linkVars
  <1> QED BY <1>1, <1>2, <1>3, <1>4, <1>5, <1>6, <1>7, <1>8, <1>9, <1>10 DEF Next

\* Every variable has its type in every reachable state.
THEOREM TypeCorrect == Spec => []TypeOK
  <1> QED BY InitType, TypeStep, PTL DEF Spec

\* What RoomToRead says of a buffer.
HasRoom(b) == IF Complete(b) THEN First(b) \notin Accepts ELSE Len(b) < MaxRecv

\* RoomToRead, connected or not; and parse_data() runs only on a connected link.
Roomy ==
    /\ parsing => link = "connected"
    /\ ~ parsing => HasRoom(buf)

LEMMA InitRoomy == Init => Roomy
  <1>1. Init => buf = <<>> /\ parsing = FALSE
    BY DEF Init
  <1>2. Len(<<>>) = 0 /\ MaxRecv > 0
    BY BaseFacts
  <1>3. ~ Complete(<<>>)
    BY <1>2 DEF Complete, HeaderSize
  <1> QED BY <1>1, <1>2, <1>3 DEF Roomy, HasRoom

LEMMA RoomStep == TypeOK /\ Roomy /\ [Next]_vars => Roomy'
  <1> SUFFICES ASSUME TypeOK, Roomy, [Next]_vars PROVE Roomy'
    OBVIOUS
  <1>1. Len(buf) \in Nat /\ buf \in Seq(Cells) /\ MaxRecv >= HeaderSize /\ MaxRecv \in Nat
    BY BaseFacts DEF TypeOK, HeaderSize
  <1>2. CASE UNCHANGED vars
    BY <1>2 DEF vars, linkVars, Roomy
  <1>3. CASE \/ PushBullet \/ Connect \/ ConnectFailed \/ ConnectOk \/ PeerGone
             \/ \E m \in Messages, g \in BOOLEAN : Send(m, g)
    <2>1. buf' = buf /\ parsing' = parsing
      BY <1>3 DEF PushBullet, Connect, ConnectFailed, ConnectOk, PeerGone, Send
    <2>2. parsing => link' = "connected"
      BY <1>3 DEF Roomy, PushBullet, Connect, ConnectFailed, ConnectOk, PeerGone, Send, linkVars
    <2> QED BY <2>1, <2>2 DEF Roomy
  <1>4. ASSUME NEW n \in 1..Len(wire), Read(n) PROVE Roomy'
    BY <1>4 DEF Read, Receive, Roomy, linkVars
  <1>5. ASSUME NEW n \in 1..Len(wire), ReadShort(n) PROVE Roomy'
    <2>1. Len(buf') < HeaderSize /\ Len(buf') \in Nat
      BY <1>5, <1>1, ReceiveFacts DEF ReadShort, HeaderSize
    <2>2. ~ parsing'
      BY <1>5 DEF ReadShort, Receive
    <2>3. HasRoom(buf')
      BY <1>1, <2>1 DEF HasRoom, Complete, HeaderSize
    <2> QED BY <2>2, <2>3 DEF Roomy
  <1>6. CASE ReadNothing \/ Refuse
    <2>1. buf' = buf /\ ~ parsing' /\ HasRoom(buf)
      BY <1>6 DEF ReadNothing, Refuse, Roomy, HasRoom
    <2> QED BY <2>1 DEF Roomy
  <1>7. CASE Handle
    BY <1>7 DEF Handle, Roomy, linkVars
  <1>8. CASE Done
    <2>1. ~ Complete(buf) /\ buf' = buf /\ link' = link /\ ~ parsing'
      BY <1>8 DEF Done, linkVars
    <2>2. Len(buf) < MaxRecv
      <3>1. CASE Len(buf) < HeaderSize
        BY <3>1, <1>1 DEF HeaderSize
      <3>2. CASE Len(buf) >= HeaderSize
        <4>1. PackageSize(buf) \in HeaderSize..(HeaderSize + Word - 1) /\ ~ (PackageSize(buf) <= Len(buf))
          BY <1>1, <2>1, <3>2, HeaderFacts DEF Complete
        <4> QED BY <1>1, <4>1, BaseFacts DEF HeaderSize
      <3> QED BY <1>1, <3>1, <3>2 DEF HeaderSize
    <2> QED BY <2>1, <2>2 DEF Roomy, HasRoom
  <1> QED BY <1>2, <1>3, <1>4, <1>5, <1>6, <1>7, <1>8 DEF Next

\* Whatever the peers send and however reads cut it, between two reads there is room,
\* or a refused packet at the front, if the buffer holds one packet of the largest size
\* a header can announce.
THEOREM RoomToReadCorrect == Spec => []RoomToRead
  <1>1. Init => TypeOK /\ Roomy
    BY InitType, InitRoomy
  <1>2. TypeOK /\ Roomy /\ [Next]_vars => TypeOK' /\ Roomy'
    BY TypeStep, RoomStep
  <1>3. Roomy => RoomToRead
    BY DEF Roomy, HasRoom, RoomToRead
  <1> QED BY <1>1, <1>2, <1>3, PTL DEF Spec

-----------------------------------------------------------------------------
(* Delivery.                                                               *)

\* What the peer has written and the link has not handled, by position.
Here(x) == IF x <= Len(buf) THEN buf[x].val ELSE wire[x - Len(buf)]
Arrived == Len(buf) + Len(wire)

\* It is the frames of the messages not yet handled: message i begins behind
\* position at[i].  After the peer has gone the last ones may be cut short.
Offsets(at) ==
    /\ Len(got) <= Len(sent)
    /\ at[Len(got) + 1] = 0
    /\ \A i \in (Len(got) + 1)..Len(sent) : at[i + 1] = at[i] + Len(Frame(sent[i]))
    /\ \A i, j \in (Len(got) + 1)..(Len(sent) + 1) : i <= j => at[i] <= at[j]

Ends(at) ==
    IF gone THEN wire = <<>> /\ at[Len(sent) + 1] >= Arrived
    ELSE at[Len(sent) + 1] = Arrived

Frames(at) ==
    \A i \in (Len(got) + 1)..Len(sent) :
        \A j \in 1..Len(Frame(sent[i])) :
            at[i] + j <= Arrived => Here(at[i] + j) = Frame(sent[i])[j]

InStream(at) == Offsets(at) /\ Ends(at) /\ Frames(at)

\* The invariant: what `clean` says of a connection.
Ordered ==
    /\ DeliveredInOrder
    /\ link = "connected" /\ clean =>
         /\ \E at \in [Nat -> Nat] : InStream(at)
         /\ ~ parsing => ~ Complete(buf)

LEMMA Lengths ==
    ASSUME TypeOK
    PROVE  /\ Len(buf) \in Nat /\ Len(wire) \in Nat /\ Len(sent) \in Nat /\ Len(got) \in Nat
           /\ Arrived \in Nat
           /\ \A i \in 1..Len(sent) :
                 sent[i] \in Messages /\ Len(Frame(sent[i])) \in Nat
  <1>1. /\ Len(buf) \in Nat /\ Len(wire) \in Nat /\ Len(sent) \in Nat /\ Len(got) \in Nat
    BY DEF TypeOK
  <1>2. \A i \in 1..Len(sent) : sent[i] \in Messages
    BY ElementOfSeq DEF TypeOK
  <1>3. \A m \in Messages : Len(Frame(m)) \in Nat
    BY FrameFacts, LenProperties
  <1> QED BY <1>1, <1>2, <1>3 DEF Arrived

\* The frame of a message that is not handled yet, as it lies in the stream.
LEMMA FrameInStream ==
    ASSUME TypeOK, NEW at \in [Nat -> Nat], InStream(at),
           NEW i \in (Len(got) + 1)..Len(sent)
    PROVE  /\ i \in Nat /\ sent[i] \in Messages /\ at[i] \in Nat
           /\ Len(Frame(sent[i])) \in Nat
           /\ at[i + 1] = at[i] + Len(Frame(sent[i]))
           /\ \A j \in 1..Len(Frame(sent[i])) :
                 at[i] + j <= Arrived => Here(at[i] + j) = Frame(sent[i])[j]
  <1>1. i \in Nat /\ i \in 1..Len(sent)
    BY Lengths
  <1>2. sent[i] \in Messages /\ Len(Frame(sent[i])) \in Nat
    BY <1>1, Lengths
  <1>3. at[i] \in Nat
    BY <1>1
  <1>4. at[i + 1] = at[i] + Len(Frame(sent[i]))
    BY Zenon DEF InStream, Offsets
  <1>5. \A j \in 1..Len(Frame(sent[i])) :
           at[i] + j <= Arrived => Here(at[i] + j) = Frame(sent[i])[j]
    BY Zenon DEF InStream, Frames
  <1> QED BY <1>1, <1>2, <1>3, <1>4, <1>5

\* A buffer that begins with the bytes of a frame, a whole header at least, is
\* read as the message of that frame.
LEMMA ReadsAs ==
    ASSUME NEW b \in Seq(Cells), NEW m \in Messages, Len(b) >= HeaderSize,
           \A j \in 1..Len(Frame(m)) : j <= Len(b) => b[j].val = Frame(m)[j]
    PROVE  /\ PackageSize(b) = Len(Frame(m))
           /\ Complete(b) => First(b) = Cut(m)
  <1> DEFINE fr == Frame(m)
             body == Cut(m).body
  <1>1. Len(b) \in Nat /\ Len(b) >= 4
    BY DEF HeaderSize
  <1>2. /\ body \in Seq(Bytes) /\ Len(body) \in 0..(Word - 1) /\ Len(fr) = 4 + Len(body)
        /\ fr[1] + Base * fr[2] = m.id /\ fr[3] + Base * fr[4] = Len(body)
        /\ \A i \in 1..Len(body) : fr[4 + i] = body[i]
        /\ Cut(m) = [id |-> m.id, body |-> body]
    BY FrameFacts DEF HeaderSize
  <1>3. \A j \in 1..Len(fr) : j <= Len(b) => b[j].val = fr[j]
    OBVIOUS
  <1> HIDE DEF fr, body
  <1>4. Len(body) \in Nat
    BY <1>2
  <1>5. b[1].val = fr[1] /\ b[2].val = fr[2] /\ b[3].val = fr[3] /\ b[4].val = fr[4]
    <2>1. 1 \in 1..Len(fr) /\ 2 \in 1..Len(fr) /\ 3 \in 1..Len(fr) /\ 4 \in 1..Len(fr)
      BY <1>2, <1>4
    <2>2. 1 <= Len(b) /\ 2 <= Len(b) /\ 3 <= Len(b) /\ 4 <= Len(b)
      BY <1>1
    <2> QED BY <1>3, <2>1, <2>2, Zenon
  <1>6. WordAt(b, 1) = m.id /\ BodySize(b) = Len(body)
    <2>1. 1 + 1 = 2 /\ 3 + 1 = 4
      OBVIOUS
    <2> QED BY <1>2, <1>5, <2>1, Zenon DEF WordAt, BodySize
  <1>7. PackageSize(b) = Len(fr)
    BY <1>2, <1>6, Zenon DEF PackageSize, HeaderSize
  <1>8. ASSUME Complete(b) PROVE First(b) = Cut(m)
    <2>1. Len(fr) <= Len(b)
      BY <1>7, <1>8 DEF Complete
    <2>2. \A i \in 1..Len(body) : 4 + i \in 1..Len(fr) /\ 4 + i <= Len(b)
      BY <1>1, <1>2, <1>4, <2>1
    <2>3. \A i \in 1..Len(body) : b[HeaderSize + i].val = body[i]
      BY <1>2, <1>3, <2>2, Zenon DEF HeaderSize
    <2>4. body = [i \in 1..Len(body) |-> body[i]]
      BY <1>2
    <2>5. [i \in 1..BodySize(b) |-> b[HeaderSize + i].val] = body
      BY <1>6, <2>3, <2>4, Zenon
    <2> QED BY <1>2, <1>6, <2>5, Zenon DEF First
  <1> QED BY <1>7, <1>8 DEF fr, body

\* With a whole header in the buffer, its front is the next message's.
LEMMA NextMessage ==
    ASSUME TypeOK, NEW at \in [Nat -> Nat], InStream(at), Len(buf) >= HeaderSize
    PROVE  /\ Len(got) < Len(sent)
           /\ Len(got) + 1 \in (Len(got) + 1)..Len(sent)
           /\ sent[Len(got) + 1] \in Messages
           /\ PackageSize(buf) = Len(Frame(sent[Len(got) + 1]))
           /\ Complete(buf) => First(buf) = Cut(sent[Len(got) + 1])
  <1> DEFINE k == Len(got)
             m == sent[k + 1]
  <1>1. /\ k \in Nat /\ Len(sent) \in Nat /\ Len(buf) \in Nat /\ Len(wire) \in Nat
        /\ Len(buf) >= 4 /\ Arrived = Len(buf) + Len(wire) /\ buf \in Seq(Cells)
        /\ k <= Len(sent) /\ at[k + 1] = 0
    BY Lengths DEF HeaderSize, InStream, Offsets, Arrived, TypeOK
  <1>2. k < Len(sent)
    <2>1. SUFFICES ASSUME k = Len(sent) PROVE FALSE
      BY <1>1
    <2>2. at[Len(sent) + 1] >= Arrived
      BY <1>1 DEF InStream, Ends
    <2> QED BY <1>1, <2>1, <2>2
  <1>3. k + 1 \in (k + 1)..Len(sent)
    BY <1>1, <1>2
  <1>4. /\ m \in Messages
        /\ \A j \in 1..Len(Frame(m)) : at[k + 1] + j <= Arrived => Here(at[k + 1] + j) = Frame(m)[j]
    BY <1>3, FrameInStream
  <1>5. \A j \in 1..Len(Frame(m)) : j <= Len(buf) => buf[j].val = Frame(m)[j]
    <2> HIDE DEF k, m
    <2> SUFFICES ASSUME NEW j \in 1..Len(Frame(m)), j <= Len(buf) PROVE buf[j].val = Frame(m)[j]
      OBVIOUS
    <2>1. j \in Nat
      BY <1>4, FrameFacts
    <2>2. at[k + 1] + j = j /\ j <= Arrived
      BY <1>1, <2>1
    <2>3. Here(j) = Frame(m)[j]
      BY <1>4, <2>2, Zenon
    <2> QED BY <2>3 DEF Here
  <1>6. PackageSize(buf) = Len(Frame(m)) /\ (Complete(buf) => First(buf) = Cut(m))
    BY <1>1, <1>4, <1>5, ReadsAs
  <1> QED BY <1>2, <1>3, <1>4, <1>6

LEMMA SameStream ==
    ASSUME UNCHANGED <<wire, buf, sent, got, gone>>, NEW at \in [Nat -> Nat], InStream(at)
    PROVE  InStream(at)'
  BY DEF InStream, Offsets, Ends, Frames, Arrived, Here

\* A step that ends the connection, or falls outside one.
LEMMA Quiet ==
    ASSUME TypeOK, Ordered, UNCHANGED <<got, sent, clean>>, link' # "connected"
    PROVE  Ordered'
  <1>1. DeliveredInOrder'
    BY DEF Ordered, DeliveredInOrder
  <1> QED BY <1>1 DEF Ordered

\* A new connection: nothing sent, nothing handled.
LEMMA StartsOrdered ==
    ASSUME TypeOK, Ordered, ConnectOk
    PROVE  Ordered'
  <1>1. /\ clean' = (buf = <<>>) /\ buf' = buf
        /\ wire' = <<>> /\ sent' = <<>> /\ got' = <<>> /\ gone' = FALSE
    BY Zenon DEF ConnectOk
  <1>2. DeliveredInOrder'
    <2>1. Len(got') = 0 /\ Len(sent') = 0 /\ DOMAIN got' = {}
      BY <1>1
    <2> QED BY <2>1 DEF DeliveredInOrder
  <1>3. ASSUME clean' PROVE InStream([x \in Nat |-> 0])' /\ ~ Complete(buf')
    <2>1. Len(buf') = 0 /\ Len(wire') = 0 /\ Len(got') = 0 /\ Len(sent') = 0
      BY <1>1, <1>3
    <2>2. Offsets([x \in Nat |-> 0])'
      BY <2>1 DEF Offsets
    <2>3. Ends([x \in Nat |-> 0])'
      BY <1>1, <2>1 DEF Ends, Arrived
    <2>4. Frames([x \in Nat |-> 0])'
      BY <2>1 DEF Frames
    <2> QED BY <2>1, <2>2, <2>3, <2>4 DEF InStream, Complete, HeaderSize
  <1>4. [x \in Nat |-> 0] \in [Nat -> Nat]
    OBVIOUS
  <1>5. Complete(buf)' = Complete(buf')
    BY DEF Complete, PackageSize, BodySize, WordAt
  <1> QED BY <1>2, <1>3, <1>4, <1>5 DEF Ordered

\* The peer writes one more frame behind what is there.
LEMMA SendOrdered ==
    ASSUME TypeOK, NEW at \in [Nat -> Nat], InStream(at),
           NEW m \in Messages, NEW g \in BOOLEAN, Send(m, g), clean'
    PROVE  \E to \in [Nat -> Nat] : InStream(to)'
  <1>1. PICK k \in Nat, n \in Nat, b \in Nat, w \in Nat, l \in Nat :
            /\ k = Len(got) /\ n = Len(sent) /\ b = Len(buf) /\ w = Len(wire)
            /\ l = Len(Frame(m))
    BY Lengths, FrameFacts, LenProperties
  <1>2. /\ wire' = wire \o Frame(m) /\ sent' = Append(sent, m)
        /\ got' = got /\ buf' = buf /\ gone' = gone /\ ~ gone
        /\ wire \in Seq(Bytes) /\ sent \in Seq(Messages) /\ Frame(m) \in Seq(Bytes)
    BY FrameFacts DEF Send, TypeOK
  <1>3. Arrived = b + w /\ k <= n
    BY <1>1 DEF InStream, Offsets, Arrived
  <1>4. /\ Len(sent') = n + 1 /\ sent'[n + 1] = m
        /\ \A i \in 1..n : sent'[i] = sent[i]
    <2>1. /\ Len(Append(sent, m)) = Len(sent) + 1
          /\ \A i \in 1..Len(sent) : Append(sent, m)[i] = sent[i]
          /\ Append(sent, m)[Len(sent) + 1] = m
      BY <1>2, AppendProperties
    <2> QED BY <1>1, <1>2, <2>1
  <1>5. /\ Len(wire') = w + l
        /\ \A i \in 1..w : wire'[i] = wire[i]
        /\ \A i \in 1..l : wire'[w + i] = Frame(m)[i]
    <2>1. /\ Len(wire') = w + l
          /\ \A i \in 1..(w + l) :
                wire'[i] = IF i <= w THEN wire[i] ELSE Frame(m)[i - w]
      <3>1. /\ Len(wire \o Frame(m)) = Len(wire) + Len(Frame(m))
            /\ \A i \in 1..(Len(wire) + Len(Frame(m))) :
                  (wire \o Frame(m))[i] = IF i <= Len(wire) THEN wire[i] ELSE Frame(m)[i - Len(wire)]
        BY <1>2, ConcatProperties
      <3> QED BY <1>1, <1>2, <3>1, Zenon
    <2>2. ASSUME NEW i \in 1..l PROVE wire'[w + i] = Frame(m)[i]
      <3>1. w + i \in 1..(w + l) /\ ~ (w + i <= w) /\ (w + i) - w = i
        OBVIOUS
      <3> QED BY <2>1, <3>1
    <2>3. ASSUME NEW i \in 1..w PROVE wire'[i] = wire[i]
      <3>1. i \in 1..(w + l) /\ i <= w
        OBVIOUS
      <3> QED BY <2>1, <3>1
    <2> QED BY <2>1, <2>2, <2>3
  <1>6. /\ at[k + 1] = 0
        /\ \A i \in (k + 1)..n : at[i + 1] = at[i] + Len(Frame(sent[i]))
        /\ \A i, j \in (k + 1)..(n + 1) : i <= j => at[i] <= at[j]
    BY <1>1 DEF InStream, Offsets
  <1>7. at[n + 1] = Arrived
    BY <1>1, <1>2 DEF InStream, Ends
  <1>8. \A i \in (k + 1)..n : \A j \in 1..Len(Frame(sent[i])) :
            at[i] + j <= Arrived => Here(at[i] + j) = Frame(sent[i])[j]
    BY <1>1, Zenon DEF InStream, Frames
  <1> DEFINE to == [x \in Nat |-> IF x = n + 2 THEN at[n + 1] + l ELSE at[x]]
  <1>9. /\ to \in [Nat -> Nat] /\ to[n + 2] = at[n + 1] + l
        /\ \A i \in Nat : i <= n + 1 => to[i] = at[i]
        /\ \A i \in Nat : at[i] \in Nat
    OBVIOUS
  <1> HIDE DEF to
  <1>10. Offsets(to)'
    <2>1. k <= n + 1 /\ to[k + 1] = 0
      BY <1>3, <1>6, <1>9
    <2>2. ASSUME NEW i \in (k + 1)..(n + 1) PROVE to[i + 1] = to[i] + Len(Frame(sent'[i]))
      <3>1. CASE i = n + 1
        <4>1. i + 1 = n + 2 /\ to[i] = at[n + 1] /\ sent'[i] = m
          BY <1>4, <1>9, <3>1
        <4> QED BY <1>1, <1>9, <4>1
      <3>2. CASE i # n + 1
        <4>1. i \in (k + 1)..n /\ i \in 1..n /\ i \in Nat /\ i + 1 \in Nat /\ i + 1 <= n + 1 /\ i <= n + 1
          BY <3>2
        <4>2. sent'[i] = sent[i] /\ to[i] = at[i] /\ to[i + 1] = at[i + 1]
          BY <1>4, <1>9, <4>1
        <4> QED BY <1>6, <4>1, <4>2
      <3> QED BY <3>1, <3>2
    <2>3. ASSUME NEW i \in (k + 1)..(n + 2), NEW j \in (k + 1)..(n + 2), i <= j
          PROVE  to[i] <= to[j]
      <3>1. CASE j = n + 2 /\ i # n + 2
        <4>1. i \in (k + 1)..(n + 1) /\ n + 1 \in (k + 1)..(n + 1) /\ i <= n + 1 /\ i \in Nat
          BY <1>3, <3>1
        <4>2. to[i] = at[i] /\ at[i] \in Nat /\ at[n + 1] \in Nat
          BY <1>9, <4>1
        <4>3. at[i] <= at[n + 1]
          BY <1>6, <4>1
        <4> QED BY <1>9, <3>1, <4>2, <4>3
      <3>2. CASE j = n + 2 /\ i = n + 2
        <4>1. to[n + 2] \in Nat
          BY <1>9
        <4> QED BY <3>2, <4>1
      <3>3. CASE j # n + 2
        <4>1. i \in (k + 1)..(n + 1) /\ j \in (k + 1)..(n + 1) /\ i \in Nat /\ j \in Nat
              /\ i <= n + 1 /\ j <= n + 1
          BY <2>3, <3>3
        <4>2. to[i] = at[i] /\ to[j] = at[j]
          BY <1>9, <4>1
        <4>3. at[i] <= at[j]
          BY <1>6, <2>3, <4>1
        <4> QED BY <4>2, <4>3
      <3> QED BY <3>1, <3>2, <3>3
    <2>4. Len(got') = k /\ Len(sent') = n + 1 /\ (n + 1) + 1 = n + 2
      BY <1>1, <1>2, <1>4
    <2> QED BY <2>1, <2>2, <2>3, <2>4 DEF Offsets
  <1>11. Arrived' = b + w + l
    BY <1>1, <1>2, <1>5 DEF Arrived
  <1>12. Ends(to)'
    <2>1. Len(sent') + 1 = n + 2 /\ to[n + 2] = b + w + l
      BY <1>3, <1>4, <1>7, <1>9
    <2>2. to[Len(sent') + 1] = Arrived'
      BY <1>11, <2>1, Zenon
    <2> QED BY <1>2, <2>2, Zenon DEF Ends
  <1>13. Frames(to)'
    <2>1. ASSUME NEW x \in 1..(b + w) PROVE Here(x)' = Here(x)
      <3>1. CASE x <= b
        BY <1>1, <1>2, <3>1 DEF Here
      <3>2. CASE ~ (x <= b)
        <4>1. x - b \in 1..w
          BY <3>2
        <4>2. wire'[x - b] = wire[x - b]
          BY <1>5, <4>1
        <4> QED BY <1>1, <1>2, <3>2, <4>2 DEF Here
      <3> QED BY <3>1, <3>2
    <2>2. ASSUME NEW i \in (k + 1)..(n + 1), NEW j \in 1..Len(Frame(sent'[i])),
                 to[i] + j <= b + w + l
          PROVE  Here(to[i] + j)' = Frame(sent'[i])[j]
      <3>1. CASE i = n + 1
        <4>1. sent'[i] = m /\ to[i] = b + w
          BY <1>3, <1>4, <1>7, <1>9, <3>1
        <4>2. j \in 1..l
          BY <1>1, <4>1
        <4>3. ~ (b + w + j <= b) /\ (b + w + j) - b = w + j
          BY <4>2
        <4>4. wire'[w + j] = Frame(m)[j]
          BY <1>5, <4>2
        <4>5. Here(b + w + j)' = wire'[w + j]
          BY <1>1, <1>2, <4>3 DEF Here
        <4> QED BY <4>1, <4>4, <4>5
      <3>2. CASE i # n + 1
        <4>1. i \in (k + 1)..n /\ i \in 1..n /\ i + 1 \in (k + 1)..(n + 1) /\ i \in Nat
              /\ n + 1 \in (k + 1)..(n + 1) /\ i + 1 <= n + 1 /\ i + 1 \in Nat /\ i <= n + 1
          BY <3>2
        <4>2. sent'[i] = sent[i] /\ to[i] = at[i] /\ at[i] \in Nat /\ at[i + 1] \in Nat
          BY <1>4, <1>9, <4>1
        <4>3. at[i + 1] = at[i] + Len(Frame(sent[i])) /\ at[i + 1] <= b + w
          BY <1>3, <1>6, <1>7, <4>1
        <4>4. Len(Frame(sent[i])) \in Nat
          BY <1>1, <4>1, Lengths
        <4>5. j \in 1..Len(Frame(sent[i])) /\ j \in Nat
          BY <4>2, <4>4
        <4>6. at[i] + j \in 1..(b + w) /\ at[i] + j <= Arrived
          <5>1. PICK p \in Nat, q \in Nat : p = at[i] /\ q = Len(Frame(sent[i]))
            BY <4>2, <4>4
          <5>2. p + q <= b + w /\ j \in 1..q
            BY <4>2, <4>3, <4>5, <5>1
          <5>3. p + j \in 1..(b + w) /\ p + j <= b + w
            BY <5>2
          <5> QED BY <1>3, <5>1, <5>3
        <4>7. Here(at[i] + j)' = Here(at[i] + j)
          BY <2>1, <4>6
        <4>8. Here(at[i] + j) = Frame(sent[i])[j]
          BY <1>8, <4>1, <4>5, <4>6, Zenon
        <4> QED BY <4>2, <4>7, <4>8
      <3> QED BY <3>1, <3>2
    <2>3. Len(got') = k /\ Len(sent') = n + 1
      BY <1>1, <1>2, <1>4
    <2> QED BY <1>11, <2>2, <2>3 DEF Frames
  <1> QED BY <1>9, <1>10, <1>12, <1>13 DEF InStream

\* A read moves bytes from the wire to the buffer and changes no position.
LEMMA ReadOrdered ==
    ASSUME TypeOK, NEW at \in [Nat -> Nat], InStream(at),
           NEW c \in 1..Len(wire), Read(c)
    PROVE  InStream(at)'
  <1>1. PICK b \in Nat, w \in Nat : b = Len(buf) /\ w = Len(wire)
    BY Lengths
  <1>2. /\ Receive(c) /\ got' = got /\ sent' = sent /\ gone' = gone
        /\ wire' = SubSeq(wire, c + 1, Len(wire))
    BY DEF Read, Receive, linkVars
  <1>3. /\ Len(buf') = b + c /\ Len(wire') = w - c
        /\ \A i \in 1..b : buf'[i] = buf[i]
        /\ \A i \in 1..c : buf'[b + i].val = wire[i]
        /\ \A i \in 1..(w - c) : wire'[i] = wire[c + i]
    <2>1. /\ Len(buf') = Len(buf) + c
          /\ \A i \in 1..Len(buf) : buf'[i] = buf[i]
          /\ \A i \in 1..c : buf'[Len(buf) + i].val = wire[i]
          /\ Len(SubSeq(wire, c + 1, Len(wire))) = Len(wire) - c
          /\ \A i \in 1..(Len(wire) - c) : SubSeq(wire, c + 1, Len(wire))[i] = wire[c + i]
      BY <1>2, ReceiveFacts
    <2> QED BY <1>1, <1>2, <2>1, Zenon
  <1>4. c \in Nat /\ c >= 1 /\ c <= w
    BY <1>1
  <1>5. Arrived' = b + w /\ Arrived = b + w
    BY <1>1, <1>3, <1>4 DEF Arrived
  <1>6. ASSUME NEW x \in 1..(b + w) PROVE Here(x)' = Here(x)
    <2>1. CASE x <= b
      <3>1. x \in 1..b /\ x <= b + c
        BY <1>4, <2>1
      <3>2. buf'[x] = buf[x]
        BY <1>3, <3>1
      <3> QED BY <1>1, <1>3, <2>1, <3>1, <3>2 DEF Here
    <2>2. CASE b < x /\ x <= b + c
      <3>1. x - b \in 1..c /\ b + (x - b) = x /\ ~ (x <= b)
        BY <1>4, <2>2
      <3>2. buf'[x].val = wire[x - b]
        BY <1>3, <3>1
      <3> QED BY <1>1, <1>3, <2>2, <3>1, <3>2 DEF Here
    <2>3. CASE b + c < x
      <3>1. /\ x - (b + c) \in 1..(w - c) /\ c + (x - (b + c)) = x - b
            /\ ~ (x <= b) /\ ~ (x <= b + c)
        BY <1>4, <2>3
      <3>2. wire'[x - (b + c)] = wire[x - b]
        BY <1>3, <3>1
      <3> QED BY <1>1, <1>3, <3>1, <3>2 DEF Here
    <2> QED BY <1>4, <2>1, <2>2, <2>3
  <1>7. Offsets(at)'
    BY <1>2 DEF InStream, Offsets
  <1>8. ~ gone
    <2>1. gone => wire = <<>>
      BY DEF InStream, Ends
    <2> QED BY <2>1, <1>1, <1>4
  <1>9. Ends(at)'
    BY <1>2, <1>5, <1>8 DEF InStream, Ends
  <1>10. Frames(at)'
    <2>1. ASSUME NEW i \in (Len(got) + 1)..Len(sent), NEW j \in 1..Len(Frame(sent[i])),
                 at[i] + j <= b + w
          PROVE  Here(at[i] + j)' = Frame(sent[i])[j]
      <3>1. /\ at[i] \in Nat /\ Len(Frame(sent[i])) \in Nat
            /\ at[i] + j <= Arrived => Here(at[i] + j) = Frame(sent[i])[j]
        BY <2>1, FrameInStream
      <3>2. at[i] + j \in 1..(b + w)
        <4>1. PICK p \in Nat, q \in Nat : p = at[i] /\ q = Len(Frame(sent[i]))
          BY <3>1
        <4>2. j \in 1..q /\ p + j <= b + w
          BY <2>1, <4>1, Zenon
        <4>3. p + j \in 1..(b + w)
          BY <4>2
        <4> QED BY <4>1, <4>3, Zenon
      <3> QED BY <1>5, <1>6, <2>1, <3>1, <3>2
    <2> QED BY <1>2, <1>5, <2>1 DEF Frames
  <1> QED BY <1>7, <1>9, <1>10 DEF InStream

\* When the peer goes, what is still in the kernel is lost.
LEMMA GoneOrdered ==
    ASSUME TypeOK, NEW at \in [Nat -> Nat], InStream(at), PeerGone
    PROVE  InStream(at)'
  <1>1. PICK b \in Nat, w \in Nat : b = Len(buf) /\ w = Len(wire)
    BY Lengths
  <1>2. /\ got' = got /\ sent' = sent /\ buf' = buf /\ wire' = <<>>
        /\ ~ gone /\ gone' = TRUE
    BY DEF PeerGone
  <1>3. Arrived = b + w /\ Arrived' = b /\ Len(wire') = 0
    BY <1>1, <1>2 DEF Arrived
  <1>4. Offsets(at)'
    BY <1>2 DEF InStream, Offsets
  <1>5. Ends(at)'
    <2>1. at[Len(sent) + 1] = b + w
      BY <1>2, <1>3 DEF InStream, Ends
    <2>2. at[Len(sent') + 1] >= Arrived'
      BY <1>2, <1>3, <2>1
    <2> QED BY <1>2, <2>2 DEF Ends
  <1>6. Frames(at)'
    <2>1. ASSUME NEW i \in (Len(got) + 1)..Len(sent), NEW j \in 1..Len(Frame(sent[i])),
                 at[i] + j <= b
          PROVE  Here(at[i] + j)' = Frame(sent[i])[j]
      <3>1. PICK p \in Nat, q \in Nat : p = at[i] /\ q = Len(Frame(sent[i]))
        BY FrameInStream
      <3>2. p + j <= b + w
        BY SMTT(30), <2>1, <3>1
      <3>3. Here(p + j) = Frame(sent[i])[j]
        BY <1>3, <3>1, <3>2, FrameInStream
      <3>4. Here(p + j)' = Here(p + j)
        BY <1>1, <1>2, <2>1, <3>1 DEF Here
      <3> QED BY <3>1, <3>3, <3>4
    <2>2. got' = got /\ sent' = sent /\ Arrived' = b
      BY <1>2, <1>3
    <2> QED BY <2>1, <2>2 DEF Frames
  <1> QED BY <1>4, <1>5, <1>6 DEF InStream

\* Handling the first packet, if memcpy() does no harm: every later frame moves to
\* the front by its size.
LEMMA HandleOrdered ==
    ASSUME TypeOK, NEW at \in [Nat -> Nat], InStream(at), Handle, buf' = Behind(buf)
    PROVE  \E to \in [Nat -> Nat] : InStream(to)'
  <1>1. PICK k \in Nat, n \in Nat, b \in Nat, w \in Nat, s \in Nat :
            /\ k = Len(got) /\ n = Len(sent) /\ b = Len(buf) /\ w = Len(wire)
            /\ s = PackageSize(buf) /\ s <= b
    <2>1. Complete(buf) /\ buf \in Seq(Cells)
      BY DEF Handle, TypeOK
    <2>2. PackageSize(buf) \in HeaderSize..Len(buf)
      BY <2>1, BehindFacts
    <2>3. PackageSize(buf) \in Nat /\ PackageSize(buf) <= Len(buf)
      BY <2>2, Lengths DEF HeaderSize
    <2> QED BY <2>3, Lengths
  <1>2. /\ got' = Append(got, First(buf)) /\ buf' = Behind(buf) /\ Complete(buf)
        /\ sent' = sent /\ wire' = wire /\ gone' = gone /\ buf \in Seq(Cells)
        /\ got \in Seq(Accepts) /\ First(buf) \in Accepts
    BY DEF Handle, linkVars, TypeOK
  <1>3. Len(got') = k + 1
    BY <1>1, <1>2, AppendProperties
  <1>4. /\ Len(buf') = b - s
        /\ \A i \in 1..(b - s) : buf'[i] = buf[s + i]
    <2>1. /\ Len(Behind(buf)) = Len(buf) - PackageSize(buf)
          /\ \A i \in 1..Len(Behind(buf)) : Behind(buf)[i] = buf[PackageSize(buf) + i]
      BY <1>2, BehindFacts
    <2> QED BY <1>1, <1>2, <2>1
  <1>5. /\ k < n /\ s = Len(Frame(sent[k + 1]))
    BY <1>1, <1>2, NextMessage DEF Complete
  <1>6. /\ at[k + 1] = 0
        /\ \A i \in (k + 1)..n : at[i + 1] = at[i] + Len(Frame(sent[i]))
        /\ \A i, j \in (k + 1)..(n + 1) : i <= j => at[i] <= at[j]
        /\ \A i \in Nat : at[i] \in Nat
    BY <1>1 DEF InStream, Offsets
  <1>7. at[k + 2] = s
    <2>1. k + 1 \in (k + 1)..n /\ (k + 1) + 1 = k + 2
      BY <1>5
    <2>2. at[(k + 1) + 1] = at[k + 1] + Len(Frame(sent[k + 1]))
      BY <1>6, <2>1
    <2> QED BY <1>5, <1>6, <2>1, <2>2
  <1>8. \A i \in (k + 2)..(n + 1) : at[i] \in Nat /\ at[i] >= s
    <2> SUFFICES ASSUME NEW i \in (k + 2)..(n + 1) PROVE at[i] \in Nat /\ at[i] >= s
      OBVIOUS
    <2>1. k + 2 \in (k + 1)..(n + 1) /\ i \in (k + 1)..(n + 1) /\ k + 2 <= i /\ i \in Nat
      BY <1>5
    <2>2. at[k + 2] <= at[i]
      BY <1>6, <2>1
    <2> QED BY <1>6, <1>7, <2>1, <2>2
  <1>9. Arrived = b + w /\ Arrived' = b - s + w
    BY <1>1, <1>2, <1>4 DEF Arrived
  <1> DEFINE to == [x \in Nat |-> IF x \in (k + 2)..(n + 1) THEN at[x] - s ELSE 0]
  <1>10. to \in [Nat -> Nat] /\ \A i \in (k + 2)..(n + 1) : to[i] = at[i] - s
    BY <1>8
  <1> HIDE DEF to
  <1>11. Offsets(to)'
    <2>1. k + 1 <= n /\ to[k + 2] = 0
      <3>1. k + 2 \in (k + 2)..(n + 1)
        BY <1>5
      <3> QED BY <1>5, <1>7, <1>10, <3>1
    <2>2. ASSUME NEW i \in (k + 2)..n PROVE to[i + 1] = to[i] + Len(Frame(sent[i]))
      <3>1. i \in (k + 1)..n /\ i \in (k + 2)..(n + 1) /\ i + 1 \in (k + 2)..(n + 1) /\ i \in 1..n
        OBVIOUS
      <3>2. at[i + 1] = at[i] + Len(Frame(sent[i])) /\ Len(Frame(sent[i])) \in Nat
        BY <1>1, <1>6, <3>1, Lengths
      <3>3. /\ to[i + 1] = at[i + 1] - s /\ to[i] = at[i] - s
            /\ at[i] \in Nat /\ at[i + 1] \in Nat
        BY <1>8, <1>10, <3>1
      <3> QED BY <3>2, <3>3
    <2>3. ASSUME NEW i \in (k + 2)..(n + 1), NEW j \in (k + 2)..(n + 1), i <= j
          PROVE  to[i] <= to[j]
      <3>1. i \in (k + 1)..(n + 1) /\ j \in (k + 1)..(n + 1)
        OBVIOUS
      <3>2. at[i] <= at[j]
        BY <1>6, <2>3, <3>1
      <3>3. to[i] = at[i] - s /\ to[j] = at[j] - s /\ at[i] \in Nat /\ at[j] \in Nat
        BY <1>8, <1>10
      <3> QED BY <3>2, <3>3
    <2>4. Len(got') + 1 = k + 2 /\ Len(sent') = n /\ Len(got') = k + 1
      BY <1>1, <1>2, <1>3
    <2> QED BY <1>2, <2>1, <2>2, <2>3, <2>4 DEF Offsets
  <1>12. Ends(to)'
    <2>1. n + 1 \in (k + 2)..(n + 1) /\ Len(sent') + 1 = n + 1
      BY <1>1, <1>2, <1>5
    <2>2. to[n + 1] = at[n + 1] - s /\ at[n + 1] \in Nat
      BY <1>8, <1>10, <2>1
    <2>3. IF gone THEN wire = <<>> /\ at[n + 1] >= b + w ELSE at[n + 1] = b + w
      <3>1. Ends(at)
        BY DEF InStream
      <3>2. Len(sent) + 1 = n + 1
        BY <1>1
      <3>3. CASE gone
        BY <1>9, <3>1, <3>2, <3>3, Zenon DEF Ends
      <3>4. CASE ~ gone
        BY <1>9, <3>1, <3>2, <3>4, Zenon DEF Ends
      <3> QED BY <3>3, <3>4
    <2>4. IF gone THEN wire = <<>> /\ to[n + 1] >= b - s + w ELSE to[n + 1] = b - s + w
      <3>1. CASE gone
        <4>1. at[n + 1] >= b + w /\ wire = <<>>
          BY <2>3, <3>1, Zenon
        <4>2. at[n + 1] - s >= b - s + w
          BY <2>2, <4>1
        <4> QED BY <2>2, <3>1, <4>1, <4>2, Zenon
      <3>2. CASE ~ gone
        <4>1. at[n + 1] - s = b - s + w
          BY <2>2, <2>3, <3>2
        <4> QED BY <2>2, <3>2, <4>1, Zenon
      <3> QED BY <3>1, <3>2
    <2> QED BY <1>2, <1>9, <2>1, <2>4 DEF Ends
  <1>13. Frames(to)'
    <2>1. ASSUME NEW x \in Nat, x > s, x <= b + w
          PROVE  Here(x - s)' = Here(x)
      <3>0. s <= b
        BY <1>1
      <3>1. CASE x <= b
        <4>1. x - s \in 1..(b - s) /\ s + (x - s) = x /\ x - s <= b - s
          BY <2>1, <3>0, <3>1
        <4>2. buf'[x - s] = buf[x]
          BY <1>4, <4>1
        <4> QED BY <1>1, <1>4, <3>1, <4>1, <4>2 DEF Here
      <3>2. CASE ~ (x <= b)
        <4>1. ~ (x - s <= b - s) /\ (x - s) - (b - s) = x - b
          BY <2>1, <3>0, <3>2
        <4> QED BY <1>1, <1>2, <1>4, <3>2, <4>1 DEF Here
      <3> QED BY <3>1, <3>2
    <2>2. ASSUME NEW i \in (k + 2)..n, NEW j \in 1..Len(Frame(sent[i])),
                 to[i] + j <= b - s + w
          PROVE  Here(to[i] + j)' = Frame(sent[i])[j]
      <3>1. i \in (Len(got) + 1)..Len(sent) /\ i \in (k + 2)..(n + 1)
        <4>1. i \in (k + 1)..n /\ i \in (k + 2)..(n + 1)
          OBVIOUS
        <4> QED BY <1>1, <4>1, Zenon
      <3>2. PICK p \in Nat, q \in Nat : p = at[i] /\ q = Len(Frame(sent[i]))
        BY <3>1, FrameInStream
      <3>3. p >= s /\ to[i] = p - s
        BY <1>8, <1>10, <3>1, <3>2
      <3>4. p + j \in Nat /\ p + j > s /\ p + j <= b + w /\ (p + j) - s = (p - s) + j
        <4>1. j \in 1..q /\ (p - s) + j <= b - s + w
          BY <2>2, <3>2, <3>3, Zenon
        <4> QED BY <3>3, <4>1
      <3>5. Here((p + j) - s)' = Here(p + j)
        BY <2>1, <3>4
      <3>6. Here(p + j) = Frame(sent[i])[j]
        BY <1>9, <3>1, <3>2, <3>4, FrameInStream
      <3> QED BY <3>3, <3>4, <3>5, <3>6
    <2>3. Len(got') + 1 = k + 2 /\ Len(sent') = n
      BY <1>1, <1>2, <1>3
    <2> QED BY <1>2, <1>9, <2>2, <2>3 DEF Frames
  <1> QED BY <1>10, <1>11, <1>12, <1>13 DEF InStream

LEMMA InitOrdered == Init => Ordered
  <1> SUFFICES ASSUME Init PROVE Ordered
    OBVIOUS
  <1>1. Len(got) = 0 /\ Len(sent) = 0 /\ DOMAIN got = {} /\ link = "free"
    BY DEF Init
  <1> QED BY <1>1 DEF Ordered, DeliveredInOrder

LEMMA OrderedStep == TypeOK /\ Roomy /\ Ordered /\ [Next]_vars => Ordered'
  <1> SUFFICES ASSUME TypeOK, Roomy, Ordered, [Next]_vars PROVE Ordered'
    OBVIOUS
  <1>1. CASE UNCHANGED vars
    <2>1. UNCHANGED <<link, clean, wire, buf, sent, got, gone, parsing>>
      BY <1>1 DEF vars, linkVars
    <2>2. DeliveredInOrder'
      BY <2>1 DEF Ordered, DeliveredInOrder
    <2>3. ASSUME link = "connected", clean PROVE \E to \in [Nat -> Nat] : InStream(to)'
      BY <2>1, <2>3, SameStream DEF Ordered
    <2>4. link = "connected" /\ clean /\ ~ parsing => ~ Complete(buf)
      BY DEF Ordered
    <2>5. Complete(buf)' = Complete(buf)
      BY <2>1 DEF Complete, PackageSize, BodySize, WordAt
    <2> QED BY <2>1, <2>2, <2>3, <2>4, <2>5, Zenon DEF Ordered
  <1>2. CASE PushBullet \/ Connect \/ ConnectFailed
    <2>1. UNCHANGED <<got, sent, clean>> /\ link' # "connected"
      BY <1>2 DEF PushBullet, Connect, ConnectFailed
    <2> QED BY <2>1, Quiet
  <1>3. CASE ConnectOk
    BY <1>3, StartsOrdered
  <1>4. ASSUME NEW n \in 1..Len(wire), ReadShort(n) PROVE Ordered'
    <2>1. UNCHANGED <<got, sent, clean>> /\ link' # "connected"
      BY <1>4 DEF ReadShort, Receive, Close
    <2> QED BY <2>1, Quiet
  <1>5. CASE ReadNothing \/ Refuse
    <2>1. UNCHANGED <<got, sent, clean>> /\ link' # "connected"
      BY <1>5 DEF ReadNothing, Refuse, Close
    <2> QED BY <2>1, Quiet
  <1>6. ASSUME NEW m \in Messages, NEW g \in BOOLEAN, Send(m, g) PROVE Ordered'
    <2> SUFFICES ASSUME clean' PROVE Ordered'
      BY DEF Ordered, DeliveredInOrder
    <2>1. /\ link' = link /\ clean /\ parsing' = parsing /\ buf' = buf
          /\ got' = got /\ sent' = Append(sent, m)
      BY <1>6 DEF Send
    <2>2. DeliveredInOrder'
      <3>1. Len(sent') = Len(sent) + 1 /\ \A i \in 1..Len(sent) : sent'[i] = sent[i]
        BY <2>1, AppendProperties DEF TypeOK
      <3>2. ASSUME clean, NEW i \in DOMAIN got PROVE got[i] = Cut(sent'[i])
        <4>1. Len(got) <= Len(sent) /\ got[i] = Cut(sent[i]) /\ i \in 1..Len(got)
          BY <3>2 DEF Ordered, DeliveredInOrder, TypeOK
        <4>2. i \in 1..Len(sent)
          BY <4>1, Lengths
        <4> QED BY <3>1, <4>1, <4>2
      <3>3. clean => Len(got) <= Len(sent')
        BY <3>1, Lengths DEF Ordered, DeliveredInOrder
      <3> QED BY <2>1, <3>2, <3>3 DEF DeliveredInOrder
    <2>3. ASSUME link = "connected", clean PROVE \E to \in [Nat -> Nat] : InStream(to)'
      <3>1. PICK at \in [Nat -> Nat] : InStream(at)
        BY <2>3 DEF Ordered
      <3> QED BY <1>6, <3>1, SendOrdered
    <2>4. link = "connected" /\ clean /\ ~ parsing => ~ Complete(buf)
      BY DEF Ordered
    <2>5. Complete(buf)' = Complete(buf)
      BY <2>1 DEF Complete, PackageSize, BodySize, WordAt
    <2> QED BY <2>1, <2>2, <2>3, <2>4, <2>5, Zenon DEF Ordered
  <1>7. CASE PeerGone
    <2>1. /\ link' = link /\ clean' = clean /\ parsing' = parsing /\ buf' = buf
          /\ got' = got /\ sent' = sent
      BY <1>7 DEF PeerGone
    <2>2. DeliveredInOrder'
      BY <2>1 DEF Ordered, DeliveredInOrder
    <2>3. ASSUME link = "connected", clean PROVE \E to \in [Nat -> Nat] : InStream(to)'
      <3>1. PICK at \in [Nat -> Nat] : InStream(at)
        BY <2>3 DEF Ordered
      <3> QED BY <1>7, <3>1, GoneOrdered
    <2>4. link = "connected" /\ clean /\ ~ parsing => ~ Complete(buf)
      BY DEF Ordered
    <2>5. Complete(buf)' = Complete(buf)
      BY <2>1 DEF Complete, PackageSize, BodySize, WordAt
    <2> QED BY <2>1, <2>2, <2>3, <2>4, <2>5, Zenon DEF Ordered
  <1>8. ASSUME NEW c \in 1..Len(wire), Read(c) PROVE Ordered'
    <2>1. /\ link' = link /\ clean' = clean /\ parsing' = TRUE
          /\ got' = got /\ sent' = sent
      BY <1>8 DEF Read, Receive, linkVars
    <2>2. DeliveredInOrder'
      BY <2>1 DEF Ordered, DeliveredInOrder
    <2>3. ASSUME link = "connected", clean PROVE \E to \in [Nat -> Nat] : InStream(to)'
      <3>1. PICK at \in [Nat -> Nat] : InStream(at)
        BY <2>3 DEF Ordered
      <3> QED BY <1>8, <3>1, ReadOrdered
    <2> QED BY <2>1, <2>2, <2>3, Zenon DEF Ordered
  <1>9. CASE Handle
    <2> SUFFICES ASSUME clean' PROVE Ordered'
      BY DEF Ordered, DeliveredInOrder
    <2>0. clean /\ buf' = Behind(buf)
      BY <1>9, Zenon DEF Handle
    <2>1. /\ link' = link /\ link = "connected" /\ parsing' = parsing /\ parsing
          /\ got' = Append(got, First(buf)) /\ sent' = sent /\ Complete(buf)
          /\ First(buf) \in Accepts
      BY <1>9 DEF Handle, Roomy
    <2>2. ASSUME clean PROVE \E at \in [Nat -> Nat] : InStream(at)
      BY <2>1, <2>2 DEF Ordered
    <2>3. ASSUME clean PROVE \E to \in [Nat -> Nat] : InStream(to)'
      <3>1. PICK at \in [Nat -> Nat] : InStream(at)
        BY <2>2, <2>3
      <3> QED BY <1>9, <2>0, <3>1, HandleOrdered
    <2>4. DeliveredInOrder'
      <3>1. /\ got' \in Seq(Accepts) /\ Len(got') = Len(got) + 1
            /\ \A i \in 1..Len(got) : got'[i] = got[i]
            /\ got'[Len(got) + 1] = First(buf)
        BY <2>1, AppendProperties DEF TypeOK
      <3>2. ASSUME clean
            PROVE Len(got) < Len(sent) /\ First(buf) = Cut(sent[Len(got) + 1])
        <4>1. PICK at \in [Nat -> Nat] : InStream(at)
          BY <2>2, <3>2
        <4> QED BY <2>1, <4>1, NextMessage DEF Complete
      <3>3. ASSUME clean, NEW i \in DOMAIN got' PROVE got'[i] = Cut(sent[i])
        <4>1. i \in 1..(Len(got) + 1)
          BY <3>1
        <4>2. CASE i = Len(got) + 1
          <5>1. First(buf) = Cut(sent[Len(got) + 1])
            BY <3>2, <3>3
          <5> QED BY <3>1, <4>2, <5>1, Zenon
        <4>3. CASE i # Len(got) + 1
          <5>1. i \in 1..Len(got)
            BY <4>1, <4>3, Lengths
          <5>2. \A j \in DOMAIN got : got[j] = Cut(sent[j])
            BY <3>3 DEF Ordered, DeliveredInOrder
          <5>3. DOMAIN got = 1..Len(got)
            BY LenProperties DEF TypeOK
          <5> QED BY <3>1, <5>1, <5>2, <5>3, Zenon
        <4> QED BY <4>2, <4>3
      <3>4. clean => Len(got') <= Len(sent)
        BY <3>1, <3>2, Lengths
      <3> QED BY <2>0, <2>1, <3>3, <3>4 DEF DeliveredInOrder
    <2> QED BY <2>0, <2>1, <2>3, <2>4, Zenon DEF Ordered
  <1>10. CASE Done
    <2>1. UNCHANGED <<link, clean, wire, buf, sent, got, gone>> /\ ~ Complete(buf)
      BY <1>10 DEF Done, linkVars
    <2>3. DeliveredInOrder'
      BY <2>1 DEF Ordered, DeliveredInOrder
    <2>4. ASSUME link = "connected", clean PROVE \E to \in [Nat -> Nat] : InStream(to)'
      BY <2>1, <2>4, SameStream DEF Ordered
    <2>5. Complete(buf)' = Complete(buf)
      BY <2>1 DEF Complete, PackageSize, BodySize, WordAt
    <2> QED BY <2>1, <2>3, <2>4, <2>5, Zenon DEF Ordered
  <1> QED BY <1>1, <1>2, <1>3, <1>4, <1>5, <1>6, <1>7, <1>8, <1>9, <1>10 DEF Next

\* With nothing behind the buffer, a message not handled lies in it whole.
LEMMA OrderedCaughtUp == TypeOK /\ Ordered => CaughtUp
  <1> SUFFICES ASSUME TypeOK, Ordered, link = "connected", clean, ~ parsing, ~ gone, wire = <<>>,
                      Len(got) # Len(sent)
               PROVE  FALSE
    BY DEF CaughtUp
  <1>1. PICK at \in [Nat -> Nat] : InStream(at)
    BY DEF Ordered
  <1>2. PICK k \in Nat, n \in Nat, b \in Nat :
            k = Len(got) /\ n = Len(sent) /\ b = Len(buf) /\ buf \in Seq(Cells)
    BY Lengths DEF TypeOK
  <1>3. ~ Complete(buf)
    BY DEF Ordered
  <1>4. k < n
    BY <1>1, <1>2 DEF InStream, Offsets
  <1>5. at[n + 1] = b
    <2>1. Arrived = b
      BY <1>2 DEF Arrived
    <2> QED BY <1>1, <1>2, <2>1 DEF InStream, Ends
  <1>6. /\ k + 1 \in (Len(got) + 1)..Len(sent) /\ (k + 1) + 1 = k + 2
        /\ k + 2 \in (k + 1)..(n + 1) /\ n + 1 \in (k + 1)..(n + 1) /\ k + 2 <= n + 1
    <2>1. /\ k + 1 \in (k + 1)..n /\ (k + 1) + 1 = k + 2
          /\ k + 2 \in (k + 1)..(n + 1) /\ n + 1 \in (k + 1)..(n + 1) /\ k + 2 <= n + 1
      BY <1>4
    <2> QED BY <1>2, <2>1, Zenon
  <1>7. /\ at[k + 1] = 0 /\ at[k + 2] <= at[n + 1]
    BY <1>1, <1>2, <1>6 DEF InStream, Offsets
  <1>8. at[k + 2] = at[k + 1] + Len(Frame(sent[k + 1])) /\ sent[k + 1] \in Messages
    BY <1>1, <1>6, FrameInStream
  <1>9. PICK l \in Nat : l = Len(Frame(sent[k + 1])) /\ l >= HeaderSize
    BY <1>8, FrameLength
  <1>10. l <= b
    BY <1>5, <1>7, <1>8, <1>9
  <1>11. Len(buf) >= HeaderSize
    BY <1>2, <1>9, <1>10 DEF HeaderSize
  <1>12. PackageSize(buf) = Len(Frame(sent[Len(got) + 1]))
    BY <1>1, <1>11, NextMessage
  <1> QED BY <1>2, <1>3, <1>9, <1>10, <1>11, <1>12 DEF Complete

\* On a connection that began with an empty buffer the handlers see what the
\* peer sent, in order, none twice and none skipped, however reads cut it and
\* however many packets each brings, until memcpy() does harm.
THEOREM DeliveryCorrect == Spec => []DeliveredInOrder
  <1>1. Init => TypeOK /\ Roomy /\ Ordered
    BY InitType, InitRoomy, InitOrdered
  <1>2. TypeOK /\ Roomy /\ Ordered /\ [Next]_vars => TypeOK' /\ Roomy' /\ Ordered'
    BY TypeStep, RoomStep, OrderedStep
  <1>3. Ordered => DeliveredInOrder
    BY DEF Ordered
  <1> QED BY <1>1, <1>2, <1>3, PTL DEF Spec

\* And until then, between two reads, nothing that has arrived in full is held back.
THEOREM CaughtUpCorrect == Spec => []CaughtUp
  <1>1. Init => TypeOK /\ Roomy /\ Ordered
    BY InitType, InitRoomy, InitOrdered
  <1>2. TypeOK /\ Roomy /\ Ordered /\ [Next]_vars => TypeOK' /\ Roomy' /\ Ordered'
    BY TypeStep, RoomStep, OrderedStep
  <1> QED BY <1>1, <1>2, OrderedCaughtUp, PTL DEF Spec

-----------------------------------------------------------------------------
(* The packets of a buffer: what Split makes of it.  The library's         *)
(* induction theorems take an operator; a shortest counterexample serves   *)
(* as well.                                                                *)

Parts == [msg : {"ok", "bad"}, by : Nat]

\* A set of naturals, of buffers, has a smallest one.
LEMMA LeastNat ==
    ASSUME NEW T, T \subseteq Nat, T # {}
    PROVE  \E n \in T : \A m \in T : n <= m
  <1>1. PICK n \in T : \A m \in T : <<m, n>> \notin OpToRel(<, Nat)
    BY NatLessThanWellFounded, WFMin
  <1>2. \A m \in T : ~(m < n)
    <2> SUFFICES ASSUME NEW m \in T, m < n PROVE FALSE
      OBVIOUS
    <2>1. <<m, n>> \in OpToRel(<, Nat)
      BY DEF OpToRel
    <2> QED BY <1>1, <2>1
  <1>3. n \in Nat /\ \A m \in T : m \in Nat
    OBVIOUS
  <1> QED BY <1>2, <1>3

\* Of some buffers one is a shortest.
LEMMA Shortest ==
    ASSUME NEW T, T \subseteq Seq(Cells), T # {}
    PROVE  \E b \in T : \A c \in T : Len(b) <= Len(c)
  <1> DEFINE lens == {Len(b) : b \in T}
  <1>1. \A b \in T : b \in Seq(Cells) /\ Len(b) \in Nat
    BY LenProperties
  <1>2. lens \subseteq Nat /\ lens # {}
    BY <1>1
  <1>3. PICK n \in lens : \A m \in lens : n <= m
    <2> HIDE DEF lens
    <2> QED BY <1>2, LeastNat
  <1>4. PICK b \in T : n = Len(b)
    OBVIOUS
  <1> QED BY <1>3, <1>4

\* What is behind the first n bytes.
From(b, n) == SubSeq(b, n + 1, Len(b))

\* What is behind the first n bytes, of what is behind others, of no bytes.
LEMMA FromFacts ==
    ASSUME NEW b \in Seq(Cells), NEW n \in 0..Len(b)
    PROVE  /\ From(b, n) \in Seq(Cells) /\ Len(From(b, n)) = Len(b) - n
           /\ \A i \in 1..(Len(b) - n) : From(b, n)[i] = b[n + i]
  <1>1. Len(b) \in Nat /\ n \in Nat /\ n <= Len(b)
    BY LenProperties
  <1>2. \A i \in (n + 1)..Len(b) : b[i] \in Cells
    <2>1. \A i \in (n + 1)..Len(b) : i \in 1..Len(b)
      BY <1>1
    <2> QED BY <2>1, ElementOfSeq
  <1>3. /\ From(b, n) \in Seq(Cells)
        /\ Len(From(b, n)) = IF n + 1 <= Len(b) THEN Len(b) - (n + 1) + 1 ELSE 0
        /\ \A i \in 1..(Len(b) - (n + 1) + 1) : From(b, n)[i] = b[(n + 1) + i - 1]
    BY <1>1, <1>2, SubSeqProperties DEF From
  <1>4. Len(From(b, n)) = Len(b) - n
    <2>1. Len(From(b, n)) = IF n + 1 <= Len(b) THEN Len(b) - (n + 1) + 1 ELSE 0
      BY <1>3
    <2>2. PICK l \in Nat : l = Len(b) /\ n <= l
      BY <1>1
    <2>3. (IF n + 1 <= l THEN l - (n + 1) + 1 ELSE 0) = l - n
      BY <1>1, <2>2
    <2> QED BY <2>1, <2>2, <2>3
  <1>5. \A i \in 1..(Len(b) - n) : i \in 1..(Len(b) - (n + 1) + 1) /\ (n + 1) + i - 1 = n + i
    <2>1. PICK l \in Nat : l = Len(b) /\ n <= l
      BY <1>1
    <2>2. \A i \in 1..(l - n) : i \in 1..(l - (n + 1) + 1) /\ (n + 1) + i - 1 = n + i
      BY <1>1, <2>1
    <2> QED BY <2>1, <2>2
  <1> QED BY <1>3, <1>4, <1>5

LEMMA FromFrom ==
    ASSUME NEW b \in Seq(Cells), NEW p \in 0..Len(b), NEW n \in 0..(Len(b) - p)
    PROVE  From(From(b, p), n) = From(b, p + n)
  <1>1. PICK l \in Nat : l = Len(b)
    BY LenProperties
  <1>2. p \in Nat /\ n \in Nat /\ p + n \in 0..l /\ l - p \in Nat /\ n \in 0..(l - p)
    BY <1>1
  <1> DEFINE c == From(b, p)
             d == From(c, n)
             e == From(b, p + n)
  <1>3. c \in Seq(Cells) /\ Len(c) = l - p /\ \A i \in 1..(l - p) : c[i] = b[p + i]
    BY <1>1, FromFacts
  <1> HIDE DEF c
  <1>4. d \in Seq(Cells) /\ Len(d) = (l - p) - n /\ \A i \in 1..((l - p) - n) : d[i] = c[n + i]
    <2>1. n \in 0..Len(c)
      BY <1>2, <1>3
    <2>2. d \in Seq(Cells) /\ Len(d) = Len(c) - n /\ \A i \in 1..(Len(c) - n) : d[i] = c[n + i]
      BY <1>3, <2>1, FromFacts
    <2> HIDE DEF d
    <2> QED BY <1>3, <2>2
  <1>5. e \in Seq(Cells) /\ Len(e) = l - (p + n) /\ \A i \in 1..(l - (p + n)) : e[i] = b[(p + n) + i]
    BY <1>1, <1>2, FromFacts
  <1> HIDE DEF d, e
  <1>6. Len(d) = Len(e)
    BY <1>2, <1>4, <1>5
  <1>7. \A i \in 1..Len(d) : d[i] = e[i]
    <2> SUFFICES ASSUME NEW i \in 1..Len(d) PROVE d[i] = e[i]
      OBVIOUS
    <2>1. i \in 1..((l - p) - n) /\ i \in 1..(l - (p + n)) /\ n + i \in 1..(l - p) /\ p + (n + i) = (p + n) + i
      BY <1>2, <1>4
    <2> QED BY <1>3, <1>4, <1>5, <2>1
  <1>8. d = e
    BY <1>4, <1>5, <1>6, <1>7, SeqEqual
  <1> QED BY <1>8 DEF c, d, e

LEMMA FromStart ==
    ASSUME NEW b \in Seq(Cells)
    PROVE  From(b, 0) = b
  <1>1. 0 + 1 = 1
    OBVIOUS
  <1> QED BY <1>1, SubSeqFull DEF From

\* The packet at the front, and the connection its first byte came over.
LEMMA VerdictType ==
    ASSUME NEW b \in Seq(Cells), Complete(b)
    PROVE  Verdict(b) \in Parts /\ Verdict(b).by = b[1].by
  <1>1. b[1] \in Cells
    <2>1. 1 \in 1..Len(b)
      BY LenProperties DEF Complete, HeaderSize
    <2> QED BY <2>1, ElementOfSeq
  <1>2. b[1].by \in Nat
    BY <1>1 DEF Cells
  <1> QED BY <1>2 DEF Verdict, Parts

-----------------------------------------------------------------------------
\* What Split says of the bytes behind the first n, with f for the recursive
\* function.
SplitFrom(b, f, n) ==
    IF Complete(From(b, n))
    THEN [whole |-> <<Verdict(From(b, n))>> \o f[n + PackageSize(From(b, n))].whole,
          stump |-> f[n + PackageSize(From(b, n))].stump]
    ELSE [whole |-> <<>>, stump |-> From(b, n)]

Splitting == [whole : Seq(Parts), stump : Seq(Cells)]

Solves(b, f) ==
    /\ f \in [0..Len(b) -> Splitting]
    /\ \A n \in 0..Len(b) : f[n] = SplitFrom(b, f, n)

\* One unfolding looks at later values only, and has the type of a splitting.
LEMMA SplitFromType ==
    ASSUME NEW b \in Seq(Cells), NEW f \in [0..Len(b) -> Splitting], NEW n \in 0..Len(b)
    PROVE  /\ SplitFrom(b, f, n) \in Splitting
           /\ \A g : (\A e \in (n + 1)..Len(b) : g[e] = f[e])
                         => SplitFrom(b, g, n) = SplitFrom(b, f, n)
           /\ Complete(From(b, n)) => n + PackageSize(From(b, n)) \in (n + 1)..Len(b)
  <1> DEFINE r == From(b, n)
             e == n + PackageSize(r)
  <1>1. r \in Seq(Cells) /\ Len(r) = Len(b) - n /\ Len(b) \in Nat /\ n \in Nat
    BY FromFacts, LenProperties
  <1>2. Complete(r) => e \in (n + 1)..Len(b) /\ e \in 0..Len(b)
    <2>1. Complete(r) => PackageSize(r) \in HeaderSize..Len(r)
      BY <1>1, BehindFacts
    <2> HIDE DEF r
    <2> QED BY <1>1, <2>1 DEF HeaderSize
  <1>3. \A g : SplitFrom(b, g, n) =
            IF Complete(r) THEN [whole |-> <<Verdict(r)>> \o g[e].whole, stump |-> g[e].stump]
            ELSE [whole |-> <<>>, stump |-> r]
    BY DEF SplitFrom
  <1> HIDE DEF e, r
  <1>4. CASE ~Complete(r)
    <2>1. SplitFrom(b, f, n) \in Splitting
      <3>1. SplitFrom(b, f, n) = [whole |-> <<>>, stump |-> r]
        BY <1>3, <1>4
      <3>2. [whole |-> <<>>, stump |-> r] \in Splitting
        BY <1>1, EmptySeq DEF Splitting
      <3> QED BY <3>1, <3>2
    <2>2. \A g : SplitFrom(b, g, n) = SplitFrom(b, f, n)
      BY <1>3, <1>4
    <2> QED BY <2>1, <2>2, <1>4 DEF r
  <1>5. CASE Complete(r)
    <2>1. f[e] \in Splitting /\ Verdict(r) \in Parts
      BY <1>1, <1>2, <1>5, VerdictType
    <2>2. f[e].whole \in Seq(Parts) /\ f[e].stump \in Seq(Cells) /\ <<Verdict(r)>> \in Seq(Parts)
      BY <2>1 DEF Splitting
    <2>3. <<Verdict(r)>> \o f[e].whole \in Seq(Parts)
      BY <2>2, ConcatProperties
    <2>4. SplitFrom(b, f, n) \in Splitting
      <3>1. SplitFrom(b, f, n) = [whole |-> <<Verdict(r)>> \o f[e].whole, stump |-> f[e].stump]
        BY <1>3, <1>5
      <3>2. [whole |-> <<Verdict(r)>> \o f[e].whole, stump |-> f[e].stump] \in Splitting
        BY <2>2, <2>3 DEF Splitting
      <3> QED BY <3>1, <3>2
    <2>5. \A g : g[e] = f[e] => SplitFrom(b, g, n) = SplitFrom(b, f, n)
      BY <1>3, <1>5
    <2>6. \A g : (\A d \in (n + 1)..Len(b) : g[d] = f[d]) => g[e] = f[e]
      BY <1>2, <1>5
    <2> QED BY <1>2, <1>5, <2>4, <2>5, <2>6 DEF e, r
  <1> QED BY <1>4, <1>5

\* Splitting what is behind p bytes gives what splitting all gives there.
LEMMA SplitSame ==
    ASSUME NEW b \in Seq(Cells), NEW f, Solves(b, f), NEW p \in 0..Len(b), NEW g,
           \A n \in 0..(Len(b) - p) : g[n] = SplitFrom(From(b, p), g, n)
    PROVE  \A n \in 0..(Len(b) - p) : g[n] = f[p + n]
  <1> DEFINE c == From(b, p)
  <1>1. PICK l \in Nat : l = Len(b)
    BY LenProperties
  <1>2. PICK left \in Nat : left = l - p /\ p + left = l /\ p \in Nat
    <2>1. l - p \in Nat /\ p + (l - p) = l /\ p \in Nat
      BY <1>1
    <2> QED BY <2>1
  <1>3. c \in Seq(Cells) /\ Len(c) = left /\ \A n \in 0..left : g[n] = SplitFrom(c, g, n)
    BY <1>1, <1>2, FromFacts
  <1>4. \A n \in 0..left : From(c, n) = From(b, p + n)
    BY <1>1, <1>2, FromFrom
  <1>5. /\ f \in [0..l -> Splitting]
        /\ \A n \in 0..l : f[n] = SplitFrom(b, f, n)
    BY <1>1 DEF Solves
  <1> HIDE DEF c
  <1> DEFINE differs == {k \in 0..left : g[left - k] # f[p + (left - k)]}
  <1>6. \A k \in differs : k \in Nat /\ k \in 0..left /\ g[left - k] # f[p + (left - k)]
    OBVIOUS
  <1>7. \A k \in 0..left : k \notin differs => g[left - k] = f[p + (left - k)]
    OBVIOUS
  <1> HIDE DEF differs
  <1>8. ASSUME differs # {} PROVE FALSE
    <2>1. PICK k \in differs : \A m \in differs : k <= m
      BY <1>6, <1>8, LeastNat
    <2>2. PICK n \in 0..left : n = left - k
      BY <1>2, <1>6, <2>1
    <2>3. PICK at \in 0..l : at = p + n /\ n \in Nat
      BY <1>2, <2>2
    <2> DEFINE r == From(b, at)
               e == n + PackageSize(r)
    <2>4. From(c, n) = r
      BY <1>4, <2>2, <2>3
    <2>5. g[n] = IF Complete(r) THEN [whole |-> <<Verdict(r)>> \o g[e].whole, stump |-> g[e].stump]
                 ELSE [whole |-> <<>>, stump |-> r]
      BY <1>3, <2>2, <2>4 DEF SplitFrom
    <2>6. f[at] = IF Complete(r) THEN [whole |-> <<Verdict(r)>> \o f[at + PackageSize(r)].whole,
                                      stump |-> f[at + PackageSize(r)].stump]
                  ELSE [whole |-> <<>>, stump |-> r]
      BY <1>5, <2>3 DEF SplitFrom
    <2>7. ASSUME Complete(r)
          PROVE  g[e] = f[at + PackageSize(r)]
      <3>1. at + PackageSize(r) \in (at + 1)..Len(b)
        BY <1>1, <1>5, <2>3, <2>7, SplitFromType
      <3>3. PackageSize(r) \in Nat
        <4>1. r \in Seq(Cells)
          BY <1>1, <2>3, FromFacts
        <4>2. PackageSize(r) \in HeaderSize..Len(r)
          BY <2>7, <4>1, BehindFacts
        <4> HIDE DEF r
        <4> QED BY <4>1, <4>2, LenProperties DEF HeaderSize
      <3>4. PICK s \in Nat : s = PackageSize(r)
        BY <3>3
      <3>5. PICK d \in 0..left : d = n + s /\ d > n /\ p + d = at + s
        BY <1>1, <1>2, <2>3, <3>1, <3>4
      <3>6. PICK m \in 0..left : m = left - d /\ left - m = d /\ m < k
        <4>1. k \in 0..left
          BY <1>6, <2>1
        <4>2. left - d \in 0..left /\ left - (left - d) = d /\ left - d < k
          BY <1>2, <2>2, <3>5, <4>1
        <4> QED BY <4>2
      <3>7. m \notin differs
        BY <1>6, <2>1, <3>6
      <3>8. g[d] = f[p + d]
        BY <1>7, <3>6, <3>7
      <3> QED BY <3>4, <3>5, <3>8
    <2>8. g[n] = f[at]
      BY <2>5, <2>6, <2>7
    <2> QED BY <1>6, <2>1, <2>2, <2>3, <2>8
  <1>9. ASSUME NEW n \in 0..left
        PROVE  g[n] = f[p + n]
    <2>1. PICK k \in 0..left : k = left - n /\ left - k = n
      BY <1>2
    <2>2. k \notin differs
      BY <1>8
    <2> QED BY <1>7, <2>1, <2>2
  <1> QED BY <1>1, <1>2, <1>9

\* The bytes behind the first Len(b) - k are split.
Filled(b, k) ==
    \E f \in [0..Len(b) -> Splitting] :
        \A n \in 0..Len(b) : n > Len(b) - k => f[n] = SplitFrom(b, f, n)

\* The recursive function of Split exists.
LEMMA SplitExists ==
    ASSUME NEW b \in Seq(Cells)
    PROVE  \E f : Solves(b, f) /\ Split(b) = f[0]
  <1> DEFINE bad == {k \in 0..(Len(b) + 1) : ~Filled(b, k)}
  <1>1. Len(b) \in Nat
    BY LenProperties
  <1>2. Filled(b, 0)
    <2>1. [whole |-> <<>>, stump |-> <<>>] \in Splitting
      BY EmptySeq DEF Splitting
    <2>2. [n \in 0..Len(b) |-> [whole |-> <<>>, stump |-> <<>>]] \in [0..Len(b) -> Splitting]
      BY <2>1
    <2>3. \A n \in 0..Len(b) : ~(n > Len(b) - 0)
      BY <1>1
    <2> QED BY <2>2, <2>3 DEF Filled
  <1>3. ASSUME NEW k \in 0..Len(b), Filled(b, k)
        PROVE  Filled(b, k + 1)
    <2> DEFINE here == Len(b) - k
    <2>1. here \in 0..Len(b)
      BY <1>1
    <2>2. PICK f \in [0..Len(b) -> Splitting] :
              \A n \in 0..Len(b) : n > here => f[n] = SplitFrom(b, f, n)
      BY <1>3 DEF Filled
    <2> DEFINE g == [f EXCEPT ![here] = SplitFrom(b, f, here)]
    <2>3. /\ g \in [0..Len(b) -> Splitting] /\ g[here] = SplitFrom(b, f, here)
          /\ \A n \in 0..Len(b) : n # here => g[n] = f[n]
      BY <2>1, SplitFromType
    <2> HIDE DEF g
    <2>4. ASSUME NEW n \in 0..Len(b), n > here - 1
          PROVE  g[n] = SplitFrom(b, g, n)
      <3>1. n >= here /\ (n # here => n > here)
        BY <1>1, <2>1, <2>4
      <3>2. \A e \in (n + 1)..Len(b) : e \in 0..Len(b) /\ e # here
        BY <1>1, <2>1, <3>1
      <3>3. \A e \in (n + 1)..Len(b) : g[e] = f[e]
        BY <2>3, <3>2
      <3>4. SplitFrom(b, g, n) = SplitFrom(b, f, n)
        BY <3>3, SplitFromType
      <3> QED BY <2>2, <2>3, <3>1, <3>4
    <2>5. here - 1 = Len(b) - (k + 1)
      BY <1>1
    <2> QED BY <2>3, <2>4, <2>5 DEF Filled
  <1>4. bad = {}
    <2> SUFFICES ASSUME bad # {} PROVE FALSE
      OBVIOUS
    <2>1. \A k \in bad : k \in 0..(Len(b) + 1) /\ k \in Nat /\ ~Filled(b, k)
      OBVIOUS
    <2>2. \A k \in 0..(Len(b) + 1) : k \notin bad => Filled(b, k)
      OBVIOUS
    <2> HIDE DEF bad
    <2>3. PICK k \in bad : \A m \in bad : k <= m
      BY <2>1, LeastNat
    <2>4. k # 0
      BY <1>2, <2>1, <2>3
    <2>5. k - 1 \in 0..Len(b) /\ ~(k <= k - 1) /\ (k - 1) + 1 = k
      BY <1>1, <2>1, <2>4
    <2>6. Filled(b, k - 1)
      BY <2>2, <2>3, <2>5
    <2> QED BY <1>3, <2>1, <2>5, <2>6
  <1>5. Filled(b, Len(b) + 1)
    BY <1>1, <1>4
  <1>6. PICK f \in [0..Len(b) -> Splitting] :
            \A n \in 0..Len(b) : n > Len(b) - (Len(b) + 1) => f[n] = SplitFrom(b, f, n)
    BY <1>5 DEF Filled
  <1>7. Solves(b, f)
    <2>1. \A n \in 0..Len(b) : n > Len(b) - (Len(b) + 1)
      BY <1>1
    <2> QED BY <1>6, <2>1 DEF Solves
  <1> DEFINE Right(g) == g = [n \in 0..Len(b) |-> SplitFrom(b, g, n)]
             chosen == CHOOSE g : Right(g)
  <1>8. Right(f)
    BY <1>7 DEF Solves
  <1>9. Right(chosen)
    BY <1>8
  <1>10. Split(b) = chosen[0]
    BY DEF Split, SplitFrom, From
  <1> HIDE DEF chosen
  <1>11. \A n \in 0..Len(b) : chosen[n] = SplitFrom(b, chosen, n)
    BY <1>9
  <1>12. From(b, 0) = b /\ Len(b) - 0 = Len(b) /\ 0 \in 0..Len(b) /\ 0 + 0 = 0
    BY <1>1, FromStart
  <1>13. \A n \in 0..(Len(b) - 0) : chosen[n] = SplitFrom(From(b, 0), chosen, n)
    BY <1>11, <1>12
  <1>14. \A n \in 0..(Len(b) - 0) : chosen[n] = f[0 + n]
    BY <1>7, <1>12, <1>13, SplitSame
  <1>15. chosen[0] = f[0]
    BY <1>12, <1>14
  <1> QED BY <1>7, <1>10, <1>15

-----------------------------------------------------------------------------
\* A whole packet at the front, then what is behind it; or only a stump.
LEMMA SplitUnfold ==
    ASSUME NEW b \in Seq(Cells)
    PROVE  /\ Split(b) \in Splitting
           /\ Complete(b) =>
                 Split(b) = [whole |-> <<Verdict(b)>> \o Split(Behind(b)).whole,
                             stump |-> Split(Behind(b)).stump]
           /\ ~Complete(b) => Split(b) = [whole |-> <<>>, stump |-> b]
  <1>1. PICK f : Solves(b, f) /\ Split(b) = f[0]
    BY SplitExists
  <1>2. From(b, 0) = b /\ Len(b) \in Nat /\ 0 \in 0..Len(b)
    BY FromStart, LenProperties
  <1>3. f[0] \in Splitting /\ f[0] = SplitFrom(b, f, 0)
    BY <1>1, <1>2 DEF Solves
  <1>4. ASSUME Complete(b)
        PROVE  f[0 + PackageSize(b)] = Split(Behind(b))
    <2>1. PackageSize(b) \in HeaderSize..Len(b) /\ Behind(b) \in Seq(Cells)
      BY <1>4, BehindFacts
    <2>2. PICK s \in 0..Len(b) : s = PackageSize(b) /\ s + 0 = s /\ 0 + s = s /\ 0 \in 0..(Len(b) - s)
      BY <1>2, <2>1 DEF HeaderSize
    <2>3. Behind(b) = From(b, s)
      BY <2>2 DEF Behind, From
    <2>4. PICK g : Solves(Behind(b), g) /\ Split(Behind(b)) = g[0]
      BY <2>1, SplitExists
    <2>5. Len(From(b, s)) = Len(b) - s
      BY <2>2, FromFacts
    <2>6. \A n \in 0..(Len(b) - s) : g[n] = SplitFrom(From(b, s), g, n)
      BY <2>3, <2>4, <2>5 DEF Solves
    <2>7. g[0] = f[s + 0]
      BY <1>1, <2>2, <2>6, SplitSame
    <2> QED BY <2>2, <2>4, <2>7
  <1> QED BY <1>1, <1>2, <1>3, <1>4 DEF SplitFrom

\* Without a complete packet in front, all is stump.
LEMMA SplitStump ==
    ASSUME NEW b \in Seq(Cells), ~Complete(b)
    PROVE  Split(b).whole = <<>> /\ Split(b).stump = b
  <1>1. Split(b) = [whole |-> <<>>, stump |-> b]
    BY SplitUnfold
  <1> QED BY <1>1

\* A complete packet at the front is split off and the rest split alone.
LEMMA SplitPacket ==
    ASSUME NEW b \in Seq(Cells), Complete(b)
    PROVE  /\ Split(b).whole = <<Verdict(b)>> \o Split(Behind(b)).whole
           /\ Split(b).stump = Split(Behind(b)).stump
           /\ Behind(b) \in Seq(Cells) /\ Split(Behind(b)).whole \in Seq(Parts)
           /\ Split(Behind(b)).stump \in Seq(Cells) /\ <<Verdict(b)>> \in Seq(Parts)
  <1>1. /\ Split(b) = [whole |-> <<Verdict(b)>> \o Split(Behind(b)).whole,
                       stump |-> Split(Behind(b)).stump]
    BY SplitUnfold
  <1>2. Behind(b) \in Seq(Cells) /\ Verdict(b) \in Parts
    BY BehindFacts, VerdictType
  <1>3. Split(Behind(b)) \in Splitting
    BY <1>2, SplitUnfold
  <1> QED BY <1>1, <1>2, <1>3 DEF Splitting

\* What is behind the first packet is shorter.
LEMMA BehindShorter ==
    ASSUME NEW b \in Seq(Cells), Complete(b)
    PROVE  /\ Behind(b) \in Seq(Cells)
           /\ Len(b) \in Nat /\ Len(Behind(b)) \in Nat
           /\ Len(Behind(b)) + HeaderSize <= Len(b)
  <1>1. Behind(b) \in Seq(Cells) /\ PackageSize(b) \in HeaderSize..Len(b)
        /\ Len(Behind(b)) = Len(b) - PackageSize(b)
    BY BehindFacts
  <1>2. PICK l \in Nat, m \in Nat : l = Len(b) /\ m = Len(Behind(b))
    BY <1>1, LenProperties
  <1> QED BY <1>1, <1>2 DEF HeaderSize

\* The stump is incomplete, and every packet takes a header at least.
LEMMA SplitBounds ==
    ASSUME NEW b \in Seq(Cells)
    PROVE  /\ ~Complete(Split(b).stump)
           /\ HeaderSize * Len(Split(b).whole) <= Len(b)
  <1> DEFINE Good(c) == /\ ~Complete(Split(c).stump)
                        /\ HeaderSize * Len(Split(c).whole) <= Len(c)
             bad == {c \in Seq(Cells) : ~Good(c)}
  <1>1. ASSUME NEW c \in Seq(Cells), ~Complete(c)
        PROVE  Good(c)
    <2>1. Split(c).whole = <<>> /\ Split(c).stump = c
      BY <1>1, SplitStump
    <2>2. Len(Split(c).whole) = 0 /\ Len(c) \in Nat
      BY <2>1, LenProperties, EmptySeq
    <2> QED BY <1>1, <2>1, <2>2 DEF HeaderSize
  <1>2. ASSUME NEW c \in Seq(Cells), Complete(c), Good(Behind(c))
        PROVE  Good(c)
    <2> DEFINE t == Split(Behind(c))
    <2>1. Split(c).whole = <<Verdict(c)>> \o t.whole /\ Split(c).stump = t.stump
      BY <1>2, SplitPacket
    <2>2. Behind(c) \in Seq(Cells) /\ Len(c) \in Nat /\ Len(Behind(c)) \in Nat
          /\ Len(Behind(c)) + HeaderSize <= Len(c)
      BY <1>2, BehindShorter
    <2>3. t.whole \in Seq(Parts) /\ <<Verdict(c)>> \in Seq(Parts)
      BY <1>2, SplitPacket
    <2>4. Len(<<Verdict(c)>> \o t.whole) = 1 + Len(t.whole) /\ Len(t.whole) \in Nat
      <3>1. Len(<<Verdict(c)>> \o t.whole) = Len(<<Verdict(c)>>) + Len(t.whole)
        BY <2>3, ConcatProperties
      <3> QED BY <2>3, <3>1, LenProperties
    <2>5. HeaderSize * Len(t.whole) <= Len(Behind(c)) /\ ~Complete(t.stump)
      BY <1>2
    <2>6. Split(c).stump = t.stump /\ Len(Split(c).whole) = 1 + Len(t.whole)
      BY <2>1, <2>4
    <2> HIDE DEF t
    <2>7. PICK n \in Nat, m \in Nat, l \in Nat :
              n = Len(t.whole) /\ m = Len(Behind(c)) /\ l = Len(c)
      BY <2>2, <2>4
    <2>8. HeaderSize * (1 + n) <= l
      BY <2>2, <2>5, <2>7 DEF HeaderSize
    <2> QED BY <2>5, <2>6, <2>7, <2>8
  <1>3. bad \subseteq Seq(Cells) /\ \A c \in bad : ~Good(c)
    OBVIOUS
  <1>4. \A c \in Seq(Cells) : c \notin bad => Good(c)
    OBVIOUS
  <1> HIDE DEF bad, Good
  <1>5. ASSUME bad # {} PROVE FALSE
    <2>1. PICK c \in bad : \A d \in bad : Len(c) <= Len(d)
      BY <1>3, <1>5, Shortest
    <2>2. c \in Seq(Cells) /\ ~Good(c) /\ Complete(c)
      BY <1>1, <1>3, <2>1
    <2>3. Behind(c) \in Seq(Cells) /\ ~(Len(c) <= Len(Behind(c)))
      BY <2>2, BehindShorter DEF HeaderSize
    <2> QED BY <1>2, <1>4, <2>1, <2>2, <2>3
  <1> QED BY <1>4, <1>5 DEF Good

\* If all bytes came over one connection, so did the packets and the stump.
LEMMA SplitOfOne ==
    ASSUME NEW l \in Nat, NEW b \in Seq(Cells), \A i \in 1..Len(b) : b[i].by = l
    PROVE  /\ \A i \in 1..Len(Split(b).whole) : Split(b).whole[i].by = l
           /\ \A i \in 1..Len(Split(b).stump) : Split(b).stump[i].by = l
  <1> DEFINE OfOne(c) == \A i \in 1..Len(c) : c[i].by = l
             Good(c) == OfOne(c) => OfOne(Split(c).whole) /\ OfOne(Split(c).stump)
             bad == {c \in Seq(Cells) : ~Good(c)}
  <1>1. ASSUME NEW c \in Seq(Cells), ~Complete(c)
        PROVE  Good(c)
    <2>1. Split(c).whole = <<>> /\ Split(c).stump = c
      BY <1>1, SplitStump
    <2> QED BY <2>1, EmptySeq
  <1>2. ASSUME NEW c \in Seq(Cells), Complete(c), Good(Behind(c))
        PROVE  Good(c)
    <2> SUFFICES ASSUME OfOne(c) PROVE OfOne(Split(c).whole) /\ OfOne(Split(c).stump)
      OBVIOUS
    <2> DEFINE t == Split(Behind(c))
    <2>1. Split(c).whole = <<Verdict(c)>> \o t.whole /\ Split(c).stump = t.stump
      BY <1>2, SplitPacket
    <2>2. Behind(c) \in Seq(Cells) /\ PackageSize(c) \in HeaderSize..Len(c)
          /\ Len(Behind(c)) = Len(c) - PackageSize(c)
          /\ \A i \in 1..Len(Behind(c)) : Behind(c)[i] = c[PackageSize(c) + i]
      BY <1>2, BehindFacts
    <2>3. OfOne(Behind(c))
      <3> SUFFICES ASSUME NEW i \in 1..Len(Behind(c)) PROVE Behind(c)[i].by = l
        OBVIOUS
      <3>1. PackageSize(c) + i \in 1..Len(c)
        BY <2>2, LenProperties DEF HeaderSize
      <3> QED BY <2>2, <3>1
    <2>4. OfOne(t.whole) /\ OfOne(t.stump)
      BY <1>2, <2>3
    <2>5. t.whole \in Seq(Parts) /\ <<Verdict(c)>> \in Seq(Parts) /\ Verdict(c).by = l
      <3>1. 1 \in 1..Len(c)
        BY <2>2, LenProperties DEF HeaderSize
      <3>2. c[1].by = l
        BY <3>1
      <3>3. Verdict(c).by = l
        BY <1>2, <3>2, VerdictType
      <3> QED BY <1>2, <3>3, SplitPacket
    <2> HIDE DEF t
    <2>6. OfOne(<<Verdict(c)>> \o t.whole)
      <3> DEFINE w == <<Verdict(c)>> \o t.whole
      <3>1. /\ Len(w) = Len(<<Verdict(c)>>) + Len(t.whole)
            /\ \A i \in 1..(Len(<<Verdict(c)>>) + Len(t.whole)) :
                   w[i] = IF i <= Len(<<Verdict(c)>>) THEN <<Verdict(c)>>[i]
                          ELSE t.whole[i - Len(<<Verdict(c)>>)]
        BY <2>5, ConcatProperties
      <3>2. /\ Len(w) = 1 + Len(t.whole) /\ Len(t.whole) \in Nat
            /\ \A i \in 1..(1 + Len(t.whole)) :
                   w[i] = IF i <= 1 THEN <<Verdict(c)>>[i] ELSE t.whole[i - 1]
        BY <2>5, <3>1, LenProperties
      <3> HIDE DEF w
      <3> SUFFICES ASSUME NEW i \in 1..Len(w) PROVE w[i].by = l
        BY DEF w
      <3>3. CASE i = 1
        BY <2>5, <3>2, <3>3
      <3>4. CASE i # 1
        <4>1. i - 1 \in 1..Len(t.whole) /\ ~(i <= 1)
          BY <3>2, <3>4
        <4> QED BY <2>4, <3>2, <4>1
      <3> QED BY <3>3, <3>4
    <2> QED BY <2>1, <2>4, <2>6
  <1>3. bad \subseteq Seq(Cells) /\ \A c \in bad : ~Good(c)
    OBVIOUS
  <1>4. \A c \in Seq(Cells) : c \notin bad => Good(c)
    OBVIOUS
  <1>5. Good(b) => /\ \A i \in 1..Len(Split(b).whole) : Split(b).whole[i].by = l
                   /\ \A i \in 1..Len(Split(b).stump) : Split(b).stump[i].by = l
    OBVIOUS
  <1> HIDE DEF bad, Good
  <1>6. ASSUME bad # {} PROVE FALSE
    <2>1. PICK c \in bad : \A d \in bad : Len(c) <= Len(d)
      BY <1>3, <1>6, Shortest
    <2>2. c \in Seq(Cells) /\ ~Good(c) /\ Complete(c)
      BY <1>1, <1>3, <2>1
    <2>3. Behind(c) \in Seq(Cells) /\ ~(Len(c) <= Len(Behind(c)))
      BY <2>2, BehindShorter DEF HeaderSize
    <2> QED BY <1>2, <1>4, <2>1, <2>2, <2>3
  <1> QED BY <1>4, <1>5, <1>6

\* More bytes behind a header do not change what it says.
LEMMA JoinedHeader ==
    ASSUME NEW b \in Seq(Cells), NEW x \in Seq(Cells), Len(b) >= HeaderSize
    PROVE  PackageSize(b \o x) = PackageSize(b) /\ WordAt(b \o x, 1) = WordAt(b, 1)
  <1> DEFINE c == b \o x
  <1>1. /\ Len(b) \in Nat /\ Len(x) \in Nat /\ Len(b) >= 4
        /\ \A i \in 1..(Len(b) + Len(x)) : c[i] = IF i <= Len(b) THEN b[i] ELSE x[i - Len(b)]
    BY ConcatProperties, LenProperties DEF HeaderSize
  <1> HIDE DEF c
  <1>2. c[1] = b[1] /\ c[2] = b[2] /\ c[3] = b[3] /\ c[4] = b[4]
    BY <1>1
  <1>3. 1 + 1 = 2 /\ 3 + 1 = 4
    OBVIOUS
  <1>4. WordAt(c, 1) = WordAt(b, 1) /\ WordAt(c, 3) = WordAt(b, 3)
    BY <1>2, <1>3, Zenon DEF WordAt
  <1> QED BY <1>4, Zenon DEF PackageSize, BodySize, c

\* More bytes behind a whole packet leave it as it is.
LEMMA JoinedComplete ==
    ASSUME NEW b \in Seq(Cells), NEW x \in Seq(Cells), Complete(b)
    PROVE  /\ Complete(b \o x) /\ Verdict(b \o x) = Verdict(b)
           /\ Behind(b \o x) = Behind(b) \o x
  <1> DEFINE c == b \o x
  <1>1. PICK l \in Nat, k \in Nat : l = Len(b) /\ k = Len(x)
    BY LenProperties
  <1>2. /\ c \in Seq(Cells) /\ Len(c) = l + k
        /\ \A i \in 1..(l + k) : c[i] = IF i <= l THEN b[i] ELSE x[i - l]
    BY <1>1, ConcatProperties
  <1>3. PackageSize(c) = PackageSize(b) /\ WordAt(c, 1) = WordAt(b, 1)
    BY JoinedHeader DEF Complete
  <1>4. PICK s \in HeaderSize..l : s = PackageSize(b) /\ s = HeaderSize + BodySize(b)
                                   /\ l >= HeaderSize /\ BodySize(b) \in Nat
    BY <1>1, HeaderFacts, BaseFacts DEF Complete, PackageSize, HeaderSize
  <1>5. BodySize(c) = BodySize(b)
    <2>1. BodySize(c) \in Nat
      <3>1. Len(c) >= HeaderSize
        BY <1>1, <1>2, <1>4 DEF HeaderSize
      <3>2. BodySize(c) \in 0..(Word - 1)
        BY <1>2, <3>1, HeaderFacts
      <3> QED BY <3>2
    <2> QED BY <1>3, <1>4, <2>1 DEF PackageSize, HeaderSize
  <1> HIDE DEF c
  <1>6. Complete(c)
    BY <1>1, <1>2, <1>3, <1>4 DEF Complete, HeaderSize
  <1>7. Verdict(c) = Verdict(b)
    <2>1. \A i \in 1..BodySize(b) : HeaderSize + i \in 1..(l + k) /\ HeaderSize + i <= l
      BY <1>4 DEF HeaderSize
    <2>2. \A i \in 1..BodySize(b) : c[HeaderSize + i] = b[HeaderSize + i]
      BY <1>2, <2>1
    <2>3. [i \in 1..BodySize(b) |-> c[HeaderSize + i].val] = [i \in 1..BodySize(b) |-> b[HeaderSize + i].val]
      BY <2>2
    <2>4. First(c) = First(b)
      BY <1>3, <1>5, <2>3, Zenon DEF First
    <2>5. c[1] = b[1]
      BY <1>2, <1>4 DEF HeaderSize
    <2> QED BY <2>4, <2>5 DEF Verdict
  <1>8. Behind(c) = Behind(b) \o x
    <2> DEFINE u == Behind(c)
               v == Behind(b)
               w == v \o x
    <2>1. u \in Seq(Cells) /\ Len(u) = (l + k) - s /\ \A i \in 1..Len(u) : u[i] = c[s + i]
      <3>1. /\ u \in Seq(Cells) /\ Len(u) = Len(c) - PackageSize(c)
            /\ \A i \in 1..Len(u) : u[i] = c[PackageSize(c) + i]
        BY <1>2, <1>6, BehindFacts
      <3> HIDE DEF u
      <3> QED BY <1>2, <1>3, <1>4, <3>1
    <2>2. v \in Seq(Cells) /\ Len(v) = l - s /\ \A i \in 1..Len(v) : v[i] = b[s + i]
      BY <1>1, <1>4, BehindFacts
    <2> HIDE DEF u, v
    <2>3. PICK m \in Nat : m = l - s /\ Len(v) = m /\ s + m = l /\ s \in Nat /\ Len(u) = m + k
      <3>1. l - s \in Nat /\ s + (l - s) = l /\ s \in Nat /\ (l + k) - s = (l - s) + k
        BY <1>4 DEF HeaderSize
      <3> QED BY <2>1, <2>2, <3>1
    <2>4. /\ w \in Seq(Cells) /\ Len(w) = m + k
          /\ \A i \in 1..(m + k) : w[i] = IF i <= m THEN v[i] ELSE x[i - m]
      BY <1>1, <2>2, <2>3, ConcatProperties
    <2> HIDE DEF w
    <2>5. ASSUME NEW i \in 1..(m + k) PROVE u[i] = w[i]
      <3>1. s + i \in 1..(l + k) /\ u[i] = c[s + i]
        BY <2>1, <2>3
      <3>2. CASE i <= m
        <4>1. s + i <= l /\ i \in 1..m
          BY <2>3, <3>2
        <4> QED BY <1>2, <2>2, <2>3, <2>4, <3>1, <3>2, <4>1
      <3>3. CASE ~(i <= m)
        <4>1. ~(s + i <= l) /\ (s + i) - l = i - m
          BY <2>3, <3>3
        <4> QED BY <1>2, <2>4, <3>1, <3>3, <4>1
      <3> QED BY <3>2, <3>3
    <2>6. u = w
      BY <2>1, <2>3, <2>4, <2>5, SeqEqual
    <2> QED BY <2>6 DEF u, v, w
  <1> QED BY <1>6, <1>7, <1>8 DEF c

\* More bytes behind a buffer: its packets stay, and its stump is split anew.
LEMMA SplitJoined ==
    ASSUME NEW b \in Seq(Cells), NEW x \in Seq(Cells)
    PROVE  /\ Split(b \o x).whole = Split(b).whole \o Split(Split(b).stump \o x).whole
           /\ Split(b \o x).stump = Split(Split(b).stump \o x).stump
  <1> DEFINE Again(c) == Split(Split(c).stump \o x)
             Good(c) == /\ Split(c \o x).whole = Split(c).whole \o Again(c).whole
                        /\ Split(c \o x).stump = Again(c).stump
             bad == {c \in Seq(Cells) : ~Good(c)}
  <1>1. ASSUME NEW c \in Seq(Cells), ~Complete(c)
        PROVE  Good(c)
    <2>1. Split(c).whole = <<>> /\ Split(c).stump = c
      BY <1>1, SplitStump
    <2>2. c \o x \in Seq(Cells)
      BY ConcatProperties
    <2>3. Split(c \o x).whole \in Seq(Parts)
      BY <2>2, SplitUnfold DEF Splitting
    <2>4. <<>> \o Split(c \o x).whole = Split(c \o x).whole
      BY <2>3, ConcatEmptySeq
    <2> QED BY <2>1, <2>4
  <1>2. ASSUME NEW c \in Seq(Cells), Complete(c), Good(Behind(c))
        PROVE  Good(c)
    <2>1. /\ Complete(c \o x) /\ Verdict(c \o x) = Verdict(c)
          /\ Behind(c \o x) = Behind(c) \o x /\ c \o x \in Seq(Cells)
      BY <1>2, JoinedComplete, ConcatProperties
    <2>2. /\ Split(c).whole = <<Verdict(c)>> \o Split(Behind(c)).whole
          /\ Split(c).stump = Split(Behind(c)).stump
          /\ Behind(c) \in Seq(Cells) /\ Split(Behind(c)).whole \in Seq(Parts)
          /\ Split(Behind(c)).stump \in Seq(Cells) /\ <<Verdict(c)>> \in Seq(Parts)
      BY <1>2, SplitPacket
    <2>3. /\ Split(c \o x).whole = <<Verdict(c)>> \o Split(Behind(c) \o x).whole
          /\ Split(c \o x).stump = Split(Behind(c) \o x).stump
      BY <2>1, SplitPacket
    <2>4. Again(c) = Again(Behind(c))
      BY <2>2
    <2>5. Again(c).whole \in Seq(Parts)
      <3>1. Split(Behind(c)).stump \o x \in Seq(Cells)
        BY <2>2, ConcatProperties
      <3> QED BY <2>2, <3>1, SplitUnfold DEF Splitting
    <2>6. /\ Split(Behind(c) \o x).whole = Split(Behind(c)).whole \o Again(c).whole
          /\ Split(Behind(c) \o x).stump = Again(c).stump
      BY <1>2, <2>4
    <2> HIDE DEF Again
    <2>7. <<Verdict(c)>> \o (Split(Behind(c)).whole \o Again(c).whole)
             = (<<Verdict(c)>> \o Split(Behind(c)).whole) \o Again(c).whole
      <3>1. \A u, v, w \in Seq(Parts) : u \o (v \o w) = (u \o v) \o w
        BY SMTT(30), ConcatAssociative
      <3> QED BY <2>2, <2>5, <3>1
    <2>8. Split(c \o x).whole = Split(c).whole \o Again(c).whole
      BY <2>2, <2>3, <2>6, <2>7
    <2>9. Split(c \o x).stump = Again(c).stump
      BY <2>3, <2>6
    <2> QED BY <2>8, <2>9
  <1>3. bad \subseteq Seq(Cells) /\ \A c \in bad : ~Good(c)
    OBVIOUS
  <1>4. \A c \in Seq(Cells) : c \notin bad => Good(c)
    OBVIOUS
  <1>5. Good(b) => /\ Split(b \o x).whole = Split(b).whole \o Split(Split(b).stump \o x).whole
                   /\ Split(b \o x).stump = Split(Split(b).stump \o x).stump
    OBVIOUS
  <1> HIDE DEF bad, Good
  <1>6. ASSUME bad # {} PROVE FALSE
    <2>1. PICK c \in bad : \A d \in bad : Len(c) <= Len(d)
      BY <1>3, <1>6, Shortest
    <2>2. c \in Seq(Cells) /\ ~Good(c) /\ Complete(c)
      BY <1>1, <1>3, <2>1
    <2>3. Behind(c) \in Seq(Cells) /\ ~(Len(c) <= Len(Behind(c)))
      BY <2>2, BehindShorter DEF HeaderSize
    <2> QED BY <1>2, <1>4, <2>1, <2>2, <2>3
  <1> QED BY <1>4, <1>5, <1>6

\* The first packet to become complete began where the stump did; the others, and
\* the new stump, came over the connection that the new bytes came over.
LEMMA SplitRead ==
    ASSUME NEW l \in Nat, NEW r \in Seq(Cells), ~Complete(r),
           NEW x \in Seq(Cells), x # <<>>, \A i \in 1..Len(x) : x[i].by = l
    PROVE  LET t == Split(r \o x)
           IN  /\ t.whole = <<>> => t.stump = r \o x
               /\ t.whole # <<>> =>
                     /\ t.whole[1].by = IF r = <<>> THEN l ELSE r[1].by
                     /\ \A i \in 2..Len(t.whole) : t.whole[i].by = l
                     /\ \A i \in 1..Len(t.stump) : t.stump[i].by = l
  <1> DEFINE c == r \o x
  <1>1. PICK m \in Nat, k \in Nat : m = Len(r) /\ k = Len(x) /\ k # 0
    BY LenProperties, EmptySeq
  <1>2. /\ c \in Seq(Cells) /\ Len(c) = m + k
        /\ \A i \in 1..(m + k) : c[i] = IF i <= m THEN r[i] ELSE x[i - m]
    BY <1>1, ConcatProperties
  <1>3. \A i \in 1..(m + k) : i > m => c[i].by = l
    <2> SUFFICES ASSUME NEW i \in 1..(m + k), i > m PROVE c[i].by = l
      OBVIOUS
    <2>1. ~(i <= m) /\ i - m \in 1..k
      BY <1>1
    <2> QED BY <1>1, <1>2, <2>1
  <1>4. Len(r) >= HeaderSize => PackageSize(c) = PackageSize(r)
    BY JoinedHeader
  <1> HIDE DEF c
  <1>5. CASE ~Complete(c)
    <2>1. Split(c).whole = <<>> /\ Split(c).stump = c
      BY <1>2, <1>5, SplitStump
    <2> QED BY <2>1 DEF c
  <1>6. CASE Complete(c)
    <2> DEFINE y == Behind(c)
               t == Split(y)
    <2>1. /\ y \in Seq(Cells) /\ Len(y) = (m + k) - PackageSize(c)
          /\ PackageSize(c) \in HeaderSize..(m + k)
          /\ \A i \in 1..Len(y) : y[i] = c[PackageSize(c) + i]
      BY <1>2, <1>6, BehindFacts
    <2>2. PackageSize(c) > m
      <3>1. CASE m >= HeaderSize
        <4>1. ~(PackageSize(r) <= m) /\ PackageSize(c) = PackageSize(r)
          BY <1>1, <1>4, <3>1 DEF Complete
        <4> QED BY <1>1, <2>1, <4>1 DEF HeaderSize
      <3>2. CASE ~(m >= HeaderSize)
        BY <1>1, <2>1, <3>2 DEF HeaderSize
      <3> QED BY <3>1, <3>2
    <2>3. PICK s \in Nat : s = PackageSize(c) /\ s > m /\ s <= m + k
      BY <2>1, <2>2 DEF HeaderSize
    <2> HIDE DEF y
    <2>4. \A i \in 1..Len(y) : y[i].by = l
      <3> SUFFICES ASSUME NEW i \in 1..Len(y) PROVE y[i].by = l
        OBVIOUS
      <3>1. s + i \in 1..(m + k) /\ s + i > m
        BY <1>1, <2>1, <2>3
      <3> QED BY <1>3, <2>1, <2>3, <3>1
    <2>5. /\ \A i \in 1..Len(t.whole) : t.whole[i].by = l
          /\ \A i \in 1..Len(t.stump) : t.stump[i].by = l
      BY <2>1, <2>4, SplitOfOne
    <2>6. /\ Split(c).whole = <<Verdict(c)>> \o t.whole /\ Split(c).stump = t.stump
          /\ t.whole \in Seq(Parts) /\ <<Verdict(c)>> \in Seq(Parts)
      BY <1>2, <1>6, SplitPacket DEF y
    <2>7. Verdict(c).by = c[1].by
      BY <1>2, <1>6, VerdictType
    <2> DEFINE w == <<Verdict(c)>> \o t.whole
    <2>8. PICK n \in Nat : n = Len(t.whole)
      BY <2>6, LenProperties
    <2>9. /\ w \in Seq(Parts) /\ Len(w) = 1 + n
          /\ \A i \in 1..(1 + n) : w[i] = IF i <= 1 THEN <<Verdict(c)>>[i] ELSE t.whole[i - 1]
      <3>1. /\ w \in Seq(Parts) /\ Len(w) = Len(<<Verdict(c)>>) + Len(t.whole)
            /\ \A i \in 1..(Len(<<Verdict(c)>>) + Len(t.whole)) :
                   w[i] = IF i <= Len(<<Verdict(c)>>) THEN <<Verdict(c)>>[i]
                          ELSE t.whole[i - Len(<<Verdict(c)>>)]
        BY <2>6, ConcatProperties
      <3>2. Len(<<Verdict(c)>>) = 1
        OBVIOUS
      <3> HIDE DEF w, t
      <3> QED BY <2>8, <3>1, <3>2
    <2> HIDE DEF w, t
    <2>10. w[1] = Verdict(c) /\ w # <<>>
      <3>1. 1 \in 1..(1 + n) /\ 1 + n # 0
        BY <2>8
      <3>2. w[1] = <<Verdict(c)>>[1]
        BY <2>9, <3>1
      <3> QED BY <2>9, <3>1, <3>2, EmptySeq
    <2>11. \A i \in 2..(1 + n) : w[i].by = l
      <3> SUFFICES ASSUME NEW i \in 2..(1 + n) PROVE w[i].by = l
        OBVIOUS
      <3>1. i - 1 \in 1..n /\ ~(i <= 1) /\ i \in 1..(1 + n)
        BY <2>8
      <3> QED BY <2>5, <2>8, <2>9, <3>1
    <2>12. c[1].by = IF r = <<>> THEN l ELSE r[1].by
      <3>1. CASE r = <<>>
        <4>1. m = 0 /\ 1 \in 1..(m + k) /\ 1 > m
          BY <1>1, <3>1, EmptySeq
        <4> QED BY <1>3, <3>1, <4>1
      <3>2. CASE r # <<>>
        <4>1. 1 \in 1..(m + k) /\ 1 <= m
          BY <1>1, <3>2, EmptySeq
        <4> QED BY <1>2, <3>2, <4>1
      <3> QED BY <3>1, <3>2
    <2>13. Split(c).whole = w
      BY <2>6 DEF w
    <2> QED BY <2>5, <2>6, <2>7, <2>9, <2>10, <2>11, <2>12, <2>13 DEF c
  <1> QED BY <1>5, <1>6

-----------------------------------------------------------------------------
(* Each step on the bytes is a step on the packets.                        *)

PacketStep == Worker!Next \/ UNCHANGED Worker!vars

LEMMA EmptySplit == Split(<<>>).whole = <<>> /\ Split(<<>>).stump = <<>>
  <1>1. <<>> \in Seq(Cells) /\ ~Complete(<<>>)
    BY EmptySeq DEF Complete, HeaderSize
  <1> QED BY <1>1, SplitStump

\* The initial states agree.
LEMMA PacketInit == Init => Worker!Init
  <1> SUFFICES ASSUME Init PROVE Worker!Init
    OBVIOUS
  <1>1. Split(buf).whole = <<>> /\ Split(buf).stump = <<>>
    BY EmptySplit DEF Init
  <1>2. StumpOf(Split(buf).stump) = Worker!NoTail
    BY <1>1 DEF StumpOf, Worker!NoTail
  <1>3. link = "free" /\ life = 0 /\ gone = FALSE /\ parsing = FALSE /\ short = FALSE
    BY DEF Init
  <1> QED BY <1>1, <1>2, <1>3 DEF Worker!Init, On, One, StatusOf

\* The size of the sets a single slot makes.
LEMMA SlotCount ==
    Worker!Cardinality({}) = 0 /\ \A x : Worker!Cardinality({x}) = 1
  <1>1. \A S : Worker!Cardinality(S) = Cardinality(S)
    BY DEF Worker!Cardinality, Cardinality
  <1> QED BY <1>1, FS_EmptySet, FS_Singleton

\* What is known of one slot.
LEMMA OnSlot ==
    /\ \A u : On(u)[Slot] = u
    /\ \A u, v : [On(u) EXCEPT ![Slot] = v] = On(v)
    /\ One(TRUE) = On(1) /\ One(FALSE) = On(0)
  BY DEF On, One

\* push_bullet() and the first start_connect().
LEMMA SetupPackets ==
    ASSUME PushBullet
    PROVE  PacketStep
  <1>1. link = "free" /\ link' = "pushed" /\ UNCHANGED <<short, life, gone, buf, parsing>>
    BY DEF PushBullet
  <1>2. StatusOf = "UNCONNECT" /\ StatusOf' = "WAITING"
    BY <1>1 DEF StatusOf
  <1>3. Slot \in Worker!Valid(On(StatusOf))
    BY <1>2, OnSlot DEF Worker!Valid
  <1>4. On(StatusOf)' = [On(StatusOf) EXCEPT ![Slot] = "WAITING"]
    BY <1>2, OnSlot
  <1>5. Worker!PushBullet(Slot)
    BY <1>1, <1>3, <1>4, SlotCount
       DEF Worker!PushBullet, Worker!opVars, Worker!dataVars, One
  <1> QED BY <1>5 DEF PacketStep, Worker!Next, Worker!Setup

\* shoot() and handle_reconnect().
LEMMA ConnectPackets ==
    ASSUME Roomy, Connect
    PROVE  PacketStep
  <1>1. link \in {"pushed", "waiting"} /\ link' = "connecting" /\ UNCHANGED <<short, life, gone, buf, parsing>>
        /\ ~parsing
    BY DEF Connect, Roomy
  <1>2. StatusOf = "WAITING" /\ StatusOf' = "WAITING"
    BY <1>1 DEF StatusOf
  <1>3. /\ One(link = "connecting") = On(0) /\ One(link = "connecting")' = On(1)
        /\ One(link = "waiting")' = On(0)
        /\ One(link = "connected" /\ ~parsing) = On(0) /\ One(link = "connected" /\ ~parsing)' = On(0)
    BY <1>1, OnSlot
  <1>4. CASE link = "pushed"
    <2>1. One(link = "waiting") = On(0)
      BY <1>4, OnSlot
    <2>2. One(link = "connecting")' = [p \in {Slot} |->
              One(link = "connecting")[p] + (IF p \in (IF link = "free" THEN {} ELSE {Slot}) THEN 1 ELSE 0)]
      <3>1. [p \in {Slot} |-> On(0)[p] + (IF p \in (IF link = "free" THEN {} ELSE {Slot}) THEN 1 ELSE 0)] = On(1)
        BY <1>4 DEF On
      <3> QED BY <1>3, <3>1
    <2>3. Worker!Shoot
      BY <1>1, <1>2, <1>3, <1>4, <2>1, <2>2, SlotCount DEF Worker!Shoot, Worker!dataVars
    <2> QED BY <2>3 DEF PacketStep, Worker!Next, Worker!Setup
  <1>5. CASE link = "waiting"
    <2>1. One(link = "waiting") = On(1)
      BY <1>5, OnSlot
    <2>2. Worker!HandleReconnect(Slot)
      BY <1>1, <1>2, <1>3, <1>5, <2>1, OnSlot
         DEF Worker!HandleReconnect, Worker!Idle, Worker!setupVars, Worker!dataVars
    <2> QED BY <2>2 DEF PacketStep, Worker!Next
  <1> QED BY <1>1, <1>4, <1>5

\* The connect handler, without and with an error.
LEMMA ConnectOkPackets ==
    ASSUME TypeOK, Roomy, ConnectOk
    PROVE  PacketStep
  <1>1. /\ link = "connecting" /\ link' = "connected" /\ ~parsing /\ UNCHANGED <<short, buf, parsing>>
        /\ life \in Nat /\ life < MaxLives /\ life' = life + 1 /\ gone' = FALSE
    BY DEF ConnectOk, Roomy, TypeOK
  <1>2. StatusOf = "WAITING" /\ StatusOf' = "CONNECTED"
    BY <1>1 DEF StatusOf
  <1>3. /\ One(link = "connecting") = On(1) /\ One(link = "connecting")' = On(0)
        /\ One(link = "waiting") = On(0) /\ One(link = "waiting")' = On(0)
        /\ One(link = "connected" /\ ~parsing) = On(0) /\ One(link = "connected" /\ ~parsing)' = On(1)
    BY <1>1, OnSlot
  <1>4. Worker!BeginLife(Slot)
    BY <1>1, <1>3, OnSlot DEF Worker!BeginLife
  <1>5. Worker!ConnectOk(Slot)
    BY <1>1, <1>2, <1>3, <1>4, OnSlot
       DEF Worker!ConnectOk, Worker!Idle, Worker!setupVars
  <1> QED BY <1>5 DEF PacketStep, Worker!Next

\* close() of the link.
LEMMA CloseSlot ==
    ASSUME link \in {"connecting", "connected"}, link' = "waiting"
    PROVE  Worker!Close(Slot)
  <1>1. StatusOf' = "WAITING"
    BY DEF StatusOf
  <1>2. One(link = "waiting") = On(0) /\ One(link = "waiting")' = On(1)
    BY OnSlot
  <1>3. Worker!CloseOutward(Slot)
    BY <1>1, <1>2, OnSlot DEF Worker!CloseOutward
  <1> QED BY <1>3 DEF Worker!Close

LEMMA ConnectFailedPackets ==
    ASSUME Roomy, ConnectFailed
    PROVE  PacketStep
  <1>1. /\ link = "connecting" /\ link' = "waiting" /\ ~parsing
        /\ UNCHANGED <<short, life, gone, buf, parsing>>
    BY DEF ConnectFailed, Roomy
  <1>2. /\ One(link = "connecting") = On(1) /\ One(link = "connecting")' = On(0)
        /\ One(link = "connected" /\ ~parsing) = On(0) /\ One(link = "connected" /\ ~parsing)' = On(0)
    BY <1>1, OnSlot
  <1>3. Worker!ConnectFailed(Slot)
    BY <1>1, <1>2, OnSlot, CloseSlot
       DEF Worker!ConnectFailed, Worker!Idle, Worker!setupVars, Worker!dataVars
  <1> QED BY <1>3 DEF PacketStep, Worker!Next

\* The peer writes, which the worker does not see, or leaves.
LEMMA PeerPackets ==
    ASSUME TypeOK, PeerGone \/ \E m \in Messages, g \in BOOLEAN : Send(m, g)
    PROVE  PacketStep
  <1>1. CASE PeerGone
    <2>1. link = "connected" /\ gone = FALSE /\ gone' = TRUE
          /\ UNCHANGED <<short, link, life, buf, parsing>>
      BY <1>1 DEF PeerGone, TypeOK
    <2>2. StatusOf = "CONNECTED" /\ StatusOf' = "CONNECTED"
      BY <2>1 DEF StatusOf
    <2>3. Worker!PeerGone(Slot)
      BY <2>1, <2>2, OnSlot
         DEF Worker!PeerGone, Worker!Loose, Worker!setupVars, Worker!opVars,
             Worker!dataVars
    <2> QED BY <2>3 DEF PacketStep, Worker!Next
  <1>2. CASE \E m \in Messages, g \in BOOLEAN : Send(m, g)
    <2>1. UNCHANGED <<short, link, life, gone, buf, parsing>>
      BY <1>2 DEF Send
    <2>2. UNCHANGED StatusOf
      BY <2>1 DEF StatusOf
    <2>3. UNCHANGED Worker!vars
      BY <2>1, <2>2
         DEF Worker!vars, Worker!setupVars, Worker!linkVars, Worker!opVars, Worker!dataVars
    <2> QED BY <2>3 DEF PacketStep
  <1> QED BY <1>1, <1>2

\* A read fails, or the buffer is full of a packet that was refused.
LEMMA ReadNothingPackets ==
    ASSUME TypeOK, Roomy, ReadNothing
    PROVE  PacketStep
  <1>1. /\ link = "connected" /\ link' = "waiting" /\ ~parsing
        /\ UNCHANGED <<short, life, gone, buf, parsing>>
    BY DEF ReadNothing, Close
  <1>2. /\ One(link = "connecting") = On(0) /\ One(link = "connecting")' = On(0)
        /\ One(link = "connected" /\ ~parsing) = On(1) /\ One(link = "connected" /\ ~parsing)' = On(0)
    BY <1>1, OnSlot
  <1>3. gone \/ Split(buf).whole # <<>>
    <2> SUFFICES ASSUME ~gone PROVE Split(buf).whole # <<>>
      OBVIOUS
    <2>1. Complete(buf) /\ buf \in Seq(Cells)
      <3>1. Len(buf) = MaxRecv /\ MaxRecv \in Nat /\ buf \in Seq(Cells)
        BY BaseFacts DEF ReadNothing, TypeOK
      <3> QED BY <1>1, <3>1 DEF Roomy, HasRoom
    <2>2. /\ Split(buf).whole = <<Verdict(buf)>> \o Split(Behind(buf)).whole
          /\ <<Verdict(buf)>> \in Seq(Parts) /\ Split(Behind(buf)).whole \in Seq(Parts)
      BY <2>1, SplitPacket
    <2>3. <<Verdict(buf)>> # <<>>
      OBVIOUS
    <2> QED BY <2>2, <2>3, ConcatEqualIffEmpty
  <1>4. Worker!NothingRead(Slot)
    BY <1>3, OnSlot DEF Worker!NothingRead
  <1>5. Worker!ReadFailed(Slot)
    BY <1>1, <1>2, <1>4, OnSlot, CloseSlot
       DEF Worker!ReadFailed, Worker!Idle, Worker!setupVars, Worker!dataVars
  <1> QED BY <1>5 DEF PacketStep, Worker!Next, Worker!Reading

\* The packet at the front.
LEMMA FrontPacket ==
    ASSUME TypeOK, Complete(buf)
    PROVE  /\ Split(buf).whole # <<>> /\ Head(Split(buf).whole) = Verdict(buf)
           /\ Tail(Split(buf).whole) = Split(Behind(buf)).whole
           /\ Split(buf).stump = Split(Behind(buf)).stump
           /\ Verdict(buf).msg \in {"bad"} <=> First(buf) \notin Accepts
  <1>1. buf \in Seq(Cells)
    BY DEF TypeOK
  <1>2. /\ Split(buf).whole = <<Verdict(buf)>> \o Split(Behind(buf)).whole
        /\ Split(buf).stump = Split(Behind(buf)).stump
        /\ <<Verdict(buf)>> \in Seq(Parts) /\ Split(Behind(buf)).whole \in Seq(Parts)
        /\ Verdict(buf) \in Parts
    BY <1>1, SplitPacket, VerdictType
  <1>3. ASSUME NEW v \in Parts, NEW w \in Seq(Parts)
        PROVE  <<v>> \o w # <<>> /\ Head(<<v>> \o w) = v /\ Tail(<<v>> \o w) = w
    OBVIOUS
  <1>4. Verdict(buf).msg \in {"bad"} <=> First(buf) \notin Accepts
    BY DEF Verdict
  <1> QED BY <1>2, <1>3, <1>4

\* The packet loop: a packet handled, a packet refused, no packet left.
LEMMA HandlePackets ==
    ASSUME TypeOK, Roomy, Handle, buf' = Behind(buf)
    PROVE  PacketStep
  <1>1. /\ parsing /\ link = "connected" /\ Complete(buf) /\ First(buf) \in Accepts
        /\ buf' = Behind(buf) /\ UNCHANGED <<short, link, life, gone, parsing>>
    BY DEF Handle, Roomy
  <1>2. UNCHANGED StatusOf
    BY <1>1 DEF StatusOf
  <1>3. /\ Split(buf).whole # <<>> /\ Head(Split(buf).whole).msg \notin {"bad"}
        /\ Split(buf').whole = Tail(Split(buf).whole) /\ Split(buf').stump = Split(buf).stump
    BY <1>1, FrontPacket
  <1>4. On(Split(buf).whole)' = [On(Split(buf).whole) EXCEPT ![Slot] = Tail(Split(buf).whole)]
    <2>1. On(Split(buf).whole)' = On(Tail(Split(buf).whole))
      BY <1>3 DEF On
    <2> QED BY <2>1, OnSlot
  <1>5. Worker!ParseHandled(Slot)
    BY <1>1, <1>2, <1>3, <1>4, OnSlot
       DEF Worker!ParseHandled, Worker!setupVars, Worker!linkVars, Worker!opVars
  <1> QED BY <1>5 DEF PacketStep, Worker!Next, Worker!Reading

LEMMA RefusePackets ==
    ASSUME TypeOK, Roomy, Refuse
    PROVE  PacketStep
  <1>1. /\ parsing /\ ~parsing' /\ link = "connected" /\ link' = "waiting"
        /\ Complete(buf) /\ First(buf) \notin Accepts /\ UNCHANGED <<short, life, gone, buf>>
    BY DEF Refuse, Close, Roomy
  <1>2. /\ One(link = "connecting") = On(0) /\ One(link = "connecting")' = On(0)
        /\ One(link = "connected" /\ ~parsing) = On(0) /\ One(link = "connected" /\ ~parsing)' = On(0)
    BY <1>1, OnSlot
  <1>3. Split(buf).whole # <<>> /\ Head(Split(buf).whole).msg \in {"bad"}
    BY <1>1, FrontPacket
  <1>4. Worker!ParseRefused(Slot)
    BY <1>1, <1>2, <1>3, OnSlot, CloseSlot
       DEF Worker!ParseRefused, Worker!setupVars, Worker!dataVars
  <1> QED BY <1>4 DEF PacketStep, Worker!Next, Worker!Reading

LEMMA DonePackets ==
    ASSUME TypeOK, Roomy, Done
    PROVE  PacketStep
  <1>1. /\ parsing /\ ~parsing' /\ link = "connected" /\ ~Complete(buf) /\ buf \in Seq(Cells)
        /\ UNCHANGED <<short, link, life, gone, buf>>
    BY DEF Done, Roomy, linkVars, TypeOK
  <1>2. UNCHANGED StatusOf
    BY <1>1 DEF StatusOf
  <1>3. Split(buf).whole = <<>>
    BY <1>1, SplitStump
  <1>4. One(link = "connected" /\ ~parsing) = On(0) /\ One(link = "connected" /\ ~parsing)' = On(1)
    BY <1>1, OnSlot
  <1>5. Worker!ParseDone(Slot)
    BY <1>1, <1>2, <1>3, <1>4, OnSlot
       DEF Worker!ParseDone, Worker!setupVars, Worker!linkVars, Worker!dataVars
  <1> QED BY <1>5 DEF PacketStep, Worker!Next, Worker!Reading

-----------------------------------------------------------------------------
(* A read, told in packets.                                                *)

\* What the packets of w say.
Said(w) == [i \in 1..Len(w) |-> w[i].msg]

LEMMA StumpFacts ==
    ASSUME NEW s \in Seq(Cells)
    PROVE  /\ StumpOf(s).kind \in {"none", "stub", "part"}
           /\ StumpOf(s).kind = "none" <=> s = <<>>
           /\ s = <<>> => StumpOf(s) = [kind |-> "none", by |-> 0]
           /\ s # <<>> => StumpOf(s) = [kind |-> StumpOf(s).kind, by |-> s[1].by]
           /\ s # <<>> => (StumpOf(s).kind = "stub" <=> Len(s) < HeaderSize)
  <1>1. CASE s = <<>>
    BY <1>1 DEF StumpOf
  <1>2. CASE s # <<>>
    BY <1>2 DEF StumpOf
  <1> QED BY <1>1, <1>2

\* Packets w and a stump s, read over connection l behind the stump r, are what
\* NetWorker's read handler makes of Said(w) and the kind of s.
Told(l, r, w, s) ==
    LET k == StumpOf(s).kind
        carried == StumpOf(r).kind # "none"
    IN  /\ w \in Seq(Parts) /\ s \in Seq(Cells)
        /\ w = <<>> => k # "none" /\ (StumpOf(r).kind = "part" => k = "part")
        /\ w = [i \in DOMAIN Said(w) |->
                  [msg |-> Said(w)[i],
                   by  |-> IF i = 1 /\ carried THEN StumpOf(r).by ELSE l]]
        /\ StumpOf(s) =
              IF k = "none" THEN [kind |-> "none", by |-> 0]
              ELSE [kind |-> k,
                    by   |-> IF Said(w) = <<>> /\ carried THEN StumpOf(r).by ELSE l]

\* Splitting a stump with new bytes behind it is what the read handler tells.
LEMMA ToldInPackets ==
    ASSUME NEW l \in Nat, NEW r \in Seq(Cells), ~Complete(r),
           NEW x \in Seq(Cells), x # <<>>, \A i \in 1..Len(x) : x[i].by = l
    PROVE  Told(l, r, Split(r \o x).whole, Split(r \o x).stump)
  <1> DEFINE t == Split(r \o x)
             w == t.whole
             s == t.stump
             k == StumpOf(s).kind
             carried == StumpOf(r).kind # "none"
             first == IF carried THEN StumpOf(r).by ELSE l
  <1>1. PICK m \in Nat, n \in Nat : m = Len(r) /\ n = Len(x) /\ n # 0
    BY LenProperties, EmptySeq
  <1>2. /\ r \o x \in Seq(Cells) /\ Len(r \o x) = m + n
        /\ \A i \in 1..(m + n) : (r \o x)[i] = IF i <= m THEN r[i] ELSE x[i - m]
    BY <1>1, ConcatProperties
  <1>3. w \in Seq(Parts) /\ s \in Seq(Cells)
    BY <1>2, SplitUnfold DEF Splitting
  <1>4. /\ w = <<>> => s = r \o x
        /\ w # <<>> =>
              /\ w[1].by = IF r = <<>> THEN l ELSE r[1].by
              /\ \A i \in 2..Len(w) : w[i].by = l
              /\ \A i \in 1..Len(s) : s[i].by = l
    BY SplitRead
  <1>5. first = (IF r = <<>> THEN l ELSE r[1].by) /\ carried = (r # <<>>)
    BY StumpFacts
  <1>6. r \o x # <<>> /\ (r \o x)[1].by = first
    <2>1. m + n # 0 /\ 1 \in 1..(m + n)
      BY <1>1
    <2>2. r \o x # <<>>
      BY <1>2, <2>1, EmptySeq
    <2>3. CASE r = <<>>
      <3>1. m = 0 /\ ~(1 <= m) /\ 1 - m = 1 /\ 1 \in 1..n
        BY <1>1, <2>3, EmptySeq
      <3>2. (r \o x)[1] = x[1] /\ x[1].by = l
        BY <1>1, <1>2, <2>1, <3>1
      <3> QED BY <1>5, <2>2, <2>3, <3>2
    <2>4. CASE r # <<>>
      <3>1. 1 <= m
        BY <1>1, <2>4, EmptySeq
      <3> QED BY <1>2, <1>5, <2>1, <2>2, <2>4, <3>1
    <2> QED BY <2>3, <2>4
  <1> HIDE DEF t, first, carried
  <1>7. w = <<>> => k # "none" /\ (StumpOf(r).kind = "part" => k = "part")
    <2> SUFFICES ASSUME w = <<>> PROVE k # "none" /\ (StumpOf(r).kind = "part" => k = "part")
      OBVIOUS
    <2>1. s = r \o x /\ s # <<>>
      BY <1>4, <1>6
    <2>2. ASSUME StumpOf(r).kind = "part" PROVE ~(Len(s) < HeaderSize)
      <3>1. r # <<>> /\ ~(Len(r) < HeaderSize)
        BY <2>2, StumpFacts
      <3>2. Len(s) = m + n
        BY <1>2, <2>1
      <3> QED BY <1>1, <3>1, <3>2 DEF HeaderSize
    <2> QED BY <1>3, <2>1, <2>2, StumpFacts
  <1>8. w = [i \in DOMAIN Said(w) |->
                [msg |-> Said(w)[i],
                 by  |-> IF i = 1 /\ carried THEN StumpOf(r).by ELSE l]]
    <2>1. PICK z \in Nat : z = Len(w) /\ w \in [1..z -> Parts]
      BY <1>3, LenProperties
    <2>2. DOMAIN Said(w) = 1..z /\ \A i \in 1..z : Said(w)[i] = w[i].msg
      BY <2>1 DEF Said
    <2>3. ASSUME NEW i \in 1..z
          PROVE  w[i] = [msg |-> w[i].msg,
                         by  |-> IF i = 1 /\ carried THEN StumpOf(r).by ELSE l]
      <3>1. w[i] \in Parts /\ w # <<>>
        <4>1. z # 0
          OBVIOUS
        <4> QED BY <1>3, <2>1, <4>1, EmptySeq
      <3>2. w[i] = [msg |-> w[i].msg, by |-> w[i].by]
        BY <3>1 DEF Parts
      <3>3. CASE i = 1
        BY <1>4, <1>5, <3>1, <3>2, <3>3 DEF first
      <3>4. CASE i # 1
        <4>1. i \in 2..Len(w)
          BY <2>1, <3>4
        <4> QED BY <1>4, <3>1, <3>2, <3>4, <4>1
      <3> QED BY <3>3, <3>4
    <2>4. w = [i \in 1..z |-> w[i]]
      BY <2>1
    <2> HIDE DEF w
    <2>5. [i \in 1..z |-> w[i]] =
             [i \in 1..z |-> [msg |-> w[i].msg,
                               by  |-> IF i = 1 /\ carried THEN StumpOf(r).by ELSE l]]
      BY <2>3
    <2> QED BY <2>2, <2>4, <2>5
  <1>9. Said(w) = <<>> <=> w = <<>>
    <2>1. PICK z \in Nat : z = Len(w)
      BY <1>3, LenProperties
    <2>2. Said(w) \in Seq({"ok", "bad"}) /\ Len(Said(w)) = z
      <3>1. \A i \in 1..z : w[i] \in Parts
        BY <1>3, <2>1, ElementOfSeq
      <3>2. Said(w) \in [1..z -> {"ok", "bad"}]
        BY <2>1, <3>1 DEF Said, Parts
      <3> HIDE DEF w
      <3>3. \A g \in [1..z -> {"ok", "bad"}] : g \in Seq({"ok", "bad"}) /\ Len(g) = z
        BY <2>1
      <3> QED BY <3>2, <3>3
    <2> QED BY <1>3, <2>1, <2>2, EmptySeq
  <1>10. StumpOf(s) =
            IF k = "none" THEN [kind |-> "none", by |-> 0]
            ELSE [kind |-> k,
                  by   |-> IF Said(w) = <<>> /\ carried THEN StumpOf(r).by ELSE l]
    <2>1. CASE k = "none"
      BY <1>3, <2>1, StumpFacts
    <2>2. CASE k # "none"
      <3>1. s # <<>> /\ StumpOf(s) = [kind |-> k, by |-> s[1].by]
        BY <1>3, <2>2, StumpFacts
      <3>2. CASE w = <<>>
        <4>1. s[1].by = first
          BY <1>4, <1>6, <3>2
        <4> QED BY <1>9, <2>2, <3>1, <3>2, <4>1 DEF first
      <3>3. CASE w # <<>>
        <4>1. 1 \in 1..Len(s)
          <5>1. PICK z \in Nat : z = Len(s) /\ z # 0
            BY <1>3, <3>1, LenProperties, EmptySeq
          <5> QED BY <5>1
        <4>2. s[1].by = l
          BY <1>4, <3>3, <4>1
        <4> QED BY <1>9, <2>2, <3>1, <3>3, <4>2
      <3> QED BY <3>2, <3>3
    <2> QED BY <2>1, <2>2
  <1> QED BY <1>3, <1>7, <1>8, <1>10 DEF t, carried, Told

\* The bytes a read of n puts behind the buffer.
LEMMA ArrivingBytes ==
    ASSUME TypeOK, NEW n \in 1..Len(wire), Receive(n)
    PROVE  \E x \in Seq(Cells) : /\ x # <<>> /\ \A i \in 1..Len(x) : x[i].by = life
                                 /\ buf' = buf \o x /\ Len(buf') = Len(buf) + n
                                 /\ Len(buf') <= MaxRecv
  <1> DEFINE y == SubSeq(wire, 1, n)
             x == Tagged(y)
  <1>1. wire \in Seq(Bytes) /\ Len(wire) \in Nat /\ n \in Nat /\ n <= Len(wire) /\ life \in Nat
    BY LenProperties DEF TypeOK
  <1>2. y \in [1..n -> Bytes]
    <2>1. y = [i \in 1..n |-> wire[i]]
      BY <1>1
    <2>2. \A i \in 1..n : wire[i] \in Bytes
      BY <1>1, ElementOfSeq
    <2> QED BY <2>1, <2>2
  <1> HIDE DEF y
  <1>3. x \in [1..n -> Cells] /\ \A i \in 1..n : x[i].by = life
    BY <1>1, <1>2 DEF Tagged, Cells
  <1>4. x \in Seq(Cells) /\ Len(x) = n
    <2> HIDE DEF x
    <2> QED BY <1>1, <1>3
  <1>5. x # <<>>
    BY <1>4
  <1>6. buf' = buf \o x
    BY DEF Receive, y
  <1>7. Len(buf') = Len(buf) + n /\ Len(buf') <= MaxRecv
    BY ReceiveFacts
  <1> HIDE DEF x
  <1> QED BY <1>3, <1>4, <1>5, <1>6, <1>7

\* What one read brings is a batch the packet level allows.
LEMMA SaidInBatches ==
    ASSUME NEW b \in Seq(Cells), Len(b) <= MaxRecv, NEW r \in Seq(Cells), NEW q \in Seq(Parts),
           Split(b).whole = q \o Split(r).whole
    PROVE  Said(Split(r).whole) \in Worker!Batches
  <1>1. Split(r).whole \in Seq(Parts)
    BY SplitUnfold DEF Splitting
  <1>2. PICK w \in Seq(Parts) : w = Split(r).whole
    BY <1>1
  <1>3. PICK z \in Nat, k \in Nat, h \in Nat : z = Len(w) /\ k = Len(q) /\ h = Len(b)
    BY LenProperties
  <1>4. Len(Split(b).whole) = k + z
    BY <1>2, <1>3, ConcatProperties
  <1>5. 4 * (k + z) <= h /\ h <= MaxRecv /\ MaxRecv \in Nat
    BY <1>3, <1>4, SplitBounds, BaseFacts DEF HeaderSize
  <1>6. z \in 0..(MaxRecv \div HeaderSize)
    <2>1. 4 * z <= MaxRecv
      BY <1>5
    <2> QED BY <1>5, <2>1 DEF HeaderSize
  <1>7. Said(w) \in [1..z -> {"ok", "bad"}]
    <2>1. \A i \in 1..z : w[i] \in Parts
      BY <1>3, ElementOfSeq
    <2> QED BY <1>3, <2>1 DEF Said, Parts
  <1> QED BY <1>2, <1>6, <1>7 DEF Worker!Batches

\* Bytes behind the stump s that make packets w and leave a stump of kind k are
\* NetWorker's batch Said(w); when the buffer then holds too little for a header.
ToldRead(s, w, k) ==
    /\ buf \in Seq(Cells) /\ s = Split(buf).stump
    /\ Said(w) \in Worker!Batches /\ k \in {"none", "stub", "part"}
    /\ Said(w) = <<>> => k # "none" /\ (StumpOf(s).kind = "part" => k = "part")
    /\ Split(buf').whole = Split(buf).whole \o Worker!Marked(Slot, Said(w))
    /\ StumpOf(Split(buf').stump) = Worker!LeftOver(Slot, Said(w), k)
    /\ Split(buf).whole \o Worker!Marked(Slot, Said(w)) = <<>> /\ k = "stub"
          <=> Len(buf') < HeaderSize

\* Every read can be told so.
LEMMA ReadTold ==
    ASSUME TypeOK, NEW n \in 1..Len(wire), Receive(n)
    PROVE  \E w, k : ToldRead(Split(buf).stump, w, k)
  <1>1. buf \in Seq(Cells) /\ life \in Nat
    BY DEF TypeOK
  <1>2. PICK x \in Seq(Cells) :
          /\ x # <<>> /\ \A i \in 1..Len(x) : x[i].by = life
          /\ buf' = buf \o x /\ Len(buf') <= MaxRecv
    BY ArrivingBytes
  <1>3. PICK q \in Seq(Parts), r \in Seq(Cells) : q = Split(buf).whole /\ r = Split(buf).stump
    BY <1>1, SplitUnfold DEF Splitting
  <1>4. ~Complete(r)
    BY <1>1, <1>3, SplitBounds
  <1>5. /\ Split(buf').whole = q \o Split(r \o x).whole
        /\ Split(buf').stump = Split(r \o x).stump
    BY <1>1, <1>2, <1>3, SplitJoined
  <1>6. PICK w, s, k : w = Split(r \o x).whole /\ s = Split(r \o x).stump /\ k = StumpOf(s).kind
    OBVIOUS
  <1>7. /\ w \in Seq(Parts) /\ s \in Seq(Cells)
        /\ w = <<>> => k # "none" /\ (StumpOf(r).kind = "part" => k = "part")
        /\ w = [i \in DOMAIN Said(w) |->
                  [msg |-> Said(w)[i],
                   by  |-> IF i = 1 /\ StumpOf(r).kind # "none" THEN StumpOf(r).by ELSE life]]
        /\ StumpOf(s) = IF k = "none" THEN [kind |-> "none", by |-> 0]
                        ELSE [kind |-> k,
                              by   |-> IF Said(w) = <<>> /\ StumpOf(r).kind # "none"
                                       THEN StumpOf(r).by ELSE life]
    <2>1. Told(life, r, Split(r \o x).whole, Split(r \o x).stump)
      BY <1>1, <1>2, <1>4, ToldInPackets
    <2>2. Told(life, r, w, s)
      BY <1>6, <2>1
    <2> QED BY <1>6, <2>2 DEF Told
  <1>8. w = Worker!Marked(Slot, Said(w))
    <2>1. On(life)[Slot] = life /\ On(StumpOf(Split(buf).stump))[Slot] = StumpOf(r)
      BY <1>3, OnSlot
    <2> QED BY <1>7, <2>1 DEF Worker!Marked
  <1>9. StumpOf(s) = Worker!LeftOver(Slot, Said(w), k)
    <2>1. On(life)[Slot] = life /\ On(StumpOf(Split(buf).stump))[Slot] = StumpOf(r)
      BY <1>3, OnSlot
    <2> QED BY <1>7, <2>1 DEF Worker!LeftOver, Worker!NoTail
  <1>10. buf' \in Seq(Cells) /\ r \o x \in Seq(Cells)
    BY <1>1, <1>2, ConcatProperties
  <1>11. Said(w) \in Worker!Batches
    <2>1. \A b, e \in Seq(Cells) : \A p \in Seq(Parts) :
            Len(b) <= MaxRecv /\ Split(b).whole = p \o Split(e).whole
               => Said(Split(e).whole) \in Worker!Batches
      BY SaidInBatches
    <2> QED BY <1>2, <1>5, <1>6, <1>10, <2>1
  <1>12. k \in {"none", "stub", "part"}
    BY <1>6, <1>7, StumpFacts
  <1>13. Said(w) = <<>> => w = <<>>
    <2>1. Said(w) = <<>> => DOMAIN Said(w) = {}
      OBVIOUS
    <2>2. DOMAIN Said(w) = 1..Len(w)
      BY DEF Said
    <2>3. PICK z \in Nat : z = Len(w)
      BY <1>7, LenProperties
    <2>4. 1..z = {} => z = 0
      <3>1. z # 0 => 1 \in 1..z
        BY <2>3
      <3> QED BY <3>1
    <2> QED BY <1>7, <2>1, <2>2, <2>3, <2>4, EmptySeq
  <1>14. q \o w = <<>> /\ k = "stub" <=> Len(buf') < HeaderSize
    <2>1. q \o w = Split(buf').whole /\ StumpOf(Split(buf').stump).kind = k
      BY <1>5, <1>6
    <2>2. PICK c \in Seq(Cells) : c = buf' /\ c # <<>>
      <3>1. PICK m \in Nat : m = Len(x) /\ m # 0
        BY <1>2, LenProperties, EmptySeq
      <3>2. PICK g \in Nat : g = Len(buf)
        BY <1>1, LenProperties
      <3>3. Len(buf') = g + m
        BY <1>1, <1>2, <3>1, <3>2, ConcatProperties
      <3> QED BY <1>10, <3>1, <3>2, <3>3, EmptySeq
    <2>3. CASE Complete(c)
      <3>1. Split(c).whole # <<>>
        <4>1. Split(c).whole = <<Verdict(c)>> \o Split(Behind(c)).whole
              /\ <<Verdict(c)>> \in Seq(Parts) /\ Split(Behind(c)).whole \in Seq(Parts)
          BY <2>3, SplitPacket
        <4>2. <<Verdict(c)>> # <<>>
          OBVIOUS
        <4> QED BY <4>1, <4>2, ConcatEqualIffEmpty
      <3>2. ~(Len(c) < HeaderSize)
        <4>1. PICK m \in Nat : m = Len(c)
          BY LenProperties
        <4> QED BY <2>3, <4>1 DEF Complete, HeaderSize
      <3> QED BY <2>1, <2>2, <3>1, <3>2
    <2>4. CASE ~Complete(c)
      <3>1. Split(c).whole = <<>> /\ Split(c).stump = c
        BY <2>4, SplitStump
      <3>2. StumpOf(c).kind = "stub" <=> Len(c) < HeaderSize
        BY <2>2, StumpFacts
      <3> QED BY <2>1, <2>2, <3>1, <3>2
    <2> QED BY <2>3, <2>4
  <1>15. ToldRead(Split(buf).stump, w, k)
    BY <1>1, <1>3, <1>5, <1>6, <1>7, <1>8, <1>9, <1>11, <1>12, <1>13, <1>14 DEF ToldRead
  <1> QED BY <1>15

\* A peer that has gone sends nothing: what was on the wire has been read.
Silent == gone => wire = <<>>

LEMMA SilentStep == TypeOK /\ Silent /\ [Next]_vars => Silent'
  <1> SUFFICES ASSUME TypeOK, Silent, [Next]_vars PROVE Silent'
    OBVIOUS
  <1>1. CASE UNCHANGED <<gone, wire>>
    BY <1>1 DEF Silent
  <1>2. CASE ConnectOk \/ PeerGone
    BY <1>2 DEF ConnectOk, PeerGone, Silent
  <1>3. CASE ConnectFailed \/ PushBullet \/ Connect
    BY <1>1, <1>3 DEF ConnectFailed, PushBullet, Connect
  <1>4. CASE \E m \in Messages, g \in BOOLEAN : Send(m, g)
    BY <1>4 DEF Send, Silent, linkVars, TypeOK
  <1>5. CASE \E n \in 1..Len(wire) : Read(n) \/ ReadShort(n)
    <2>1. PICK n \in 1..Len(wire) : Read(n) \/ ReadShort(n)
      BY <1>5
    <2>2. wire # <<>>
      <3>1. n \in 1..Len(wire) /\ Len(<<>>) = 0 /\ 1..0 = {}
        OBVIOUS
      <3> QED BY <3>1
    <2>3. ~gone /\ gone' = gone
      BY <2>1, <2>2 DEF Silent, Read, ReadShort, Close, linkVars
    <2> QED BY <2>3 DEF Silent
  <1>6. CASE ReadNothing \/ Refuse
    BY <1>6 DEF ReadNothing, Refuse, Close, Silent
  <1>7. CASE Handle \/ Done \/ UNCHANGED vars
    BY <1>1, <1>7 DEF Handle, Done, vars, linkVars
  <1> QED BY <1>2, <1>3, <1>4, <1>5, <1>6, <1>7 DEF Next

\* The part that the two outcomes of the read handler share.
LEMMA ReceivePackets ==
    ASSUME NEW w, NEW k, ToldRead(Split(buf).stump, w, k), ~gone,
           link = "connected", ~parsing, ~(link = "connected" /\ ~parsing)'
    PROVE  /\ Worker!Receive(Slot, Said(w), k)
           /\ Said(w) \in Worker!Batches /\ k \in Worker!Cuts
           /\ (Worker!Joined(Slot, Said(w)) = <<>> /\ k = "stub") <=> Len(buf') < HeaderSize
           /\ One(link = "connecting") = On(0) /\ One(link = "waiting") = On(0)
  <1>1. Worker!Idle
    BY DEF Worker!Idle
  <1>2. /\ One(link = "connected" /\ ~parsing) = On(1)
        /\ One(link = "connected" /\ ~parsing)' = On(0)
        /\ One(link = "connecting") = On(0) /\ One(link = "waiting") = On(0)
    BY OnSlot
  <1>3. Worker!Joined(Slot, Said(w)) = Split(buf).whole \o Worker!Marked(Slot, Said(w))
    BY OnSlot DEF Worker!Joined
  <1>4. On(Split(buf).whole)' = [On(Split(buf).whole) EXCEPT ![Slot] = Worker!Joined(Slot, Said(w))]
    <2>1. On(Split(buf).whole)' = On(Worker!Joined(Slot, Said(w)))
      BY <1>3 DEF On, ToldRead
    <2> QED BY <2>1, OnSlot
  <1>5. On(StumpOf(Split(buf).stump))' =
           [On(StumpOf(Split(buf).stump)) EXCEPT ![Slot] = Worker!LeftOver(Slot, Said(w), k)]
    <2>1. On(StumpOf(Split(buf).stump))' = On(Worker!LeftOver(Slot, Said(w), k))
      BY DEF On, ToldRead
    <2> QED BY <2>1, OnSlot
  <1>6. Said(w) = <<>> => k # "none" /\ (On(StumpOf(Split(buf).stump))[Slot].kind = "part" => k = "part")
    BY OnSlot DEF ToldRead
  <1>7. Worker!Receive(Slot, Said(w), k)
    BY <1>1, <1>2, <1>4, <1>5, <1>6, OnSlot DEF Worker!Receive, Worker!Loose
  <1>8. k \in Worker!Cuts /\ Said(w) \in Worker!Batches
    BY DEF ToldRead, Worker!Cuts
  <1> QED BY <1>2, <1>3, <1>7, <1>8 DEF ToldRead

\* A read of n bytes.
LEMMA ReadPackets ==
    ASSUME TypeOK, Silent, NEW n \in 1..Len(wire), Read(n) \/ ReadShort(n)
    PROVE  PacketStep
  <1>1. Receive(n) /\ link = "connected" /\ ~parsing
    BY DEF Read, ReadShort, Receive
  <1>2. ~gone
    <2>1. wire # <<>>
      <3>1. n \in 1..Len(wire) /\ Len(<<>>) = 0 /\ 1..0 = {}
        OBVIOUS
      <3> QED BY <3>1
    <2> QED BY <2>1 DEF Silent
  <1>3. PICK w, k : ToldRead(Split(buf).stump, w, k)
    BY <1>1, ReadTold
  <1>4. Len(buf') = Len(buf) + n
    BY <1>1, ReceiveFacts
  <1>5. CASE Read(n)
    <2>1. /\ link' = "connected" /\ parsing' /\ UNCHANGED <<short, link, life, gone>>
          /\ ~(Len(buf') < HeaderSize)
      <3>1. PICK m \in Nat : m = Len(buf)
        BY LenProperties DEF TypeOK
      <3> QED BY <1>4, <1>5, <3>1 DEF Read, Receive, linkVars, HeaderSize
    <2>2. UNCHANGED StatusOf
      BY <2>1 DEF StatusOf
    <2>3. /\ Worker!Receive(Slot, Said(w), k)
          /\ Said(w) \in Worker!Batches /\ k \in Worker!Cuts
          /\ ~(Worker!Joined(Slot, Said(w)) = <<>> /\ k = "stub")
      BY <1>1, <1>2, <1>3, <2>1, ReceivePackets
    <2>4. Worker!ReadData(Slot, Said(w), k)
      BY <1>1, <2>1, <2>2, <2>3
         DEF Worker!ReadData, Worker!setupVars, Worker!linkVars
    <2> QED BY <2>3, <2>4 DEF PacketStep, Worker!Next, Worker!Reading
  <1>6. CASE ReadShort(n)
    <2>1. /\ link' = "waiting" /\ ~parsing' /\ UNCHANGED <<life, gone>> /\ short' = TRUE
          /\ Len(buf') < HeaderSize
      <3>1. PICK m \in Nat : m = Len(buf)
        BY LenProperties DEF TypeOK
      <3> QED BY <1>1, <1>4, <1>6, <3>1 DEF ReadShort, Close, HeaderSize
    <2>2. /\ Worker!Receive(Slot, Said(w), k)
          /\ Said(w) \in Worker!Batches /\ k \in Worker!Cuts
          /\ Worker!Joined(Slot, Said(w)) = <<>> /\ k = "stub"
          /\ One(link = "connecting") = On(0)
      BY <1>1, <1>2, <1>3, <2>1, ReceivePackets
    <2>3. One(link = "connecting")' = On(0)
      BY <2>1, OnSlot
    <2>4. Worker!Close(Slot)
      BY <1>1, <2>1, CloseSlot
    <2>5. Worker!ReadShort(Slot, Said(w), k)
      BY <1>1, <2>1, <2>2, <2>3, <2>4
         DEF Worker!ReadShort, Worker!setupVars
    <2> QED BY <2>2, <2>5 DEF PacketStep, Worker!Next, Worker!Reading
  <1> QED BY <1>5, <1>6

\* Every step on the bytes is one on the packets, unless memcpy() does harm.
LEMMA PacketsStep ==
    TypeOK /\ Roomy /\ Silent /\ [Next]_vars => [Worker!Next]_(Worker!vars) \/ Garbled
  <1> SUFFICES ASSUME TypeOK, Roomy, Silent, [Next]_vars, ~ Garbled PROVE PacketStep
    BY DEF PacketStep
  <1>1. CASE PushBullet
    BY <1>1, SetupPackets
  <1>2. CASE Connect
    BY <1>2, ConnectPackets
  <1>3. CASE ConnectOk
    BY <1>3, ConnectOkPackets
  <1>4. CASE ConnectFailed
    BY <1>4, ConnectFailedPackets
  <1>5. CASE PeerGone \/ \E m \in Messages, g \in BOOLEAN : Send(m, g)
    BY <1>5, PeerPackets
  <1>6. CASE \E n \in 1..Len(wire) : Read(n) \/ ReadShort(n)
    BY <1>6, ReadPackets
  <1>7. CASE ReadNothing
    BY <1>7, ReadNothingPackets
  <1>8. CASE Handle
    BY <1>8, HandlePackets DEF Garbled
  <1>9. CASE Refuse
    BY <1>9, RefusePackets
  <1>10. CASE Done
    BY <1>10, DonePackets
  <1>11. CASE UNCHANGED vars
    <2>1. UNCHANGED <<short, link, life, gone, buf, parsing>>
      BY <1>11 DEF vars, linkVars
    <2>2. UNCHANGED StatusOf
      BY <2>1 DEF StatusOf
    <2>3. UNCHANGED Worker!vars
      BY <2>1, <2>2
         DEF Worker!vars, Worker!setupVars, Worker!linkVars, Worker!opVars, Worker!dataVars
    <2> QED BY <2>3 DEF PacketStep
  <1> QED BY <1>1, <1>2, <1>3, <1>4, <1>5, <1>6, <1>7, <1>8, <1>9, <1>10, <1>11 DEF Next

\* The bytes behave as NetWorker's packets, whatever is sent, wherever the reads
\* cut it and whatever an earlier connection or memcpy() left in the buffer, but
\* for the step in which memcpy() does harm: parse_data(), read byte by byte,
\* implements the read handler and the packet loop that NetWorker's theorems are
\* about (net_worker.hpp:130-208).
THEOREM PacketsStandForBytesCorrect == Spec => PacketsStandForBytes
  <1>1. Init => TypeOK /\ Roomy /\ Silent /\ Worker!Init
    BY InitType, InitRoomy, PacketInit DEF Init, Silent
  <1>2. TypeOK /\ Roomy /\ Silent /\ [Next]_vars
           => TypeOK' /\ Roomy' /\ Silent' /\ [[Worker!Next]_(Worker!vars) \/ Garbled]_vars
    BY TypeStep, RoomStep, SilentStep, PacketsStep
  <1> QED BY <1>1, <1>2, PTL DEF Spec, PacketsStandForBytes
=============================================================================
