---------------------------- MODULE SerialProofs ----------------------------
(***************************************************************************)
(* Proofs about Serial: packets are handled in the order in which they     *)
(* were sent, whatever the line loses, and all of them if it loses         *)
(* nothing.                                                                *)
(*                                                                         *)
(* Ring and queue are seen as one sequence of bytes in flight, and every   *)
(* step as one of four: bytes move on, bytes are lost, the host puts a     *)
(* byte behind them, the parser takes the one in front.                    *)
(***************************************************************************)
EXTENDS Serial, SequenceTheorems, WellFoundedInduction, TLAPS

-----------------------------------------------------------------------------
(* The bytes of a packet.                                                   *)

\* Bytes in front of the payload, and all bytes of a packet (packet.c:210).
HeaderLen(p) == IF Len(p) > Radix - 1 THEN 3 ELSE 2
Size(p) == HeaderLen(p) + Len(p) + 3

\* What a byte tells of a CRC, and bytes.
Crcs == {NotCrc} \union [payload : Payloads, half : {1, 2}]
Bytes == [value : Int, crc : Crcs]

\* A payload has a byte and fits into the buffer.
LEMMA PayloadFacts ==
  ASSUME NEW p \in Payloads
  PROVE  /\ p \in Seq(Values) /\ Len(p) \in Nat /\ Len(p) >= 1
         /\ Len(p) <= BufferSize /\ BufferSize \in Nat /\ Radix \in Nat
         /\ HeaderLen(p) \in {2, 3} /\ Size(p) \in Nat /\ Size(p) >= 6
         /\ p # NoPacket
<1>1. p \in Seq(Values) /\ Len(p) \in Nat /\ Len(p) >= 1 /\ BufferSize \in Nat
      /\ Len(p) <= BufferSize /\ Radix \in Nat
  BY PacketAssumption
<1> QED
  BY <1>1 DEF HeaderLen, Size, NoPacket

\* Plain bytes and the bytes of a CRC.
LEMMA ByteFacts ==
  /\ \A v \in Int : Plain(v) \in Bytes /\ Plain(v).value = v
                    /\ Plain(v).crc = NotCrc
  /\ \A p \in Payloads, h \in {1, 2} :
       /\ CrcByte(p, h) \in Bytes
       /\ CrcByte(p, h).crc = [payload |-> p, half |-> h]
  /\ NotCrc.half = 0
<1>1. \A p \in Payloads, h \in {1, 2} : Crc[p][h] \in Int
  BY PacketAssumption DEF Values
<1> QED
  BY <1>1 DEF Plain, CrcByte, Bytes, Crcs, NotCrc

\* What packet_send_packet puts where.
LEMMA PacketBytes ==
  ASSUME NEW p \in Payloads
  PROVE  LET pk == packet_send_packet(p)  h == HeaderLen(p)  n == Len(p)
         IN  /\ pk \in Seq(Bytes) /\ Len(pk) = Size(p)
             /\ h = 3 => /\ pk[1] = Plain(PACKET_LONG_START)
                         /\ pk[2] = Plain(n \div Radix)
             /\ h = 2 => pk[1] = Plain(PACKET_START)
             /\ pk[h] = Plain(IF h = 3 THEN n % Radix ELSE n)
             /\ \A i \in 1..n : pk[h + i] = Plain(p[i])
             /\ pk[h + n + 1] = CrcByte(p, 1)
             /\ pk[h + n + 2] = CrcByte(p, 2)
             /\ pk[h + n + 3] = Plain(PACKET_END)
<1> DEFINE n == Len(p)
           h == HeaderLen(p)
           hd == Header(n)
           dt == [i \in DOMAIN p |-> Plain(p[i])]
           tl == <<CrcByte(p, 1), CrcByte(p, 2), Plain(PACKET_END)>>
<1>0. /\ p \in Seq(Values) /\ n \in Nat /\ n >= 1 /\ h \in {2, 3}
      /\ Radix \in Nat /\ Radix > 0
  BY PayloadFacts, PacketAssumption
<1>c. {PACKET_START, PACKET_LONG_START, PACKET_END} \subseteq Int
  BY PacketAssumption DEF Values
<1>1. /\ hd \in Seq(Bytes) /\ Len(hd) = h
      /\ h = 3 => /\ hd[1] = Plain(PACKET_LONG_START)
                  /\ hd[2] = Plain(n \div Radix)
      /\ h = 2 => hd[1] = Plain(PACKET_START)
      /\ hd[h] = Plain(IF h = 3 THEN n % Radix ELSE n)
  <2>1. n \div Radix \in Int /\ n % Radix \in Int
    BY <1>0
  <2>2. CASE n > Radix - 1
    <3>1. /\ h = 3
          /\ hd = <<Plain(PACKET_LONG_START), Plain(n \div Radix), Plain(n % Radix)>>
      BY <2>2 DEF Header, HeaderLen
    <3>2. /\ Plain(PACKET_LONG_START) \in Bytes /\ Plain(n \div Radix) \in Bytes
          /\ Plain(n % Radix) \in Bytes
      BY <1>c, <2>1, ByteFacts
    <3> HIDE DEF hd, h, n
    <3> QED
      BY <3>1, <3>2
  <2>3. CASE ~(n > Radix - 1)
    <3>1. h = 2 /\ hd = <<Plain(PACKET_START), Plain(n)>>
      BY <2>3 DEF Header, HeaderLen
    <3>2. Plain(PACKET_START) \in Bytes /\ Plain(n) \in Bytes
      BY <1>0, <1>c, ByteFacts
    <3> HIDE DEF hd, h, n
    <3> QED
      BY <3>1, <3>2
  <2> QED
    BY <2>2, <2>3
<1>2. dt \in Seq(Bytes) /\ Len(dt) = n /\ \A i \in 1..n : dt[i] = Plain(p[i])
  <2>1. \A i \in 1..n : Plain(p[i]) \in Bytes
    BY <1>0, ByteFacts DEF Values
  <2>2. DOMAIN p = 1..n
    BY <1>0
  <2>3. dt = [i \in 1..n |-> Plain(p[i])]
    BY <2>2
  <2> HIDE DEF n
  <2>4. dt \in Seq(Bytes)
    BY <1>0, <2>1, <2>3, IsASeq
  <2> QED
    BY <1>0, <2>3, <2>4
<1>3. tl \in Seq(Bytes) /\ Len(tl) = 3
  <2>1. /\ CrcByte(p, 1) \in Bytes /\ CrcByte(p, 2) \in Bytes
        /\ Plain(PACKET_END) \in Bytes
    BY <1>c, ByteFacts
  <2> QED
    BY <2>1
<1>3a. tl[1] = CrcByte(p, 1) /\ tl[2] = CrcByte(p, 2) /\ tl[3] = Plain(PACKET_END)
  OBVIOUS
<1> DEFINE fr == hd \o dt
           pk == packet_send_packet(p)
<1>4. pk = fr \o tl
  BY DEF packet_send_packet
<1> HIDE DEF hd, dt, tl, n, h
<1>5. /\ fr \in Seq(Bytes) /\ Len(fr) = h + n
      /\ \A i \in 1..(h + n) : fr[i] = IF i <= h THEN hd[i] ELSE dt[i - h]
  BY <1>0, <1>1, <1>2, ConcatProperties
<1> HIDE DEF fr, pk
<1>6. /\ pk \in Seq(Bytes) /\ Len(pk) = h + n + 3
      /\ \A i \in 1..(h + n + 3) :
           pk[i] = IF i <= h + n THEN fr[i] ELSE tl[i - (h + n)]
  <2>1. fr \o tl \in Seq(Bytes)
    BY <1>3, <1>5, ConcatProperties
  <2>2. Len(fr \o tl) = Len(fr) + Len(tl)
    BY <1>3, <1>5, ConcatProperties
  <2>3. \A i \in 1..(Len(fr) + Len(tl)) :
          (fr \o tl)[i] = IF i <= Len(fr) THEN fr[i] ELSE tl[i - Len(fr)]
    BY <1>3, <1>5, ConcatProperties
  <2> QED
    BY <1>0, <1>3, <1>4, <1>5, <2>1, <2>2, <2>3
<1>7. Size(p) = h + n + 3
  BY DEF Size, h, n
<1>8. \A i \in 1..h : pk[i] = hd[i]
  BY <1>0, <1>5, <1>6
<1>9. \A i \in 1..n : pk[h + i] = Plain(p[i])
  <2> SUFFICES ASSUME NEW i \in 1..n PROVE pk[h + i] = dt[i]
    BY <1>2
  <2>1. /\ h + i \in 1..(h + n) /\ h + i \in 1..(h + n + 3) /\ h + i <= h + n
        /\ ~(h + i <= h) /\ (h + i) - h = i
    BY <1>0
  <2>2. PICK k \in 1..(h + n + 3) : k = h + i
    BY <2>1
  <2>3. pk[k] = fr[k] /\ fr[k] = dt[k - h]
    BY <1>5, <1>6, <2>1, <2>2
  <2> QED
    BY <2>1, <2>2, <2>3
<1>10. \A i \in 1..3 : pk[h + n + i] = tl[i]
  <2> SUFFICES ASSUME NEW i \in 1..3 PROVE pk[h + n + i] = tl[i]
    OBVIOUS
  <2>1. /\ h + n + i \in 1..(h + n + 3) /\ ~(h + n + i <= h + n)
        /\ (h + n + i) - (h + n) = i
    BY <1>0
  <2>2. PICK k \in 1..(h + n + 3) : k = h + n + i
    BY <2>1
  <2>3. pk[k] = tl[k - (h + n)]
    BY <1>6, <2>1, <2>2
  <2> QED
    BY <2>1, <2>2, <2>3
<1>11. /\ h = 3 => pk[1] = Plain(PACKET_LONG_START) /\ pk[2] = Plain(n \div Radix)
       /\ h = 2 => pk[1] = Plain(PACKET_START)
       /\ pk[h] = Plain(IF h = 3 THEN n % Radix ELSE n)
  BY <1>0, <1>1, <1>8
<1> QED
  BY <1>3a, <1>6, <1>7, <1>9, <1>10, <1>11 DEF n, h, pk

-----------------------------------------------------------------------------
(* The bytes in the ring and in the queue, in the order they were sent in.  *)

Slots == 0..(SERIAL_RX_BUFFER_SIZE - 1)

\* Bytes in the ring between two indices, and where the k-th of them is.
HeldOf(r, w) == IF w >= r THEN w - r ELSE w - r + SERIAL_RX_BUFFER_SIZE
SlotOf(r, k) ==
  IF r + k > SERIAL_RX_BUFFER_SIZE THEN r + k - 1 - SERIAL_RX_BUFFER_SIZE
  ELSE r + k - 1

\* All bytes between host and parser, and the k-th of them: those in the ring
\* come before those in the queue.
InFlight(r, w, q) == HeldOf(r, w) + Len(q)
ByteOf(r, w, buf, q, k) ==
  IF k <= HeldOf(r, w) THEN buf[SlotOf(r, k)] ELSE q[k - HeldOf(r, w)]

\* An index that was increased once is a slot again after Wrap.
LEMMA RingSize ==
  /\ SERIAL_RX_BUFFER_SIZE \in Nat /\ SERIAL_RX_BUFFER_SIZE >= 2
  /\ \A i \in 0..SERIAL_RX_BUFFER_SIZE : Wrap(i) \in Slots /\ Wrap(Wrap(i)) = Wrap(i)
  /\ \A i \in Slots : Wrap(i) = i /\ Wrap(i + 1) \in Slots
                      /\ i + 1 \in 0..SERIAL_RX_BUFFER_SIZE
BY SerialAssumption DEF Slots, Wrap

\* The ring never holds as many bytes as it has slots, and the next one to be
\* written holds none of them.
LEMMA HeldBounds ==
  ASSUME NEW r \in Slots, NEW w \in Slots
  PROVE  /\ HeldOf(r, w) \in Nat /\ HeldOf(r, w) < SERIAL_RX_BUFFER_SIZE
         /\ HeldOf(r, w) = 0 <=> r = w
         /\ \A k \in 1..SERIAL_RX_BUFFER_SIZE : SlotOf(r, k) \in Slots
         /\ SlotOf(r, HeldOf(r, w) + 1) = w
         /\ \A k \in 1..HeldOf(r, w) : SlotOf(r, k) # w
BY RingSize DEF HeldOf, SlotOf, Slots

\* The number of bytes in flight is one.
LEMMA InFlightBounds ==
  ASSUME NEW r \in Slots, NEW w \in Slots, NEW q \in Seq(Bytes)
  PROVE  /\ InFlight(r, w, q) \in Nat /\ Len(q) \in Nat
         /\ HeldOf(r, w) \in Nat /\ HeldOf(r, w) <= InFlight(r, w, q)
BY HeldBounds DEF InFlight

\* Each of them is a byte.
LEMMA BytesTyped ==
  ASSUME NEW r \in Slots, NEW w \in Slots, NEW buf \in [Slots -> Bytes],
         NEW q \in Seq(Bytes), NEW k \in 1..InFlight(r, w, q)
  PROVE  ByteOf(r, w, buf, q, k) \in Bytes
<1>1. /\ HeldOf(r, w) \in Nat /\ HeldOf(r, w) < SERIAL_RX_BUFFER_SIZE
      /\ Len(q) \in Nat /\ k \in Nat /\ k >= 1 /\ k <= HeldOf(r, w) + Len(q)
      /\ SERIAL_RX_BUFFER_SIZE \in Nat
  BY HeldBounds, RingSize DEF InFlight
<1>2. CASE k <= HeldOf(r, w)
  <2>1. SlotOf(r, k) \in Slots
    BY <1>1, <1>2, HeldBounds
  <2> QED
    BY <1>2, <2>1 DEF ByteOf
<1>3. CASE ~(k <= HeldOf(r, w))
  <2>1. k - HeldOf(r, w) \in 1..Len(q)
    BY <1>1, <1>3
  <2>2. q[k - HeldOf(r, w)] \in Bytes
    BY <2>1, ElementOfSeq
  <2> QED
    BY <1>3, <2>2 DEF ByteOf
<1> QED
  BY <1>2, <1>3

\* The reader moves a byte from the queue to the ring.
LEMMA ReaderMoves ==
  ASSUME NEW r \in Slots, NEW w \in Slots, NEW buf \in [Slots -> Bytes],
         NEW q \in Seq(Bytes), q # <<>>, Wrap(w + 1) # r
  PROVE  /\ InFlight(r, Wrap(w + 1), Tail(q)) = InFlight(r, w, q)
         /\ \A k \in 1..InFlight(r, w, q) :
              ByteOf(r, Wrap(w + 1), [buf EXCEPT ![w] = Head(q)], Tail(q), k)
                = ByteOf(r, w, buf, q, k)
<1> DEFINE h == HeldOf(r, w)
           b2 == [buf EXCEPT ![w] = Head(q)]
           w2 == Wrap(w + 1)
<1>1. /\ h \in Nat /\ h < SERIAL_RX_BUFFER_SIZE /\ SERIAL_RX_BUFFER_SIZE \in Nat
      /\ SlotOf(r, h + 1) = w /\ \A k \in 1..h : SlotOf(r, k) \in Slots \ {w}
  BY HeldBounds, RingSize
<1>2. HeldOf(r, w2) = h + 1
  BY RingSize DEF HeldOf, Slots, Wrap
<1>3. /\ Tail(q) \in Seq(Bytes) /\ Len(q) \in Nat /\ Len(q) >= 1
      /\ Len(Tail(q)) = Len(q) - 1
      /\ Head(q) = q[1] /\ \A k \in 1..(Len(q) - 1) : Tail(q)[k] = q[k + 1]
  BY HeadTailProperties, LenProperties, EmptySeq
<1>4. b2[w] = Head(q) /\ \A s \in Slots \ {w} : b2[s] = buf[s]
  OBVIOUS
<1>5. InFlight(r, w2, Tail(q)) = InFlight(r, w, q)
  BY <1>1, <1>2, <1>3 DEF InFlight
<1>6. ASSUME NEW k \in 1..InFlight(r, w, q)
      PROVE  ByteOf(r, w2, b2, Tail(q), k) = ByteOf(r, w, buf, q, k)
  <2>0. k \in Nat /\ k >= 1 /\ k <= h + Len(q)
    BY <1>1, <1>3 DEF InFlight
  <2> HIDE DEF h, b2, w2
  <2>1. CASE k <= h
    <3>1. ByteOf(r, w, buf, q, k) = buf[SlotOf(r, k)]
      BY <2>1 DEF ByteOf, h
    <3>2. ByteOf(r, w2, b2, Tail(q), k) = b2[SlotOf(r, k)]
      BY <1>1, <1>2, <2>0, <2>1 DEF ByteOf
    <3>3. SlotOf(r, k) \in Slots \ {w}
      BY <1>1, <2>0, <2>1
    <3> QED
      BY <1>4, <3>1, <3>2, <3>3
  <2>2. CASE k = h + 1
    <3>1. ByteOf(r, w, buf, q, k) = q[k - h]
      BY <1>1, <2>2 DEF ByteOf, h
    <3>2. ByteOf(r, w2, b2, Tail(q), k) = b2[SlotOf(r, k)]
      BY <1>1, <1>2, <2>2 DEF ByteOf
    <3>3. k - h = 1
      BY <1>1, <2>2
    <3> QED
      BY <1>1, <1>3, <1>4, <2>2, <3>1, <3>2, <3>3
  <2>3. CASE k > h + 1
    <3>1. ByteOf(r, w, buf, q, k) = q[k - h]
      BY <1>1, <2>0, <2>3 DEF ByteOf, h
    <3>2. ByteOf(r, w2, b2, Tail(q), k) = Tail(q)[k - (h + 1)]
      BY <1>1, <1>2, <2>0, <2>3 DEF ByteOf
    <3>3. PICK j \in 1..(Len(q) - 1) : j = k - (h + 1) /\ j + 1 = k - h
      BY <1>1, <1>3, <2>0, <2>3
    <3> QED
      BY <1>3, <3>1, <3>2, <3>3
  <2> QED
    BY <1>1, <2>0, <2>1, <2>2, <2>3
<1> QED
  BY <1>5, <1>6

\* If that makes the ring look empty, all that was in it is lost.
LEMMA ReaderOverwrites ==
  ASSUME NEW r \in Slots, NEW w \in Slots, NEW buf, NEW b2,
         NEW q \in Seq(Bytes), q # <<>>, Wrap(w + 1) = r
  PROVE  /\ InFlight(r, r, Tail(q)) + SERIAL_RX_BUFFER_SIZE = InFlight(r, w, q)
         /\ \A k \in 1..InFlight(r, r, Tail(q)) :
              ByteOf(r, r, b2, Tail(q), k)
                = ByteOf(r, w, buf, q, k + SERIAL_RX_BUFFER_SIZE)
<1> DEFINE n == SERIAL_RX_BUFFER_SIZE
<1>1. HeldOf(r, w) = n - 1 /\ HeldOf(r, r) = 0 /\ n \in Nat /\ n >= 2
  BY RingSize DEF HeldOf, Slots, Wrap
<1>2. /\ Tail(q) \in Seq(Bytes) /\ Len(q) \in Nat /\ Len(q) >= 1
      /\ Len(Tail(q)) = Len(q) - 1
      /\ \A k \in 1..(Len(q) - 1) : Tail(q)[k] = q[k + 1]
  BY HeadTailProperties, LenProperties, EmptySeq
<1> HIDE DEF n
<1>3. InFlight(r, r, Tail(q)) = Len(q) - 1 /\ InFlight(r, w, q) = n - 1 + Len(q)
  BY <1>1, <1>2 DEF InFlight
<1>4. ASSUME NEW k \in 1..(Len(q) - 1)
      PROVE  ByteOf(r, r, b2, Tail(q), k) = ByteOf(r, w, buf, q, k + n)
  <2>1. ByteOf(r, r, b2, Tail(q), k) = Tail(q)[k - 0]
    BY <1>1, <1>2 DEF ByteOf
  <2>2. ByteOf(r, w, buf, q, k + n) = q[(k + n) - (n - 1)]
    BY <1>1, <1>2 DEF ByteOf
  <2>3. k - 0 = k /\ (k + n) - (n - 1) = k + 1
    BY <1>1, <1>2
  <2> QED
    BY <1>2, <2>1, <2>2, <2>3
<1> QED
  BY <1>1, <1>2, <1>3, <1>4 DEF n

\* The processor takes the first byte out of the ring.
LEMMA ProcessorTakes ==
  ASSUME NEW r \in Slots, NEW w \in Slots, NEW buf, NEW q \in Seq(Bytes), r # w
  PROVE  /\ InFlight(Wrap(r + 1), w, q) = InFlight(r, w, q) - 1
         /\ InFlight(r, w, q) >= 1
         /\ ByteOf(r, w, buf, q, 1) = buf[r]
         /\ \A k \in 1..(InFlight(r, w, q) - 1) :
              ByteOf(Wrap(r + 1), w, buf, q, k) = ByteOf(r, w, buf, q, k + 1)
<1> DEFINE h == HeldOf(r, w)
           r2 == Wrap(r + 1)
<1>1. h \in Nat /\ h >= 1 /\ h < SERIAL_RX_BUFFER_SIZE /\ Len(q) \in Nat
      /\ SERIAL_RX_BUFFER_SIZE \in Nat
  <2>1. h \in Nat /\ h < SERIAL_RX_BUFFER_SIZE /\ (h = 0 <=> r = w)
    BY HeldBounds
  <2> HIDE DEF h
  <2> QED
    BY <2>1, RingSize
<1>2. HeldOf(r2, w) = h - 1
  BY RingSize DEF HeldOf, Slots, Wrap
<1>3. \A k \in 1..(h - 1) : SlotOf(r2, k) = SlotOf(r, k + 1)
  BY <1>1, RingSize DEF SlotOf, Slots, Wrap
<1>4. SlotOf(r, 1) = r
  BY RingSize DEF SlotOf, Slots
<1> HIDE DEF h, r2
<1>5. InFlight(r2, w, q) = InFlight(r, w, q) - 1 /\ InFlight(r, w, q) = h + Len(q)
  BY <1>1, <1>2 DEF InFlight, h
<1>6. ByteOf(r, w, buf, q, 1) = buf[r]
  BY <1>1, <1>4 DEF ByteOf, h
<1>7. ASSUME NEW k \in 1..(h + Len(q) - 1)
      PROVE  ByteOf(r2, w, buf, q, k) = ByteOf(r, w, buf, q, k + 1)
  <2>1. CASE k <= h - 1
    BY <1>1, <1>2, <1>3, <2>1 DEF ByteOf, h
  <2>2. CASE k > h - 1
    <3>1. ByteOf(r2, w, buf, q, k) = q[k - (h - 1)]
      BY <1>1, <1>2, <2>2 DEF ByteOf
    <3>2. ByteOf(r, w, buf, q, k + 1) = q[(k + 1) - h]
      BY <1>1, <2>2 DEF ByteOf, h
    <3>3. k - (h - 1) = (k + 1) - h
      BY <1>1
    <3> QED
      BY <3>1, <3>2, <3>3
  <2> QED
    BY <1>1, <2>1, <2>2
<1> QED
  BY <1>1, <1>5, <1>6, <1>7 DEF r2

\* The host puts a byte into the queue.
LEMMA HostPuts ==
  ASSUME NEW r \in Slots, NEW w \in Slots, NEW buf, NEW q \in Seq(Bytes),
         NEW b \in Bytes
  PROVE  /\ Append(q, b) \in Seq(Bytes)
         /\ InFlight(r, w, Append(q, b)) = InFlight(r, w, q) + 1
         /\ ByteOf(r, w, buf, Append(q, b), InFlight(r, w, q) + 1) = b
         /\ \A k \in 1..InFlight(r, w, q) :
              ByteOf(r, w, buf, Append(q, b), k) = ByteOf(r, w, buf, q, k)
<1> DEFINE h == HeldOf(r, w)
           q2 == Append(q, b)
<1>1. h \in Nat /\ Len(q) \in Nat
  BY HeldBounds
<1>2. /\ q2 \in Seq(Bytes) /\ Len(q2) = Len(q) + 1 /\ q2[Len(q) + 1] = b
      /\ \A i \in 1..Len(q) : q2[i] = q[i]
  BY AppendProperties
<1> HIDE DEF h, q2
<1>3. InFlight(r, w, q) = h + Len(q) /\ InFlight(r, w, q2) = h + Len(q) + 1
  BY <1>1, <1>2 DEF InFlight, h
<1>4. ByteOf(r, w, buf, q2, h + Len(q) + 1) = b
  <2>1. ByteOf(r, w, buf, q2, h + Len(q) + 1) = q2[(h + Len(q) + 1) - h]
    BY <1>1 DEF ByteOf, h
  <2>2. (h + Len(q) + 1) - h = Len(q) + 1
    BY <1>1
  <2> QED
    BY <1>2, <2>1, <2>2
<1>5. ASSUME NEW k \in 1..(h + Len(q))
      PROVE  ByteOf(r, w, buf, q2, k) = ByteOf(r, w, buf, q, k)
  <2>1. CASE k <= h
    BY <2>1 DEF ByteOf, h
  <2>2. CASE k > h
    <3>1. PICK i \in 1..Len(q) : i = k - h
      BY <1>1, <2>2
    <3>2. ByteOf(r, w, buf, q2, k) = q2[i] /\ ByteOf(r, w, buf, q, k) = q[i]
      BY <1>1, <2>2, <3>1 DEF ByteOf, h
    <3> QED
      BY <1>2, <3>2
  <2> QED
    BY <1>1, <2>1, <2>2
<1> QED
  BY <1>1, <1>2, <1>3, <1>4, <1>5 DEF q2

-----------------------------------------------------------------------------
(* Types, and what a step does to the bytes in flight.                      *)

\* The read index is left unwrapped only over a reply that blocks.
LineTypes ==
  /\ left \in Seq(Bytes) /\ queue \in Seq(Bytes)
  /\ serial_rx_buffer \in [Slots -> Bytes]
  /\ serial_rx_read_pos \in 0..SERIAL_RX_BUFFER_SIZE
  /\ serial_rx_write_pos \in Slots
  /\ process \in {"wait", "loop", "send"}
  /\ process # "send" => serial_rx_read_pos \in Slots
  /\ losses \in Nat
  /\ pending \in Seq(Payloads)

\* Both bytes of a CRC have been read when the end byte is awaited, and no
\* packet is accepted when the buffer overruns.
CrcTypes ==
  /\ packet_crc \in Seq(Crcs)
  /\ process_state = "CRC_LOW" => Len(packet_crc) = 1
  /\ process_state = "END" => Len(packet_crc) = 2
  /\ process_state = "OVERRUN" => accepted = NoPacket

\* The processor does not wait for bytes that are in the ring.
Drained ==
  process = "wait" /\ ~event => serial_rx_read_pos = serial_rx_write_pos

\* The bytes in flight in the current state.
Rd == Wrap(serial_rx_read_pos)
Flight == InFlight(Rd, serial_rx_write_pos, queue)
At(k) == ByteOf(Rd, serial_rx_write_pos, serial_rx_buffer, queue, k)

\* n bytes leave in front, none arrives.
Leave(n) == Flight' + n = Flight /\ \A k \in 1..Flight' : At(k)' = At(k + n)

\* Bytes move on, and nothing else happens.
Still == Leave(0) /\ UNCHANGED <<parser, left, pending, handled, losses>>

\* Bytes are lost.
Loses ==
  /\ losses' > losses
  /\ \E n \in Nat : /\ Flight' \in Nat /\ Flight' + n <= Flight
                    /\ \A k \in 1..Flight' : At(k)' = At(k + n)
  /\ UNCHANGED <<parser, pending, handled>>

\* The host sends b, the first byte of bytes.
Puts(bytes) ==
  /\ IF left # <<>> THEN bytes = left
     ELSE \E p \in Payloads : bytes = packet_send_packet(p)
  /\ bytes \in Seq(Bytes) /\ bytes # <<>>
  /\ left' = Tail(bytes)
  /\ pending' = Sent(Head(bytes))
  /\ Flight' = Flight + 1
  /\ \A k \in Nat : k = Flight + 1 => At(k)' = Head(bytes)
  /\ \A k \in 1..Flight : At(k)' = At(k)
  /\ UNCHANGED <<parser, handled, losses>>

\* The processor reads a byte, and may handle a packet.
Takes ==
  /\ Flight >= 1 /\ Leave(1)
  /\ packet_process_byte(At(1))
  /\ \/ /\ accepted' # NoPacket
        /\ handled' = 1 - handled
        /\ pending' = IF \E i \in DOMAIN pending : pending[i] = accepted'
                      THEN After(accepted') ELSE pending
     \/ accepted' = NoPacket /\ UNCHANGED <<pending, handled>>
  /\ UNCHANGED <<left, losses>>

\* Their number and type.
LEMMA FlightFacts ==
  ASSUME LineTypes
  PROVE  Rd \in Slots /\ Flight \in Nat /\ \A k \in 1..Flight : At(k) \in Bytes
<1>1. Rd \in Slots /\ serial_rx_write_pos \in Slots
  BY RingSize DEF LineTypes, Rd
<1>2. Flight \in Nat
  BY <1>1, InFlightBounds DEF LineTypes, Flight
<1>3. \A k \in 1..Flight : At(k) \in Bytes
  BY <1>1, BytesTyped DEF LineTypes, Flight, At
<1> QED
  BY <1>1, <1>2, <1>3

\* A step that leaves ring and queue alone moves no byte.
LEMMA SameRing ==
  ASSUME LineTypes, Rd' = Rd, UNCHANGED <<serial_rx_write_pos, serial_rx_buffer, queue>>
  PROVE  Leave(0)
<1>1. Flight' = Flight /\ Flight \in Nat
  BY FlightFacts DEF Flight
<1>2. \A k \in 1..Flight : At(k)' = At(k) /\ k + 0 = k
  BY <1>1 DEF At
<1> QED
  BY <1>1, <1>2 DEF Leave

\* serial_read_thread moves a byte from the queue to the ring, unless this
\* makes the ring look empty (comm_usb.c:378).
LEMMA ReaderStep ==
  ASSUME LineTypes, serial_read_thread
  PROVE  Still \/ Loses
<1>1. /\ queue # <<>> /\ queue' = Tail(queue)
      /\ serial_rx_buffer' =
           [serial_rx_buffer EXCEPT ![serial_rx_write_pos] = Head(queue)]
      /\ serial_rx_write_pos' = Wrap(serial_rx_write_pos + 1)
      /\ serial_rx_read_pos' = serial_rx_read_pos
      /\ UNCHANGED <<parser, left, pending, handled>>
  BY DEF serial_read_thread
<1>2. Rd' = Rd /\ Rd \in Slots /\ Flight \in Nat
  BY <1>1, FlightFacts DEF Rd
<1>3. CASE Wrap(serial_rx_write_pos + 1) # Rd
  <2>1. Flight' = Flight
    BY <1>1, <1>2, <1>3, ReaderMoves DEF LineTypes, Flight
  <2>2. \A k \in 1..Flight : At(k)' = At(k)
    BY <1>1, <1>2, <1>3, ReaderMoves DEF LineTypes, Flight, At
  <2>3. losses' = losses
    BY <1>1, <1>3 DEF serial_read_thread, Overwritten, Rd
  <2>4. Leave(0)
    BY <1>2, <2>1, <2>2 DEF Leave
  <2> QED
    BY <1>1, <2>3, <2>4 DEF Still
<1>4. CASE Wrap(serial_rx_write_pos + 1) = Rd
  <2>1. losses' = losses + 1
    BY <1>1, <1>4 DEF serial_read_thread, Overwritten, Rd
  <2>2. Flight' + SERIAL_RX_BUFFER_SIZE = Flight
    BY <1>1, <1>2, <1>4, ReaderOverwrites DEF LineTypes, Flight
  <2>3. \A k \in 1..Flight' : At(k)' = At(k + SERIAL_RX_BUFFER_SIZE)
    BY <1>1, <1>2, <1>4, ReaderOverwrites DEF LineTypes, Flight, At
  <2>4. queue' \in Seq(Bytes) /\ serial_rx_write_pos' \in Slots
    BY <1>1, <1>2, <1>4, HeadTailProperties DEF LineTypes
  <2>5. Flight' \in Nat
    BY <1>2, <2>4, InFlightBounds DEF Flight
  <2>6. SERIAL_RX_BUFFER_SIZE \in Nat /\ Flight' + SERIAL_RX_BUFFER_SIZE <= Flight
    BY <1>2, <2>2, RingSize
  <2>7. losses' > losses
    BY <2>1 DEF LineTypes
  <2>8. \E n \in Nat : /\ Flight' \in Nat /\ Flight' + n <= Flight
                       /\ \A k \in 1..Flight' : At(k)' = At(k + n)
    BY <2>3, <2>5, <2>6
  <2> QED
    BY <1>1, <2>7, <2>8 DEF Loses
<1> QED
  BY <1>3, <1>4

\* The host puts a byte behind all others.
LEMMA HostStep ==
  ASSUME LineTypes, HostSends
  PROVE  \E bytes : Puts(bytes)
<1>1. PICK bytes \in IF left # <<>> THEN {left}
                     ELSE {packet_send_packet(p) : p \in Payloads} :
        /\ queue' = Append(queue, Head(bytes))
        /\ left' = Tail(bytes)
        /\ pending' = Sent(Head(bytes))
  BY DEF HostSends
<1>2. IF left # <<>> THEN bytes = left
      ELSE \E p \in Payloads : bytes = packet_send_packet(p)
  BY <1>1
<1>3. bytes \in Seq(Bytes) /\ bytes # <<>>
  <2>1. CASE left # <<>>
    BY <1>2, <2>1 DEF LineTypes
  <2>2. CASE left = <<>>
    <3>1. PICK p \in Payloads : bytes = packet_send_packet(p)
      BY <1>2, <2>2
    <3>2. bytes \in Seq(Bytes) /\ Len(bytes) = Size(p) /\ Size(p) >= 6
      BY <3>1, PacketBytes, PayloadFacts
    <3> QED
      BY <3>2, PayloadFacts, EmptySeq
  <2> QED
    BY <2>1, <2>2
<1>4. Head(bytes) \in Bytes
  BY <1>3, HeadTailProperties
<1>5. /\ UNCHANGED <<parser, handled, losses, serial_rx_write_pos, serial_rx_buffer>>
      /\ Rd' = Rd /\ Rd \in Slots
  BY FlightFacts DEF HostSends, ring, Rd
<1>6. Flight' = Flight + 1
  BY <1>1, <1>4, <1>5, HostPuts DEF LineTypes, Flight
<1>7. ASSUME NEW k \in Nat, k = Flight + 1 PROVE At(k)' = Head(bytes)
  <2>1. /\ queue \in Seq(Bytes) /\ serial_rx_write_pos \in Slots
        /\ k = InFlight(Rd, serial_rx_write_pos, queue) + 1
    BY <1>7 DEF LineTypes, Flight
  <2>2. ByteOf(Rd, serial_rx_write_pos, serial_rx_buffer, Append(queue, Head(bytes)), k)
          = Head(bytes)
    BY <1>4, <1>5, <2>1, HostPuts
  <2> QED
    BY <1>1, <1>5, <2>2 DEF At
<1>8. \A k \in 1..Flight : At(k)' = At(k)
  BY <1>1, <1>4, <1>5, HostPuts DEF LineTypes, Flight, At
<1> QED
  BY <1>1, <1>2, <1>3, <1>5, <1>6, <1>7, <1>8 DEF Puts

\* The index that was left unwrapped over a reply stands for the same slot.
LEMMA HostReadsStep ==
  ASSUME LineTypes, HostReads
  PROVE  Still
<1>1. /\ serial_rx_read_pos' = Wrap(serial_rx_read_pos)
      /\ UNCHANGED <<parser, left, queue, serial_rx_buffer, serial_rx_write_pos,
                     losses, pending, handled>>
  BY DEF HostReads, SendReturns, history
<1>2. Rd' = Rd
  BY <1>1, RingSize DEF LineTypes, Rd
<1> QED
  BY <1>1, <1>2, SameRing DEF Still

\* A disconnection empties the queue.
LEMMA DisconnectStep ==
  ASSUME LineTypes, usb_event
  PROVE  Loses
<1>1. /\ queue' = <<>> /\ losses' = losses + 1
      /\ UNCHANGED <<parser, serial_rx_buffer, serial_rx_write_pos, pending, handled>>
      /\ serial_rx_read_pos' \in {serial_rx_read_pos, Wrap(serial_rx_read_pos)}
  BY DEF usb_event, SendReturns
<1>2. Rd' = Rd /\ Rd \in Slots /\ serial_rx_write_pos \in Slots
  BY <1>1, RingSize, FlightFacts DEF LineTypes, Rd
<1> DEFINE h == HeldOf(Rd, serial_rx_write_pos)
<1>3. h \in Nat /\ Len(queue) \in Nat /\ Len(<<>>) = 0
  BY <1>2, HeldBounds DEF LineTypes
<1>4. HeldOf(Rd', serial_rx_write_pos') = h
  BY <1>1, <1>2
<1>5. Flight' = h /\ Flight = h + Len(queue)
  BY <1>1, <1>3, <1>4 DEF Flight, InFlight
<1>6. ASSUME NEW k \in 1..h PROVE At(k)' = At(k + 0)
  <2>1. k <= h /\ k + 0 = k
    BY <1>3
  <2>2. At(k)' = serial_rx_buffer[SlotOf(Rd, k)]
    BY <1>1, <1>2, <1>4, <2>1 DEF At, ByteOf
  <2>3. At(k) = serial_rx_buffer[SlotOf(Rd, k)]
    BY <2>1 DEF At, ByteOf
  <2> QED
    BY <2>1, <2>2, <2>3
<1>7. losses' > losses
  BY <1>1 DEF LineTypes
<1> HIDE DEF h
<1>8. 0 \in Nat /\ Flight' \in Nat /\ Flight' + 0 <= Flight
  BY <1>3, <1>5
<1>9. \A k \in 1..Flight' : At(k)' = At(k + 0)
  BY <1>5, <1>6
<1> QED
  BY <1>1, <1>7, <1>8, <1>9 DEF Loses

\* serial_process_thread takes the byte in front.
LEMMA ProcessorStep ==
  ASSUME LineTypes, serial_process_byte
  PROVE  Takes /\ Rd' = Wrap(serial_rx_read_pos + 1)
<1>1. /\ process = "loop" /\ serial_rx_read_pos # serial_rx_write_pos
      /\ packet_process_byte(serial_rx_buffer[serial_rx_read_pos])
      /\ UNCHANGED <<left, queue, serial_rx_buffer, serial_rx_write_pos, losses>>
  BY DEF serial_process_byte
<1>2. serial_rx_read_pos \in Slots /\ Rd = serial_rx_read_pos
  BY <1>1, RingSize DEF LineTypes, Rd
<1>3. serial_rx_read_pos' \in {serial_rx_read_pos + 1, Wrap(serial_rx_read_pos + 1)}
  BY DEF serial_process_byte, Handled
<1>4. Rd' = Wrap(Rd + 1)
  BY <1>2, <1>3, RingSize DEF Rd
<1>5. Flight >= 1 /\ Flight' + 1 = Flight /\ Flight' = Flight - 1
  <2>1. /\ InFlight(Wrap(Rd + 1), serial_rx_write_pos, queue) = Flight - 1
        /\ Flight >= 1
    BY <1>1, <1>2, ProcessorTakes DEF LineTypes, Flight
  <2>2. Flight' = Flight - 1
    BY <1>1, <1>4, <2>1 DEF Flight
  <2> QED
    BY <2>1, <2>2, FlightFacts
<1>6. At(1) = serial_rx_buffer[serial_rx_read_pos]
  BY <1>1, <1>2, ProcessorTakes DEF LineTypes, At
<1>7. \A k \in 1..Flight' : At(k)' = At(k + 1)
  <2>1. \A k \in 1..(Flight - 1) :
          ByteOf(Wrap(Rd + 1), serial_rx_write_pos, serial_rx_buffer, queue, k)
            = At(k + 1)
    BY <1>1, <1>2, ProcessorTakes DEF LineTypes, Flight, At
  <2> QED
    BY <1>1, <1>4, <1>5, <2>1 DEF At
<1>8. \/ /\ accepted' # NoPacket
         /\ handled' = 1 - handled
         /\ pending' = IF \E i \in DOMAIN pending : pending[i] = accepted'
                       THEN After(accepted') ELSE pending
      \/ accepted' = NoPacket /\ UNCHANGED <<pending, handled>>
  BY DEF serial_process_byte, Handled
<1> QED
  BY <1>1, <1>2, <1>4, <1>5, <1>6, <1>7, <1>8 DEF Takes, Leave

\* All steps.
LEMMA LineSteps ==
  ASSUME LineTypes, [Next]_vars
  PROVE  Still \/ Loses \/ (\E bytes : Puts(bytes)) \/ Takes
<1>1. CASE serial_process_wakes \/ serial_process_waits
  <2>1. /\ UNCHANGED <<ring, queue>>
        /\ UNCHANGED <<parser, left, pending, handled, losses>>
    BY <1>1 DEF serial_process_wakes, serial_process_waits, history
  <2> QED
    BY <2>1, SameRing DEF Still, Rd, ring
<1>2. CASE UNCHANGED vars
  <2>1. /\ UNCHANGED <<ring, queue>>
        /\ UNCHANGED <<parser, left, pending, handled, losses>>
    BY <1>2 DEF vars, history
  <2> QED
    BY <2>1, SameRing DEF Still, Rd, ring
<1> QED
  BY <1>1, <1>2, HostStep, HostReadsStep, DisconnectStep, ReaderStep, ProcessorStep
  DEF Next, Processor

\* Packets that were sent after the first one with payload p.
LEMMA AfterIs ==
  ASSUME pending \in Seq(Payloads), NEW p, \E i \in DOMAIN pending : pending[i] = p
  PROVE  \E n \in 1..Len(pending) :
           /\ pending[n] = p /\ \A j \in 1..(n - 1) : pending[j] # p
           /\ After(p) = SubSeq(pending, n + 1, Len(pending))
           /\ After(p) \in Seq(Payloads) /\ Len(After(p)) = Len(pending) - n
           /\ \A j \in 1..(Len(pending) - n) : After(p)[j] = pending[n + j]
<1> DEFINE First(i) == pending[i] = p /\ \A j \in 1..(i - 1) : pending[j] # p
           S == {i \in DOMAIN pending : pending[i] = p}
           n == CHOOSE i \in DOMAIN pending : First(i)
<1>0. DOMAIN pending = 1..Len(pending) /\ Len(pending) \in Nat
  BY LenProperties
<1>1. S \subseteq Nat /\ S # {}
  BY <1>0
<1>2. PICK m \in S : \A j \in S : m <= j
  <2> DEFINE R == {ss \in Nat \X Nat : ss[1] < ss[2]}
  <2>1. IsWellFoundedOn(R, Nat)
    BY NatLessThanWellFounded DEF OpToRel
  <2> HIDE DEF R
  <2>2. PICK m \in S : \A y \in S : <<y, m>> \notin R
    BY <1>1, <2>1, WFMin
  <2>3. \A j \in S : ~(j < m)
    BY <1>1, <2>2 DEF R
  <2> QED
    BY <1>1, <2>2, <2>3
<1>3. m \in DOMAIN pending /\ First(m)
  BY <1>0, <1>2
<1>4. n \in DOMAIN pending /\ First(n)
  <2> HIDE DEF First
  <2> QED
    BY <1>3
<1>5. After(p) = SubSeq(pending, n + 1, Len(pending))
  BY DEF After
<1> HIDE DEF n
<1>6. n \in 1..Len(pending) /\ pending[n] = p /\ \A j \in 1..(n - 1) : pending[j] # p
  BY <1>0, <1>4
<1> HIDE DEF First
<1>7. n + 1 \in 1..(Len(pending) + 1) /\ Len(pending) \in n..Len(pending)
  BY <1>0, <1>6
<1>8. /\ After(p) \in Seq(Payloads)
      /\ Len(After(p)) = IF n + 1 <= Len(pending) THEN Len(pending) - (n + 1) + 1 ELSE 0
      /\ \A j \in 1..(Len(pending) - (n + 1) + 1) :
           After(p)[j] = pending[(n + 1) + j - 1]
  <2>1. \A i \in (n + 1)..Len(pending) : pending[i] \in Payloads
    BY <1>0, <1>7, ElementOfSeq
  <2>2. n + 1 \in Int /\ Len(pending) \in Int
    BY <1>0, <1>7
  <2> QED
    BY <1>5, <2>1, <2>2, SubSeqProperties
<1>9. Len(After(p)) = Len(pending) - n
  <2>1. \A a \in Nat : \A b \in 1..a :
          (IF b + 1 <= a THEN a - (b + 1) + 1 ELSE 0) = a - b
    OBVIOUS
  <2>2. (IF n + 1 <= Len(pending) THEN Len(pending) - (n + 1) + 1 ELSE 0)
          = Len(pending) - n
    BY <1>0, <1>6, <2>1
  <2> QED
    BY <1>8, <2>2
<1>10. \A j \in 1..(Len(pending) - n) : After(p)[j] = pending[n + j]
  <2> SUFFICES ASSUME NEW j \in 1..(Len(pending) - n)
               PROVE  After(p)[j] = pending[n + j]
    OBVIOUS
  <2>1. j \in 1..(Len(pending) - (n + 1) + 1) /\ (n + 1) + j - 1 = n + j
    BY <1>0, <1>6
  <2> QED
    BY <1>8, <2>1
<1> QED
  BY <1>5, <1>6, <1>8, <1>9, <1>10

\* Packets that are remembered as sent are typed.
LEMMA SentIs ==
  ASSUME pending \in Seq(Payloads), NEW b \in Bytes
  PROVE  /\ Sent(b) \in Seq(Payloads)
         /\ b.crc.half # 2 => Sent(b) = pending
         /\ b.crc.half = 2 => b.crc.payload \in Payloads
         /\ b.crc.half = 2 /\ Len(pending) < MaxPending
              => Sent(b) = Append(pending, b.crc.payload)
         /\ b.crc.half = 2 /\ ~(Len(pending) < MaxPending)
              => Sent(b) = Tail(Append(pending, b.crc.payload))
<1>1. CASE b.crc.half # 2
  BY <1>1 DEF Sent
<1>2. CASE b.crc.half = 2
  <2>1. b.crc.payload \in Payloads
    BY <1>2 DEF Bytes, Crcs, NotCrc
  <2> DEFINE all == Append(pending, b.crc.payload)
  <2>2. all \in Seq(Payloads) /\ Len(all) = Len(pending) + 1 /\ Len(pending) \in Nat
        /\ all # <<>>
    BY <2>1, AppendProperties, LenProperties
  <2>3. Tail(all) \in Seq(Payloads)
    BY <2>2, HeadTailProperties
  <2>4. Sent(b) = IF Len(all) > MaxPending THEN Tail(all) ELSE all
    BY <1>2 DEF Sent
  <2>5. Len(all) > MaxPending <=> ~(Len(pending) < MaxPending)
    BY <2>2, SerialAssumption
  <2> HIDE DEF all
  <2>6. Sent(b) \in Seq(Payloads)
    BY <2>2, <2>3, <2>4
  <2> QED
    BY <1>2, <2>1, <2>4, <2>5, <2>6 DEF all
<1> QED
  BY <1>1, <1>2

\* The types are kept.
LEMMA LineKept == LineTypes /\ [Next]_vars => LineTypes'
<1> SUFFICES ASSUME LineTypes, [Next]_vars PROVE LineTypes'
  OBVIOUS
<1> USE DEF LineTypes
<1>1. CASE HostSends
  <2>1. PICK bytes : Puts(bytes)
    BY <1>1, HostStep
  <2>2. Head(bytes) \in Bytes /\ Tail(bytes) \in Seq(Bytes)
    BY <2>1, HeadTailProperties DEF Puts
  <2>3. left' \in Seq(Bytes) /\ pending' \in Seq(Payloads) /\ losses' = losses
    BY <2>1, <2>2, SentIs DEF Puts
  <2>4. \E b : queue' = Append(queue, b) /\ b \in Bytes
    <3>1. PICK bs \in IF left # <<>> THEN {left}
                      ELSE {packet_send_packet(p) : p \in Payloads} :
            queue' = Append(queue, Head(bs))
      BY <1>1 DEF HostSends
    <3>2. bs \in Seq(Bytes) /\ bs # <<>>
      <4>1. CASE left # <<>>
        BY <3>1, <4>1
      <4>2. CASE left = <<>>
        <5>1. PICK p \in Payloads : bs = packet_send_packet(p)
          BY <3>1, <4>2
        <5>2. bs \in Seq(Bytes) /\ Len(bs) >= 6
          BY <5>1, PacketBytes, PayloadFacts
        <5> QED
          BY <5>2, EmptySeq
      <4> QED
        BY <4>1, <4>2
    <3> QED
      BY <3>1, <3>2, HeadTailProperties
  <2>5. queue' \in Seq(Bytes)
    BY <2>4, AppendProperties
  <2>6. UNCHANGED <<serial_rx_buffer, serial_rx_read_pos, serial_rx_write_pos, process>>
    BY <1>1 DEF HostSends, ring
  <2> QED
    BY <2>3, <2>5, <2>6
<1>2. CASE HostReads
  <2>1. /\ process' = "loop" /\ serial_rx_read_pos' \in Slots
        /\ serial_rx_read_pos' \in 0..SERIAL_RX_BUFFER_SIZE
    BY <1>2, RingSize DEF HostReads, SendReturns, Slots
  <2> QED
    BY <1>2, <2>1 DEF HostReads, history
<1>3. CASE usb_event
  <2>1. /\ process' \in {"wait", "loop", "send"}
        /\ serial_rx_read_pos' \in 0..SERIAL_RX_BUFFER_SIZE
        /\ process' # "send" => serial_rx_read_pos' \in Slots
    BY <1>3, RingSize DEF usb_event, SendReturns, Slots
  <2>2. left' \in Seq(Bytes) /\ queue' \in Seq(Bytes) /\ losses' \in Nat
    BY <1>3, EmptySeq DEF usb_event
  <2> QED
    BY <1>3, <2>1, <2>2 DEF usb_event
<1>4. CASE serial_read_thread
  <2>1. /\ queue' \in Seq(Bytes) /\ Head(queue) \in Bytes
    BY <1>4, HeadTailProperties DEF serial_read_thread
  <2>2. serial_rx_write_pos' \in Slots
    BY <1>4, RingSize DEF serial_read_thread
  <2>3. serial_rx_buffer' \in [Slots -> Bytes]
    BY <1>4, <2>1 DEF serial_read_thread
  <2>4. losses' \in Nat
    BY <1>4 DEF serial_read_thread
  <2> QED
    BY <1>4, <2>1, <2>2, <2>3, <2>4 DEF serial_read_thread
<1>5. CASE serial_process_wakes \/ serial_process_waits
  BY <1>5 DEF serial_process_wakes, serial_process_waits, ring, history
<1>6. CASE serial_process_byte
  <2>1. serial_rx_read_pos \in Slots
    BY <1>6 DEF serial_process_byte
  <2>2. /\ process' \in {"wait", "loop", "send"}
        /\ serial_rx_read_pos' \in 0..SERIAL_RX_BUFFER_SIZE
        /\ process' # "send" => serial_rx_read_pos' \in Slots
    <3>1. \/ process' = "send" /\ serial_rx_read_pos' = serial_rx_read_pos + 1
          \/ process' = "loop" /\ serial_rx_read_pos' = Wrap(serial_rx_read_pos + 1)
      BY <1>6 DEF serial_process_byte, Handled
    <3>2. Slots \subseteq 0..SERIAL_RX_BUFFER_SIZE
      BY RingSize DEF Slots
    <3> QED
      BY <2>1, <3>1, <3>2, RingSize
  <2>3. pending' \in Seq(Payloads)
    <3>1. Takes
      BY <1>6, ProcessorStep
    <3> QED
      BY <3>1, AfterIs DEF Takes
  <2> QED
    BY <1>6, <2>2, <2>3 DEF serial_process_byte
<1>7. CASE UNCHANGED vars
  BY <1>7 DEF vars, ring, history
<1> QED
  BY <1>1, <1>2, <1>3, <1>4, <1>5, <1>6, <1>7 DEF Next, Processor

\* serial_process_thread waits only once it has found the ring empty, and the
\* reader signals after every byte.
LEMMA DrainedKept == LineTypes /\ Drained /\ [Next]_vars => Drained'
<1> SUFFICES ASSUME LineTypes, Drained, [Next]_vars, process' = "wait", ~event'
             PROVE  serial_rx_read_pos' = serial_rx_write_pos'
  BY DEF Drained
<1>1. ~serial_read_thread
  BY DEF serial_read_thread
<1>2. CASE HostSends
  BY <1>2 DEF HostSends, ring, Drained
<1>3. CASE HostReads \/ serial_process_wakes \/ serial_process_byte
  BY <1>3 DEF HostReads, SendReturns, serial_process_wakes, serial_process_byte, Handled
<1>4. CASE usb_event
  BY <1>4 DEF usb_event, SendReturns, Drained
<1>5. CASE serial_process_waits
  BY <1>5 DEF serial_process_waits, ring
<1>6. CASE UNCHANGED vars
  BY <1>6 DEF vars, ring, Drained
<1> QED
  BY <1>1, <1>2, <1>3, <1>4, <1>5, <1>6 DEF Next, Processor

\* The bytes of a CRC are read one by one.
LEMMA CrcKept == LineTypes /\ CrcTypes /\ [Next]_vars => CrcTypes'
<1> SUFFICES ASSUME LineTypes, CrcTypes, [Next]_vars PROVE CrcTypes'
  OBVIOUS
<1>1. CASE UNCHANGED parser
  BY <1>1 DEF parser, CrcTypes
<1>2. CASE Takes
  <2>1. PICK b \in Bytes : packet_process_byte(b)
    <3>1. 1 \in 1..Flight
      BY <1>2, FlightFacts DEF Takes
    <3> QED
      BY <1>2, <3>1, FlightFacts DEF Takes
  <2>2. b.crc \in Crcs
    BY DEF Bytes
  <2>3. CASE ReadCrcHigh(b)
    BY <2>2, <2>3 DEF ReadCrcHigh, Await, CrcTypes
  <2>4. CASE ReadCrcLow(b)
    <3>1. packet_crc \in Seq(Crcs) /\ Len(packet_crc) = 1
      BY <2>4 DEF ReadCrcLow, CrcTypes
    <3>2. packet_crc' \in Seq(Crcs) /\ Len(packet_crc') = 2
      <4>1. packet_crc' = Append(packet_crc, b.crc)
        BY <2>4 DEF ReadCrcLow
      <4>2. /\ Append(packet_crc, b.crc) \in Seq(Crcs)
            /\ Len(Append(packet_crc, b.crc)) = Len(packet_crc) + 1
        BY <2>2, <3>1, AppendProperties
      <4> QED
        BY <3>1, <4>1, <4>2
    <3> QED
      BY <2>4, <3>2 DEF ReadCrcLow, Await, CrcTypes
  <2>5. CASE ReadEnd(b)
    BY <2>5, EmptySeq DEF ReadEnd, Await, AfterEnd, CrcTypes
  <2>6. CASE Overrun
    BY <2>6 DEF Overrun, parser, CrcTypes
  <2>7. CASE ReadStart(b) \/ ReadLengthHigh(b) \/ ReadLengthLow(b) \/ ReadData(b)
    BY <2>7
    DEF ReadStart, ReadLengthHigh, ReadLengthLow, ReadData, Await, CrcTypes
  <2> QED
    BY <2>1, <2>3, <2>4, <2>5, <2>6, <2>7 DEF packet_process_byte
<1> QED
  BY <1>1, <1>2, LineSteps DEF Still, Loses, Puts

\* What every state of the line satisfies.
LineInv == LineTypes /\ Drained /\ CrcTypes

\* It holds at first.
LEMMA LineInit == Init => LineInv
<1> SUFFICES ASSUME Init PROVE LineInv
  OBVIOUS
<1>1. Plain(0) \in Bytes
  BY ByteFacts
<1>2. serial_rx_buffer \in [Slots -> Bytes] /\ 0 \in Slots
  BY <1>1, RingSize DEF Init, Slots
<1>3. LineTypes
  BY <1>2, RingSize, EmptySeq DEF Init, LineTypes
<1>4. Drained
  BY DEF Init, Drained
<1>5. CrcTypes
  BY EmptySeq DEF Init, PacketInit, CrcTypes
<1> QED
  BY <1>3, <1>4, <1>5 DEF LineInv

-----------------------------------------------------------------------------
(* The packets that may still be handled are among those that are pending,  *)
(* in the same order.                                                       *)

\* m, a function on some numbers, is found in sequence s in order.
FoundIn(m, s) ==
  \E f \in [DOMAIN m -> 1..Len(s)] :
    /\ \A k \in DOMAIN m : s[f[k]] = m[k]
    /\ \A j, k \in DOMAIN m : j < k => f[j] < f[k]

\* What is found of m1 stays found if it is only moved or left out,
LEMMA FoundPart ==
  ASSUME NEW m, NEW m1, NEW s, FoundIn(m, s), DOMAIN m \subseteq Nat,
         DOMAIN m1 \subseteq Nat,
         NEW g \in [DOMAIN m1 -> DOMAIN m],
         \A k \in DOMAIN m1 : m1[k] = m[g[k]],
         \A j, k \in DOMAIN m1 : j < k => g[j] < g[k]
  PROVE  FoundIn(m1, s)
<1>1. PICK f \in [DOMAIN m -> 1..Len(s)] :
        /\ \A k \in DOMAIN m : s[f[k]] = m[k]
        /\ \A j, k \in DOMAIN m : j < k => f[j] < f[k]
  BY DEF FoundIn
<1> DEFINE f1 == [k \in DOMAIN m1 |-> f[g[k]]]
<1>2. f1 \in [DOMAIN m1 -> 1..Len(s)]
  OBVIOUS
<1>3. \A k \in DOMAIN m1 : s[f1[k]] = m1[k]
  BY <1>1
<1>4. \A j, k \in DOMAIN m1 : j < k => f1[j] < f1[k]
  BY <1>1
<1> QED
  BY <1>2, <1>3, <1>4 DEF FoundIn

\* if the sequence grows with it,
LEMMA FoundMore ==
  ASSUME NEW S, NEW m, NEW m1, NEW s \in Seq(S), NEW p \in S, NEW x \in Nat,
         FoundIn(m, s),
         DOMAIN m \subseteq Nat, DOMAIN m1 \subseteq DOMAIN m \union {x},
         \A k \in DOMAIN m : k < x,
         \A k \in DOMAIN m1 \ {x} : m1[k] = m[k],
         x \in DOMAIN m1 => m1[x] = p
  PROVE  FoundIn(m1, Append(s, p))
<1>1. PICK f \in [DOMAIN m -> 1..Len(s)] :
        /\ \A k \in DOMAIN m : s[f[k]] = m[k]
        /\ \A j, k \in DOMAIN m : j < k => f[j] < f[k]
  BY DEF FoundIn
<1> DEFINE s1 == Append(s, p)
           f1 == [k \in DOMAIN m1 |-> IF k = x THEN Len(s) + 1 ELSE f[k]]
<1>2. /\ Len(s) \in Nat /\ Len(s1) = Len(s) + 1 /\ s1[Len(s) + 1] = p
      /\ \A i \in 1..Len(s) : s1[i] = s[i]
  BY AppendProperties, LenProperties
<1> HIDE DEF s1
<1>3. \A k \in DOMAIN m1 \ {x} : k \in DOMAIN m /\ f[k] \in 1..Len(s) /\ k < x
  OBVIOUS
<1>4. f1 \in [DOMAIN m1 -> 1..Len(s1)]
  BY <1>2, <1>3
<1>5. \A k \in DOMAIN m1 : s1[f1[k]] = m1[k]
  BY <1>1, <1>2, <1>3
<1>6. \A j, k \in DOMAIN m1 : j < k => f1[j] < f1[k]
  <2> SUFFICES ASSUME NEW j \in DOMAIN m1, NEW k \in DOMAIN m1, j < k
               PROVE  f1[j] < f1[k]
    OBVIOUS
  <2>1. j # x
    BY <1>3
  <2>2. CASE k = x
    BY <1>2, <1>3, <2>1, <2>2
  <2>3. CASE k # x
    BY <1>1, <1>3, <2>1, <2>3
  <2> QED
    BY <2>2, <2>3
<1> QED
  BY <1>4, <1>5, <1>6 DEF FoundIn, s1

\* and if the sequence loses what comes up to the first occurrence of m[a],
\* the first of them, which is itself left out.
RestFits(m, m1, s, s1, a, n, g) ==
  /\ FoundIn(m, s)
  /\ DOMAIN m \subseteq Nat /\ DOMAIN m1 \subseteq Nat /\ Len(s) \in Nat
  /\ a \in DOMAIN m /\ n \in 1..Len(s)
  /\ \A j \in 1..(n - 1) : s[j] # m[a]
  /\ Len(s1) = Len(s) - n /\ \A j \in 1..(Len(s) - n) : s1[j] = s[n + j]
  /\ g \in [DOMAIN m1 -> DOMAIN m]
  /\ \A k \in DOMAIN m1 : m1[k] = m[g[k]] /\ a < g[k]
  /\ \A j, k \in DOMAIN m1 : j < k => g[j] < g[k]

\* Then the rest is found in the rest.
LEMMA FoundRest ==
  ASSUME NEW m, NEW m1, NEW s, NEW s1, NEW a, NEW n, NEW g,
         RestFits(m, m1, s, s1, a, n, g)
  PROVE  FoundIn(m1, s1)
<1> USE DEF RestFits
<1>1. PICK f \in [DOMAIN m -> 1..Len(s)] :
        /\ \A k \in DOMAIN m : s[f[k]] = m[k]
        /\ \A j, k \in DOMAIN m : j < k => f[j] < f[k]
  BY DEF FoundIn
<1>2. n <= f[a]
  BY <1>1
<1>3. \A k \in DOMAIN m1 : g[k] \in DOMAIN m /\ f[a] < f[g[k]]
                           /\ f[g[k]] - n \in 1..(Len(s) - n)
                           /\ n + (f[g[k]] - n) = f[g[k]]
  BY <1>1, <1>2
<1> DEFINE f1 == [k \in DOMAIN m1 |-> f[g[k]] - n]
<1>4. f1 \in [DOMAIN m1 -> 1..Len(s1)]
  BY <1>3
<1>5. \A k \in DOMAIN m1 : s1[f1[k]] = m1[k]
  <2> SUFFICES ASSUME NEW k \in DOMAIN m1 PROVE s1[f[g[k]] - n] = m1[k]
    OBVIOUS
  <2>1. s1[f[g[k]] - n] = s[n + (f[g[k]] - n)]
    BY <1>3
  <2> QED
    BY <1>1, <1>3, <2>1
<1>6. \A j, k \in DOMAIN m1 : j < k => f1[j] < f1[k]
  BY <1>1, <1>3
<1> QED
  BY <1>4, <1>5, <1>6 DEF FoundIn

\* The second bytes of CRCs: index 0 is the one the parser has read before the
\* end byte it awaits.
Holding == process_state = "END" /\ packet_crc[2].half = 2
Marks == {k \in 0..Flight : IF k = 0 THEN Holding ELSE At(k).crc.half = 2}
Marked ==
  [k \in Marks |-> IF k = 0 THEN packet_crc[2].payload ELSE At(k).crc.payload]

\* Whatever can still be handled is pending, in the order in which it will be
\* handled.
InOrder == FoundIn(Marked, pending)

\* What is used of the bytes in flight and of their marks, in both states of a
\* step.
FlightOK == Flight \in Nat /\ \A k \in 1..Flight : At(k) \in Bytes

MarkedOK ==
  /\ DOMAIN Marked = Marks /\ Marks \subseteq 0..Flight /\ Marks \subseteq Nat
  /\ \A k \in Nat : k # 0 => (k \in Marks <=> k <= Flight /\ At(k).crc.half = 2)
  /\ 0 \in Marks <=> Holding
  /\ 0 \in Marks => Marked[0] = packet_crc[2].payload
  /\ \A k \in Marks : k # 0 => Marked[k] = At(k).crc.payload

\* It follows from the types,
LEMMA MarkedFacts == LineTypes => FlightOK /\ MarkedOK
<1> SUFFICES ASSUME LineTypes PROVE FlightOK /\ MarkedOK
  OBVIOUS
<1>0. FlightOK
  BY FlightFacts DEF FlightOK
<1>1. Flight \in Nat
  BY <1>0 DEF FlightOK
<1>2. \A k \in Nat : k # 0 => (k \in Marks <=> k <= Flight /\ At(k).crc.half = 2)
  BY <1>1 DEF Marks
<1>3. 0 \in Marks <=> Holding
  BY <1>1 DEF Marks
<1>4. DOMAIN Marked = Marks /\ Marks \subseteq 0..Flight /\ Marks \subseteq Nat
  BY <1>1 DEF Marked, Marks
<1>5. 0 \in Marks => Marked[0] = packet_crc[2].payload
  BY DEF Marked
<1>6. \A k \in Marks : k # 0 => Marked[k] = At(k).crc.payload
  BY DEF Marked
<1> QED
  BY <1>0, <1>2, <1>3, <1>4, <1>5, <1>6 DEF MarkedOK

\* in the second state of a step too.
LEMMA MarkedNext == (LineTypes => FlightOK /\ MarkedOK)'
BY MarkedFacts, PTL

\* An index stays within bounds when it is moved.
LEMMA ShiftFits ==
  \A f0, f1, n \in Nat : f1 + n <= f0 =>
    \A i \in 0..f1 : i # 0 =>
      i \in 1..f1 /\ i + n \in Nat /\ i + n # 0 /\ i + n <= f0 /\ i \in Nat
OBVIOUS

\* Bytes that leave unread, in front or behind.
LEMMA OrderMoved ==
  ASSUME LineTypes, LineTypes', InOrder,
         NEW n \in Nat, Flight' + n <= Flight,
         \A k \in 1..Flight' : At(k)' = At(k + n),
         UNCHANGED <<parser, pending>>
  PROVE  InOrder'
<1>1. Flight \in Nat /\ Flight' \in Nat
  BY MarkedFacts, MarkedNext DEF FlightOK
<1> DEFINE m1 == Marked'
           g == [k \in DOMAIN m1 |-> IF k = 0 THEN 0 ELSE k + n]
<1>2. /\ DOMAIN m1 \subseteq 0..Flight' /\ DOMAIN m1 = Marks'
      /\ DOMAIN Marked = Marks /\ Marks \subseteq Nat
  BY MarkedFacts, MarkedNext DEF MarkedOK
<1>3. Holding' = Holding /\ packet_crc' = packet_crc
  BY DEF parser, Holding
<1>4. ASSUME NEW k \in DOMAIN m1
      PROVE  g[k] \in DOMAIN Marked /\ m1[k] = Marked[g[k]]
  <2>1. CASE k = 0
    BY <1>2, <1>3, <2>1, MarkedFacts, MarkedNext DEF MarkedOK
  <2>2. CASE k # 0
    <3>0. PICK f0 \in Nat, f1 \in Nat : f0 = Flight /\ f1 = Flight'
      BY <1>1
    <3> HIDE DEF m1, g
    <3>a. k \in 0..f1 /\ f1 + n <= f0 /\ k # 0
      BY <1>2, <2>2, <3>0
    <3>b. k \in 1..f1 /\ k + n \in Nat /\ k + n # 0 /\ k + n <= f0 /\ k \in Nat
      BY <3>a, ShiftFits
    <3>1. k \in 1..Flight' /\ k + n \in Nat /\ k + n # 0 /\ k + n <= Flight /\ k \in Nat
      BY <3>0, <3>b
    <3>2. At(k)' = At(k + n)
      BY <3>1
    <3>3. At(k)'.crc.half = 2 /\ m1[k] = At(k)'.crc.payload
      BY <1>2, <2>2, <3>1, MarkedNext DEF MarkedOK, m1
    <3>4. k + n \in Marks /\ Marked[k + n] = At(k + n).crc.payload
      BY <3>1, <3>2, <3>3, MarkedFacts DEF MarkedOK
    <3> QED
      BY <1>2, <2>2, <3>2, <3>3, <3>4 DEF g
  <2> QED
    BY <2>1, <2>2
<1>5. g \in [DOMAIN m1 -> DOMAIN Marked]
  BY <1>4
<1>6. \A j, k \in DOMAIN m1 : j < k => g[j] < g[k]
  BY <1>1, <1>2
<1>7. DOMAIN m1 \subseteq Nat
  BY <1>1, <1>2
<1> HIDE DEF g, m1
<1>8. FoundIn(m1, pending)
  BY <1>2, <1>4, <1>5, <1>6, <1>7, FoundPart DEF InOrder
<1> QED
  BY <1>8 DEF InOrder, m1

\* The host sends a byte: if it completes a CRC, its packet is the last one
\* pending.
LEMMA OrderPut ==
  ASSUME LineTypes, LineTypes', InOrder, Len(pending) < MaxPending,
         NEW bytes, Puts(bytes)
  PROVE  InOrder'
<1>1. Flight \in Nat /\ Flight' = Flight + 1
  BY FlightFacts DEF Puts
<1>x. PICK x \in Nat : x = Flight + 1 /\ x # 0
  BY <1>1
<1> DEFINE m1 == Marked'
           b == Head(bytes)
<1>2. b \in Bytes
  BY HeadTailProperties DEF Puts
<1>3. x \in Nat /\ x # 0 /\ At(x)' = b
  BY <1>x DEF Puts
<1>4. /\ DOMAIN m1 \subseteq 0..Flight' /\ DOMAIN m1 = Marks'
      /\ DOMAIN Marked = Marks /\ Marks \subseteq Nat /\ Marks \subseteq 0..Flight
  BY MarkedFacts, MarkedNext DEF MarkedOK
<1>5. Holding' = Holding /\ packet_crc' = packet_crc
  BY DEF Puts, parser, Holding
<1>6. ASSUME NEW k \in DOMAIN m1, k # x
      PROVE  k \in DOMAIN Marked /\ m1[k] = Marked[k]
  <2>1. CASE k = 0
    BY <1>4, <1>5, <2>1, MarkedFacts, MarkedNext DEF MarkedOK
  <2>2. CASE k # 0
    <3>1. k \in 1..Flight /\ k \in Nat /\ k <= Flight
      BY <1>1, <1>4, <1>6, <1>x, <2>2
    <3>2. At(k)' = At(k)
      BY <3>1 DEF Puts
    <3>3. At(k)'.crc.half = 2 /\ m1[k] = At(k)'.crc.payload
      BY <1>4, <2>2, <3>1, MarkedNext DEF MarkedOK
    <3>4. k \in Marks /\ Marked[k] = At(k).crc.payload
      BY <2>2, <3>1, <3>2, <3>3, MarkedFacts DEF MarkedOK
    <3> QED
      BY <1>4, <3>2, <3>3, <3>4
  <2> QED
    BY <2>1, <2>2
<1>7. \A k \in DOMAIN Marked : k < x
  BY <1>1, <1>4, <1>x
<1>8. x \in DOMAIN m1 => b.crc.half = 2 /\ m1[x] = b.crc.payload
  <2> SUFFICES ASSUME x \in DOMAIN m1 PROVE b.crc.half = 2 /\ m1[x] = b.crc.payload
    OBVIOUS
  <2> HIDE DEF m1
  <2>1. At(x)'.crc.half = 2 /\ Marked'[x] = At(x)'.crc.payload
    BY <1>3, <1>4, MarkedNext DEF MarkedOK, m1
  <2> QED
    BY <1>3, <2>1 DEF m1
<1>9. pending' = Sent(b) /\ pending \in Seq(Payloads)
  BY DEF Puts, LineTypes
<1>10. DOMAIN m1 \subseteq Nat
  BY <1>1, <1>4
<1> HIDE DEF m1, b
<1>11. CASE b.crc.half # 2
  <2>1. pending' = pending
    BY <1>2, <1>9, <1>11, SentIs
  <2>2. x \notin DOMAIN m1
    BY <1>8, <1>11
  <2> DEFINE g == [k \in DOMAIN m1 |-> k]
  <2>3. g \in [DOMAIN m1 -> DOMAIN Marked]
    BY <1>6, <2>2
  <2>4. \A k \in DOMAIN m1 : m1[k] = Marked[g[k]]
    BY <1>6, <2>2
  <2>5. \A j, k \in DOMAIN m1 : j < k => g[j] < g[k]
    OBVIOUS
  <2> HIDE DEF g
  <2>6. FoundIn(m1, pending)
    BY <1>4, <1>10, <2>3, <2>4, <2>5, FoundPart DEF InOrder
  <2> QED
    BY <2>1, <2>6 DEF InOrder, m1
<1>12. CASE b.crc.half = 2
  <2>1. pending' = Append(pending, b.crc.payload) /\ b.crc.payload \in Payloads
    BY <1>2, <1>9, <1>12, SentIs
  <2> DEFINE p == b.crc.payload
  <2>2. x \in DOMAIN m1 => m1[x] = p
    BY <1>8
  <2>3. DOMAIN m1 \subseteq DOMAIN Marked \union {x}
    BY <1>6
  <2>4. p \in Payloads
    BY <2>1
  <2>5. \A k \in DOMAIN m1 \ {x} : m1[k] = Marked[k]
    BY <1>6
  <2> HIDE DEF p
  <2>6. x \in Nat
    BY <1>3
  <2>7. FoundIn(m1, Append(pending, p))
    BY <1>4, <1>7, <1>9, <2>2, <2>3, <2>4, <2>5, <2>6, FoundMore DEF InOrder
  <2> QED
    BY <2>1, <2>7 DEF InOrder, m1, p
<1> QED
  BY <1>11, <1>12

\* What the parser holds after a byte.
LEMMA HoldingAfter ==
  ASSUME CrcTypes, NEW b \in Bytes, packet_process_byte(b)
  PROVE  \/ ~Holding' /\ accepted' = NoPacket
         \/ accepted' = NoPacket /\ Holding' = Holding /\ packet_crc' = packet_crc
         \/ /\ accepted' = NoPacket
            /\ Holding' => b.crc.half = 2
            /\ packet_crc'[2].payload = b.crc.payload
         \/ /\ Holding /\ ~Holding'
            /\ packet_crc[2].payload = accepted' /\ accepted' \in Payloads
<1>1. CASE ReadEnd(b) /\ b.value # PACKET_END
  BY <1>1 DEF ReadEnd, Await, Holding
<1>2. CASE ReadEnd(b) /\ b.value = PACKET_END
  <2> DEFINE payload == SubSeq(packet_buffer, 1, packet_length)
  <2>1. /\ process_state = "END" /\ process_state' = "START"
        /\ accepted' = IF CrcMatches(payload) THEN payload ELSE NoPacket
    BY <1>2 DEF ReadEnd, AfterEnd
  <2>2. ~Holding'
    BY <2>1 DEF Holding
  <2> HIDE DEF payload
  <2>3. CASE CrcMatches(payload)
    <3>1. packet_crc = <<[payload |-> payload, half |-> 1],
                         [payload |-> payload, half |-> 2]>>
      BY <2>3 DEF CrcMatches, CrcOf
    <3>2. packet_crc[2] = [payload |-> payload, half |-> 2]
      BY <3>1
    <3>3. packet_crc \in Seq(Crcs) /\ Len(packet_crc) = 2
      BY <2>1 DEF CrcTypes
    <3>4. packet_crc[2] \in Crcs
      BY <3>3, ElementOfSeq
    <3>5. payload \in Payloads
      BY <3>2, <3>4 DEF Crcs, NotCrc
    <3>6. packet_crc[2].payload = payload /\ packet_crc[2].half = 2
      BY <3>2
    <3> QED
      BY <2>1, <2>2, <2>3, <3>5, <3>6 DEF Holding
  <2>4. CASE ~CrcMatches(payload)
    BY <2>1, <2>2, <2>4
  <2> QED
    BY <2>3, <2>4
<1>3. CASE ReadCrcLow(b)
  <2>1. packet_crc \in Seq(Crcs) /\ Len(packet_crc) = 1 /\ b.crc \in Crcs
    BY <1>3 DEF ReadCrcLow, CrcTypes, Bytes
  <2>2. packet_crc' = Append(packet_crc, b.crc) /\ accepted' = NoPacket
    BY <1>3 DEF ReadCrcLow, Await
  <2>3. Append(packet_crc, b.crc)[Len(packet_crc) + 1] = b.crc
    BY <2>1, AppendProperties
  <2>4. packet_crc'[2] = b.crc
    BY <2>1, <2>2, <2>3
  <2> QED
    BY <2>2, <2>4 DEF Holding
<1>4. CASE Overrun
  <2>1. process_state = "OVERRUN" /\ UNCHANGED parser
    BY <1>4 DEF Overrun
  <2> QED
    BY <2>1 DEF Holding, parser, CrcTypes
<1>5. CASE ReadStart(b) \/ ReadLengthHigh(b) \/ ReadLengthLow(b) \/ ReadData(b)
           \/ ReadCrcHigh(b)
  BY <1>5
  DEF ReadStart, ReadLengthHigh, ReadLengthLow, ReadData, ReadCrcHigh, Await, Holding
<1> QED
  BY <1>1, <1>2, <1>3, <1>4, <1>5 DEF packet_process_byte

\* The parser reads a byte: a packet that it accepts is pending, and what was
\* sent before it is given up.
LEMMA OrderTaken ==
  ASSUME LineTypes, LineTypes', CrcTypes, InOrder, Takes
  PROVE  /\ InOrder'
         /\ accepted' # NoPacket =>
              \E n \in 1..Len(pending) : pending' = SubSeq(pending, n + 1, Len(pending))
<1>1. Flight \in Nat /\ Flight' \in Nat /\ Flight' + 1 <= Flight /\ Flight >= 1
  BY MarkedFacts, MarkedNext DEF FlightOK, Takes, Leave
<1> DEFINE m1 == Marked'
           b == At(1)
<1>2. /\ DOMAIN m1 \subseteq 0..Flight' /\ DOMAIN m1 = Marks' /\ DOMAIN m1 \subseteq Nat
      /\ DOMAIN Marked = Marks /\ Marks \subseteq Nat
  BY MarkedFacts, MarkedNext DEF MarkedOK
<1>3. b \in Bytes /\ packet_process_byte(b)
  <2>1. 1 \in 1..Flight
    BY <1>1
  <2> QED
    BY <2>1, MarkedFacts DEF FlightOK, Takes
<1>4. ASSUME NEW k \in DOMAIN m1, k # 0
      PROVE  k + 1 \in DOMAIN Marked /\ m1[k] = Marked[k + 1]
  <2>1. /\ k \in 1..Flight' /\ k + 1 \in Nat /\ k + 1 # 0 /\ k + 1 <= Flight
        /\ k \in Nat
    <3>1. PICK f0 \in Nat, f1 \in Nat : f0 = Flight /\ f1 = Flight'
      BY <1>1
    <3> HIDE DEF m1
    <3>2. k \in 0..f1 /\ f1 + 1 <= f0 /\ k # 0
      BY <1>1, <1>2, <1>4, <3>1
    <3>3. k \in 1..f1 /\ k + 1 \in Nat /\ k + 1 # 0 /\ k + 1 <= f0 /\ k \in Nat
      BY <3>2, ShiftFits
    <3> QED
      BY <3>1, <3>3
  <2>2. At(k)' = At(k + 1)
    BY <2>1 DEF Takes, Leave
  <2>3. At(k)'.crc.half = 2 /\ m1[k] = At(k)'.crc.payload
    BY <1>2, <1>4, <2>1, MarkedNext DEF MarkedOK
  <2>4. k + 1 \in Marks /\ Marked[k + 1] = At(k + 1).crc.payload
    BY <2>1, <2>2, <2>3, MarkedFacts DEF MarkedOK
  <2> QED
    BY <1>2, <2>2, <2>3, <2>4
<1>5. 0 \in DOMAIN m1 => Holding' /\ m1[0] = packet_crc'[2].payload
  BY <1>2, MarkedNext DEF MarkedOK
<1>6. Holding => 0 \in DOMAIN Marked /\ Marked[0] = packet_crc[2].payload
  BY <1>2, MarkedFacts DEF MarkedOK
<1>7. b.crc.half = 2 => 1 \in DOMAIN Marked /\ Marked[1] = b.crc.payload
  <2>1. 1 \in Nat /\ 1 # 0 /\ 1 <= Flight
    BY <1>1
  <2>2. b.crc.half = 2 => 1 \in Marks
    BY <2>1, MarkedFacts DEF MarkedOK
  <2> QED
    BY <1>2, <2>1, <2>2, MarkedFacts DEF MarkedOK
<1>8. pending \in Seq(Payloads)
  BY DEF LineTypes
\* No packet is accepted: the parser goes on holding what it held, or now
\* holds what the byte brought.
<1>9. ASSUME accepted' = NoPacket, NEW z \in {0, 1},
             0 \in DOMAIN m1 => z \in DOMAIN Marked /\ m1[0] = Marked[z]
      PROVE  InOrder'
  <2> DEFINE g == [k \in DOMAIN m1 |-> IF k = 0 THEN z ELSE k + 1]
  <2> HIDE DEF m1
  <2>1. g \in [DOMAIN m1 -> DOMAIN Marked]
    BY <1>4, <1>9
  <2>2. \A k \in DOMAIN m1 : m1[k] = Marked[g[k]]
    BY <1>4, <1>9
  <2>3. \A j, k \in DOMAIN m1 : j < k => g[j] < g[k]
    BY <1>2
  <2> HIDE DEF g
  <2>4. FoundIn(m1, pending)
    BY <1>2, <2>1, <2>2, <2>3, FoundPart DEF InOrder
  <2>5. pending' = pending
    BY <1>9 DEF Takes
  <2> QED
    BY <2>4, <2>5 DEF InOrder, m1
\* The packet that the parser held is accepted.
<1>10. ASSUME Holding, ~Holding', packet_crc[2].payload = accepted',
              accepted' \in Payloads
       PROVE  InOrder' /\ \E n \in 1..Len(pending) :
                            pending' = SubSeq(pending, n + 1, Len(pending))
  <2> DEFINE g == [k \in DOMAIN m1 |-> k + 1]
  <2>1. 0 \in DOMAIN Marked /\ Marked[0] = accepted' /\ 0 \notin DOMAIN m1
    BY <1>5, <1>6, <1>10
  <2>2. accepted' # NoPacket
    BY <1>10, PayloadFacts
  <2>3. \E i \in DOMAIN pending : pending[i] = accepted'
    <3>1. PICK f \in [DOMAIN Marked -> 1..Len(pending)] :
            \A k \in DOMAIN Marked : pending[f[k]] = Marked[k]
      BY DEF InOrder, FoundIn
    <3>2. f[0] \in 1..Len(pending) /\ pending[f[0]] = accepted'
      BY <2>1, <3>1
    <3> QED
      BY <1>8, <3>2, LenProperties
  <2>4. pending' = After(accepted')
    BY <2>2, <2>3 DEF Takes
  <2>p. PICK p : p = accepted'
    OBVIOUS
  <2>5. PICK n \in 1..Len(pending) :
           /\ pending[n] = p /\ \A j \in 1..(n - 1) : pending[j] # p
           /\ After(p) = SubSeq(pending, n + 1, Len(pending))
           /\ Len(After(p)) = Len(pending) - n
           /\ \A j \in 1..(Len(pending) - n) : After(p)[j] = pending[n + j]
    <3>1. \E i \in DOMAIN pending : pending[i] = p
      BY <2>3, <2>p
    <3> QED
      BY <1>8, <3>1, AfterIs
  <2>s. PICK s1 : s1 = After(p)
    OBVIOUS
  <2>6. pending' = s1
    BY <2>4, <2>p, <2>s
  <2> HIDE DEF m1
  <2>7. g \in [DOMAIN m1 -> DOMAIN Marked]
    BY <1>4, <2>1
  <2>8. \A k \in DOMAIN m1 : m1[k] = Marked[g[k]] /\ 0 < g[k]
    BY <1>2, <1>4, <2>1
  <2>9. \A j, k \in DOMAIN m1 : j < k => g[j] < g[k]
    BY <1>2
  <2> HIDE DEF g
  <2>10. /\ Len(s1) = Len(pending) - n
         /\ \A j \in 1..(Len(pending) - n) : s1[j] = pending[n + j]
         /\ \A j \in 1..(n - 1) : pending[j] # Marked[0]
         /\ Len(pending) \in Nat
    BY <1>8, <2>1, <2>5, <2>p, <2>s, LenProperties
  <2>11. FoundIn(m1, s1)
    <3>1. RestFits(Marked, m1, pending, s1, 0, n, g)
      BY <1>2, <2>1, <2>7, <2>8, <2>9, <2>10 DEF InOrder, RestFits
    <3> QED
      BY <3>1, FoundRest
  <2>12. InOrder'
    BY <2>6, <2>11 DEF InOrder, m1
  <2>13. pending' = SubSeq(pending, n + 1, Len(pending))
    BY <2>5, <2>6, <2>s
  <2> QED
    BY <2>12, <2>13
<1>11. \/ ~Holding' /\ accepted' = NoPacket
       \/ accepted' = NoPacket /\ Holding' = Holding /\ packet_crc' = packet_crc
       \/ /\ accepted' = NoPacket
          /\ Holding' => b.crc.half = 2
          /\ packet_crc'[2].payload = b.crc.payload
       \/ /\ Holding /\ ~Holding'
          /\ packet_crc[2].payload = accepted' /\ accepted' \in Payloads
  BY <1>3, HoldingAfter
<1> HIDE DEF m1, b
<1>12. CASE ~Holding' /\ accepted' = NoPacket
  BY <1>5, <1>9, <1>12
<1>13. CASE accepted' = NoPacket /\ Holding' = Holding /\ packet_crc' = packet_crc
  BY <1>5, <1>6, <1>9, <1>13
<1>14. CASE /\ accepted' = NoPacket
            /\ Holding' => b.crc.half = 2
            /\ packet_crc'[2].payload = b.crc.payload
  BY <1>5, <1>7, <1>9, <1>14
<1> QED
  BY <1>10, <1>11, <1>12, <1>13, <1>14

-----------------------------------------------------------------------------
\* The inductive invariant of the refinement.
OrderInv == LineInv /\ InOrder

\* It is kept as long as no packet that was sent is forgotten,
LEMMA OrderKept ==
  ASSUME OrderInv, [Next]_vars, Len(pending) < MaxPending
  PROVE  OrderInv'
<1>1. LineTypes /\ LineTypes' /\ CrcTypes /\ LineInv'
  BY LineKept, DrainedKept, CrcKept DEF OrderInv, LineInv
<1>2. Flight \in Nat /\ Flight' \in Nat
  BY <1>1, MarkedFacts, MarkedNext DEF FlightOK
<1>3. CASE Still
  <2>a. Flight' + 0 = Flight /\ UNCHANGED <<parser, pending>>
    BY <1>3 DEF Still, Leave
  <2>1. 0 \in Nat /\ Flight' + 0 <= Flight
    <3>1. \A i \in Nat : i <= i
      OBVIOUS
    <3> QED
      BY <1>2, <2>a, <3>1
  <2>2. \A k \in 1..Flight' : At(k)' = At(k + 0)
    BY <1>3 DEF Still, Leave
  <2> QED
    BY <1>1, <2>1, <2>2, <2>a, OrderMoved DEF OrderInv
<1>4. CASE Loses
  <2>1. PICK n \in Nat : /\ Flight' + n <= Flight
                         /\ \A k \in 1..Flight' : At(k)' = At(k + n)
    BY <1>4 DEF Loses
  <2> QED
    BY <1>1, <1>4, <2>1, OrderMoved DEF OrderInv, Loses
<1>5. CASE \E bytes : Puts(bytes)
  BY <1>1, <1>5, OrderPut DEF OrderInv
<1>6. CASE Takes
  BY <1>1, <1>6, OrderTaken DEF OrderInv
<1> QED
  BY <1>1, <1>3, <1>4, <1>5, <1>6, LineSteps

\* and holds at first.
LEMMA OrderInit == Init => OrderInv
<1> SUFFICES ASSUME Init PROVE OrderInv
  OBVIOUS
<1>1. LineInv
  BY LineInit
<1>2. Flight \in Nat /\ DOMAIN Marked = Marks
  BY <1>1, MarkedFacts DEF LineInv, FlightOK, MarkedOK
<1>3. Flight = 0
  <2>1. Rd = 0 /\ serial_rx_write_pos = 0 /\ queue = <<>> /\ 0 \in Slots
    BY RingSize DEF Init, Rd, Wrap, Slots
  <2> QED
    BY <2>1, HeldBounds, EmptySeq DEF Flight, InFlight
<1>4. ~Holding
  BY DEF Init, PacketInit, Holding
<1>5. Marks = {}
  BY <1>3, <1>4 DEF Marks
<1>6. FoundIn(Marked, pending)
  <2> DEFINE f == [k \in {} |-> 1]
  <2>1. f \in [DOMAIN Marked -> 1..Len(pending)]
    BY <1>2, <1>5
  <2> QED
    BY <1>2, <1>5, <2>1 DEF FoundIn
<1> QED
  BY <1>1, <1>6 DEF OrderInv, InOrder

\* The history variable has room for another packet: the model has forgotten
\* none that was sent.
Remembered == Len(pending) < MaxPending

\* Every step is a step of the link, or none.
LEMMA LinkSteps ==
  ASSUME OrderInv, [Next]_vars, Remembered
  PROVE  [Link!LinkNext]_<<pending, handled>>
<1>1. LineTypes /\ LineTypes' /\ CrcTypes /\ InOrder
  BY LineKept DEF OrderInv, LineInv
<1>2. CASE Still \/ Loses
  BY <1>2 DEF Still, Loses
<1>3. ASSUME NEW bytes, Puts(bytes)
      PROVE  [Link!LinkNext]_<<pending, handled>>
  <2> DEFINE b == Head(bytes)
  <2>1. b \in Bytes /\ pending' = Sent(b) /\ handled' = handled
    BY <1>3, HeadTailProperties DEF Puts
  <2>2. pending \in Seq(Payloads) /\ Len(pending) \in Nat
    BY <1>1 DEF LineTypes
  <2> HIDE DEF b
  <2>3. CASE b.crc.half # 2
    BY <2>1, <2>2, <2>3, SentIs
  <2>4. CASE b.crc.half = 2
    <3>1. pending' = Append(pending, b.crc.payload) /\ b.crc.payload \in Payloads
      BY <2>1, <2>2, <2>4, SentIs DEF Remembered
    <3>2. Link!Suffix(pending, 0) = pending /\ 0 \in 0..Len(pending)
      <4>1. SubSeq(pending, 1, Len(pending)) = pending
        BY <2>2, SubSeqFull
      <4> QED
        BY <2>2, <4>1 DEF Link!Suffix
    <3>3. Link!Send(b.crc.payload)
      BY <2>1, <3>1, <3>2 DEF Link!Send
    <3> QED
      BY <3>1, <3>3 DEF Link!LinkNext
  <2> QED
    BY <2>3, <2>4
<1>4. CASE Takes
  <2>1. CASE accepted' = NoPacket
    BY <1>4, <2>1 DEF Takes
  <2>2. CASE accepted' # NoPacket
    <3>1. PICK n \in 1..Len(pending) : pending' = SubSeq(pending, n + 1, Len(pending))
      BY <1>1, <1>4, <2>2, OrderTaken
    <3>2. Link!Handle(n)
      BY <1>4, <2>2, <3>1 DEF Takes, Link!Handle, Link!Suffix
    <3> QED
      BY <3>2 DEF Link!LinkNext
  <2> QED
    BY <2>1, <2>2
<1> QED
  BY <1>1, <1>2, <1>3, <1>4, LineSteps

\* Ring, queue and parser implement the link of PacketLink: what process_packet
\* is called with was sent by the host, in this order and each packet at most
\* once, whatever bytes disconnections and an overwritten ring take out of the
\* line, for rings, queues, buffers and payloads of every size (packet.c:47,
\* comm_usb.c:378), as long as the history remembers what was sent.
THEOREM Refinement == Spec /\ []Remembered => ImplementsLink
<1>1. Init => OrderInv /\ Link!LinkInit
  BY OrderInit DEF Init, Link!LinkInit
<1>2. OrderInv /\ [Next]_vars /\ Remembered => OrderInv'
  BY OrderKept DEF Remembered
<1>3. OrderInv /\ [Next]_vars /\ Remembered => [Link!LinkNext]_<<pending, handled>>
  BY LinkSteps
<1> QED
  BY <1>1, <1>2, <1>3, PTL DEF Spec, ImplementsLink, Link!LinkSpec

-----------------------------------------------------------------------------
(* A line that loses nothing: the parser and the packets it reads.          *)

\* The parser after byte i of the packet with payload p; before any packet i
\* is 0.
ParserAt(p, i) ==
  /\ i \in Nat
  /\ i = 0 => process_state = "START"
  /\ i # 0 =>
       /\ p \in Payloads /\ i <= Size(p)
       /\ i < HeaderLen(p) => packet_buffer = <<>>
       /\ i < HeaderLen(p) /\ HeaderLen(p) = 3 /\ i = 1 =>
            process_state = "LENGTH_HIGH"
       /\ i = HeaderLen(p) - 1 =>
            /\ process_state = "LENGTH_LOW"
            /\ packet_length = IF HeaderLen(p) = 3 THEN (Len(p) \div Radix) * Radix
                               ELSE 0
       /\ HeaderLen(p) <= i /\ i <= HeaderLen(p) + Len(p) + 2 =>
            packet_length = Len(p)
       /\ HeaderLen(p) <= i /\ i < HeaderLen(p) + Len(p) =>
            /\ process_state = "DATA"
            /\ packet_buffer \in Seq(Values)
            /\ Len(packet_buffer) = i - HeaderLen(p)
            /\ \A j \in 1..(i - HeaderLen(p)) : packet_buffer[j] = p[j]
       /\ HeaderLen(p) + Len(p) <= i /\ i <= HeaderLen(p) + Len(p) + 2 =>
            packet_buffer = p
       /\ i = HeaderLen(p) + Len(p) => process_state = "CRC_HIGH"
       /\ i = HeaderLen(p) + Len(p) + 1 =>
            process_state = "CRC_LOW" /\ packet_crc = <<[payload |-> p, half |-> 1]>>
       /\ i = HeaderLen(p) + Len(p) + 2 =>
            process_state = "END" /\ packet_crc = CrcOf(p)
       /\ i = Size(p) => process_state = "START"

\* Byte j of the packet with payload q follows byte i of that with payload p.
Follows(p, i, q, j) ==
  \/ (i = 0 \/ i = Size(p)) /\ j = 1
  \/ i # 0 /\ i < Size(p) /\ q = p /\ j = i + 1

\* The two bytes of a length, put together.
LEMMA DivMod ==
  ASSUME NEW n \in Nat, NEW r \in Nat, r > 0
  PROVE  (n \div r) * r + (n % r) = n
OBVIOUS

\* packet_process_byte in each of its states: the start byte,
LEMMA FirstByteRead ==
  ASSUME NEW q \in Payloads, process_state = "START",
         packet_process_byte(packet_send_packet(q)[1])
  PROVE  ParserAt(q, 1)' /\ accepted' = NoPacket
<1> DEFINE b == packet_send_packet(q)[1]
           h == HeaderLen(q)
           n == Len(q)
<1>1. h \in {2, 3} /\ n \in Nat /\ n >= 1 /\ Size(q) = h + n + 3
  BY PayloadFacts DEF Size
<1>2. /\ PACKET_START \in Int /\ PACKET_LONG_START \in Int
      /\ PACKET_START # PACKET_LONG_START
  BY PacketAssumption DEF Values
<1>3. b.value = IF h = 3 THEN PACKET_LONG_START ELSE PACKET_START
  BY <1>1, <1>2, PacketBytes, ByteFacts
<1>4. ReadStart(b)
  BY DEF packet_process_byte, ReadLengthHigh, ReadLengthLow, ReadData, ReadCrcHigh,
         ReadCrcLow, ReadEnd, Overrun
<1> HIDE DEF b, h, n
<1>5. /\ packet_buffer' = <<>> /\ packet_length' = 0 /\ accepted' = NoPacket
      /\ process_state' = IF h = 3 THEN "LENGTH_HIGH" ELSE "LENGTH_LOW"
  BY <1>1, <1>2, <1>3, <1>4 DEF ReadStart, Await
<1>6. 1 \in Nat /\ 1 # 0 /\ 1 <= Size(q) /\ 1 < h /\ (1 = h - 1 <=> h = 2)
      /\ ~(h <= 1) /\ ~(h + n <= 1) /\ 1 # h + n /\ 1 # h + n + 1 /\ 1 # h + n + 2
      /\ 1 # Size(q)
  BY <1>1
<1> QED
  BY <1>1, <1>5, <1>6 DEF ParserAt, h, n

\* the high byte of the length of a long packet,
LEMMA LengthHighRead ==
  ASSUME NEW p \in Payloads, HeaderLen(p) = 3, ParserAt(p, 1),
         packet_process_byte(packet_send_packet(p)[2])
  PROVE  ParserAt(p, 2)' /\ accepted' = NoPacket
<1> DEFINE b == packet_send_packet(p)[2]
           h == HeaderLen(p)
           n == Len(p)
<1>1. h = 3 /\ n \in Nat /\ n >= 1 /\ Size(p) = h + n + 3
  BY PayloadFacts DEF Size
<1>2. b.value = n \div Radix
  <2>1. n \div Radix \in Int
    BY <1>1, PacketAssumption
  <2> QED
    BY <1>1, <2>1, PacketBytes, ByteFacts
<1>3. process_state = "LENGTH_HIGH" /\ packet_buffer = <<>>
  BY <1>1 DEF ParserAt
<1>4. ReadLengthHigh(b)
  BY <1>3
  DEF packet_process_byte, ReadStart, ReadLengthLow, ReadData, ReadCrcHigh,
      ReadCrcLow, ReadEnd, Overrun
<1> HIDE DEF b, h, n
<1>5. /\ packet_buffer' = <<>> /\ packet_length' = (n \div Radix) * Radix
      /\ accepted' = NoPacket /\ process_state' = "LENGTH_LOW"
  BY <1>2, <1>3, <1>4 DEF ReadLengthHigh, Await, HighByte
<1>6. /\ 2 \in Nat /\ 2 # 0 /\ 2 <= Size(p) /\ 2 = h - 1 /\ 2 # 1
      /\ ~(h <= 2) /\ ~(h + n <= 2) /\ 2 # h + n /\ 2 # h + n + 1 /\ 2 # h + n + 2
      /\ 2 # Size(p)
  BY <1>1
<1> QED
  BY <1>1, <1>5, <1>6 DEF ParserAt, h, n

\* the low byte of the length, or its only one,
LEMMA LengthLowRead ==
  ASSUME NEW p \in Payloads, NEW i, i = HeaderLen(p) - 1, ParserAt(p, i),
         packet_process_byte(packet_send_packet(p)[i + 1])
  PROVE  ParserAt(p, i + 1)' /\ accepted' = NoPacket
<1> DEFINE b == packet_send_packet(p)[i + 1]
           h == HeaderLen(p)
           n == Len(p)
<1>1. /\ h \in {2, 3} /\ n \in Nat /\ n >= 1 /\ Size(p) = h + n + 3
      /\ i + 1 = h /\ i \in Nat /\ i # 0
  BY PayloadFacts DEF Size
<1>r. Radix \in Nat /\ Radix > 0
  BY PacketAssumption
<1>2. b.value = IF h = 3 THEN n % Radix ELSE n
  <2>1. n % Radix \in Int
    BY <1>1, <1>r
  <2>2. b = packet_send_packet(p)[h]
    BY <1>1
  <2>3. b = Plain(IF h = 3 THEN n % Radix ELSE n)
    BY <2>2, PacketBytes
  <2> HIDE DEF b, n, h
  <2>4. (IF h = 3 THEN n % Radix ELSE n) \in Int
    BY <1>1, <2>1
  <2> QED
    BY <2>3, <2>4, ByteFacts
<1>3. /\ process_state = "LENGTH_LOW" /\ packet_buffer = <<>>
      /\ packet_length = IF h = 3 THEN (n \div Radix) * Radix ELSE 0
  BY <1>1 DEF ParserAt
<1>4. ReadLengthLow(b)
  BY <1>3
  DEF packet_process_byte, ReadStart, ReadLengthHigh, ReadData, ReadCrcHigh,
      ReadCrcLow, ReadEnd, Overrun
<1> HIDE DEF b, h, n
<1>5. /\ packet_buffer' = <<>> /\ packet_length' = packet_length + b.value
      /\ accepted' = NoPacket /\ process_state' = "DATA"
  BY <1>3, <1>4 DEF ReadLengthLow, Await
<1>6. packet_length' = n
  <2>1. (n \div Radix) * Radix + (n % Radix) = n
    BY <1>1, <1>r, DivMod
  <2> QED
    BY <1>1, <1>2, <1>3, <1>5, <2>1
<1>7. /\ h \in Nat /\ h # 0 /\ h <= Size(p) /\ ~(h < h) /\ h # h - 1 /\ h <= h
      /\ h <= h + n + 2 /\ h < h + n /\ h - h = 0 /\ 1..(h - h) = {} /\ ~(h + n <= h)
      /\ h # h + n /\ h # h + n + 1 /\ h # h + n + 2 /\ h # Size(p)
  BY <1>1
<1>8. packet_buffer' \in Seq(Values) /\ Len(packet_buffer') = 0
  BY <1>5, EmptySeq
<1>9. ParserAt(p, h)'
  BY <1>1, <1>5, <1>6, <1>7, <1>8 DEF ParserAt, h, n
<1> QED
  BY <1>1, <1>5, <1>9

\* a byte of the payload, for which there is room,
LEMMA DataRead ==
  ASSUME NEW p \in Payloads, NEW i \in Nat, HeaderLen(p) <= i,
         i < HeaderLen(p) + Len(p), ParserAt(p, i),
         packet_process_byte(packet_send_packet(p)[i + 1])
  PROVE  ParserAt(p, i + 1)' /\ accepted' = NoPacket
<1> DEFINE b == packet_send_packet(p)[i + 1]
           h == HeaderLen(p)
           n == Len(p)
<1>1. /\ h \in {2, 3} /\ n \in Nat /\ n >= 1 /\ Size(p) = h + n + 3
      /\ BufferSize \in Nat /\ n <= BufferSize /\ p \in Seq(Values)
  BY PayloadFacts DEF Size
<1>0. i \in Nat /\ i # 0 /\ h <= i /\ i < h + n
  BY <1>1
<1>2. /\ process_state = "DATA" /\ packet_length = n /\ packet_buffer \in Seq(Values)
      /\ Len(packet_buffer) = i - h
      /\ \A j \in 1..(i - h) : packet_buffer[j] = p[j]
  <2>1. i <= h + n + 2
    BY <1>0, <1>1
  <2> QED
    BY <1>0, <2>1 DEF ParserAt
<1>3. PICK j \in 1..n : j = i + 1 - h /\ i + 1 = h + j /\ i - h = j - 1
  <2> HIDE DEF h, n
  <2> QED
    BY <1>0, <1>1
<1>4. b.value = p[j] /\ p[j] \in Values
  <2>1. b = packet_send_packet(p)[h + j]
    BY <1>3
  <2>2. b = Plain(p[j])
    BY <1>3, <2>1, PacketBytes
  <2>3. p[j] \in Values
    BY <1>1, <1>3, ElementOfSeq
  <2>4. p[j] \in Int
    BY <2>3, PacketAssumption DEF Values
  <2> HIDE DEF b
  <2> QED
    BY <2>2, <2>3, <2>4, ByteFacts
<1>5. ReadData(b)
  BY <1>2
  DEF packet_process_byte, ReadStart, ReadLengthHigh, ReadLengthLow, ReadCrcHigh,
      ReadCrcLow, ReadEnd, Overrun
<1> HIDE DEF b, h, n
<1>6. Len(packet_buffer) < BufferSize /\ Len(packet_buffer) # BufferSize
  BY <1>1, <1>2, <1>3
<1>7. /\ packet_buffer' = Append(packet_buffer, p[j]) /\ accepted' = NoPacket
      /\ process_state' = IF Len(packet_buffer') >= n THEN "CRC_HIGH" ELSE "DATA"
      /\ packet_length' = n
  BY <1>2, <1>4, <1>5, <1>6 DEF ReadData, Await, EndOfData
<1>8. /\ packet_buffer' \in Seq(Values) /\ Len(packet_buffer') = j
      /\ \A k \in 1..j : packet_buffer'[k] = p[k]
  <2>1. PICK s \in Seq(Values) : /\ s = packet_buffer /\ Len(s) = j - 1
                                 /\ \A k \in 1..(j - 1) : s[k] = p[k]
    BY <1>2, <1>3
  <2>2. PICK v \in Values : v = p[j]
    BY <1>4
  <2>3. /\ Append(s, v) \in Seq(Values) /\ Len(Append(s, v)) = Len(s) + 1
        /\ \A k \in 1..Len(s) : Append(s, v)[k] = s[k]
        /\ Append(s, v)[Len(s) + 1] = v
    BY AppendProperties
  <2>4. Len(Append(s, v)) = j /\ Append(s, v)[j] = p[j]
    BY <1>1, <1>3, <2>1, <2>2, <2>3
  <2>5. \A k \in 1..j : Append(s, v)[k] = p[k]
    BY <1>1, <1>3, <2>1, <2>3, <2>4
  <2> QED
    BY <1>7, <2>1, <2>2, <2>3, <2>4, <2>5
<1>9. PICK i1 \in Nat : i1 = i + 1 /\ i1 = h + j
  BY <1>0, <1>3
<1>10. /\ i1 # 0 /\ i1 <= Size(p) /\ ~(i1 < h) /\ i1 # h - 1 /\ h <= i1
       /\ i1 <= h + n + 2 /\ i1 - h = j /\ i1 # h + n + 1 /\ i1 # h + n + 2
       /\ i1 # Size(p) /\ (i1 < h + n <=> j < n) /\ (i1 = h + n <=> j = n)
       /\ (h + n <= i1 <=> j = n) /\ (j >= n <=> j = n) /\ (j < n <=> j # n)
  BY <1>1, <1>3, <1>9
<1>11. j = n => packet_buffer' = p
  <2>1. ASSUME j = n PROVE packet_buffer' = p
    <3>1. Len(p) = n
      BY DEF n
    <3> QED
      BY <1>1, <1>8, <2>1, <3>1, SeqEqual
  <2> QED
    BY <2>1
<1>12. ParserAt(p, i1)'
  <2>1. CASE j = n
    BY <1>7, <1>8, <1>9, <1>10, <1>11, <2>1 DEF ParserAt, h, n
  <2>2. CASE j # n
    BY <1>7, <1>8, <1>9, <1>10, <2>2 DEF ParserAt, h, n
  <2> QED
    BY <2>1, <2>2
<1> QED
  BY <1>7, <1>9, <1>12

\* the first byte of the CRC,
LEMMA CrcHighRead ==
  ASSUME NEW p \in Payloads, NEW i \in Nat, i = HeaderLen(p) + Len(p), ParserAt(p, i),
         packet_process_byte(packet_send_packet(p)[i + 1])
  PROVE  ParserAt(p, i + 1)' /\ accepted' = NoPacket
<1> DEFINE b == packet_send_packet(p)[i + 1]
           h == HeaderLen(p)
           n == Len(p)
<1>1. /\ h \in {2, 3} /\ n \in Nat /\ n >= 1 /\ Size(p) = h + n + 3
      /\ i = h + n
  BY PayloadFacts DEF Size
<1>2. /\ process_state = "CRC_HIGH" /\ packet_length = n /\ packet_buffer = p
  <2>1. i # 0 /\ h <= i /\ i <= h + n + 2 /\ h + n <= i
    BY <1>1
  <2> QED
    BY <1>1, <2>1 DEF ParserAt
<1>3. b.crc = [payload |-> p, half |-> 1]
  <2>1. b = CrcByte(p, 1)
    BY <1>1, PacketBytes
  <2> HIDE DEF b
  <2> QED
    BY <2>1, ByteFacts
<1>4. ReadCrcHigh(b)
  BY <1>2
  DEF packet_process_byte, ReadStart, ReadLengthHigh, ReadLengthLow, ReadData,
      ReadCrcLow, ReadEnd, Overrun
<1> HIDE DEF b, h, n
<1>5. /\ packet_buffer' = p /\ packet_length' = n /\ accepted' = NoPacket
      /\ process_state' = "CRC_LOW" /\ packet_crc' = <<[payload |-> p, half |-> 1]>>
  BY <1>2, <1>3, <1>4 DEF ReadCrcHigh, Await
<1>6. PICK i1 \in Nat : i1 = i + 1 /\ i1 = h + n + 1
  BY <1>1
<1>7. /\ i1 # 0 /\ i1 <= Size(p) /\ ~(i1 < h) /\ i1 # h - 1 /\ i1 <= h + n + 2
      /\ ~(i1 < h + n) /\ i1 # h + n /\ i1 # h + n + 2 /\ i1 # Size(p)
  BY <1>1, <1>6
<1>8. ParserAt(p, i1)'
  BY <1>5, <1>6, <1>7 DEF ParserAt, h, n
<1> QED
  BY <1>5, <1>6, <1>8

\* the second,
LEMMA CrcLowRead ==
  ASSUME NEW p \in Payloads, NEW i \in Nat, i = HeaderLen(p) + Len(p) + 1,
         ParserAt(p, i), packet_process_byte(packet_send_packet(p)[i + 1])
  PROVE  ParserAt(p, i + 1)' /\ accepted' = NoPacket
<1> DEFINE b == packet_send_packet(p)[i + 1]
           h == HeaderLen(p)
           n == Len(p)
<1>1. /\ h \in {2, 3} /\ n \in Nat /\ n >= 1 /\ Size(p) = h + n + 3
      /\ i = h + n + 1
  BY PayloadFacts DEF Size
<1>2. /\ process_state = "CRC_LOW" /\ packet_length = n /\ packet_buffer = p
      /\ packet_crc = <<[payload |-> p, half |-> 1]>>
  <2>1. i # 0 /\ h <= i /\ i <= h + n + 2 /\ h + n <= i
    BY <1>1
  <2> QED
    BY <1>1, <2>1 DEF ParserAt
<1>3. b.crc = [payload |-> p, half |-> 2]
  <2>0. i + 1 = h + n + 2
    BY <1>1
  <2>1. b = CrcByte(p, 2)
    BY <2>0, PacketBytes
  <2> HIDE DEF b
  <2> QED
    BY <2>1, ByteFacts
<1>4. ReadCrcLow(b)
  BY <1>2
  DEF packet_process_byte, ReadStart, ReadLengthHigh, ReadLengthLow, ReadData,
      ReadCrcHigh, ReadEnd, Overrun
<1> HIDE DEF b, h, n
<1>5. /\ packet_buffer' = p /\ packet_length' = n /\ accepted' = NoPacket
      /\ process_state' = "END" /\ packet_crc' = Append(packet_crc, b.crc)
  BY <1>2, <1>4 DEF ReadCrcLow, Await
<1>5a. packet_crc' = CrcOf(p)
  <2>1. ASSUME NEW x, NEW y PROVE Append(<<x>>, y) = <<x, y>>
    <3> DEFINE S == {x, y}
               s == Append(<<x>>, y)
               t == <<x, y>>
    <3>1. <<x>> \in Seq(S) /\ Len(<<x>>) = 1 /\ <<x>>[1] = x /\ y \in S
      OBVIOUS
    <3>2. /\ s \in Seq(S) /\ Len(s) = Len(<<x>>) + 1 /\ s[Len(<<x>>) + 1] = y
          /\ \A k \in 1..Len(<<x>>) : s[k] = <<x>>[k]
      BY <3>1, AppendProperties
    <3>3. t \in Seq(S) /\ Len(t) = 2 /\ t[1] = x /\ t[2] = y
      OBVIOUS
    <3> HIDE DEF s, t, S
    <3>4. Len(s) = 2 /\ s[1] = x /\ s[2] = y
      BY <3>1, <3>2
    <3>5. s = t
      BY <3>2, <3>3, <3>4, SeqEqual
    <3> QED
      BY <3>5 DEF s, t
  <2> QED
    BY <1>2, <1>3, <1>5, <2>1 DEF CrcOf
<1>6. PICK i1 \in Nat : i1 = i + 1 /\ i1 = h + n + 2
  BY <1>1
<1>7. /\ i1 # 0 /\ i1 <= Size(p) /\ ~(i1 < h) /\ i1 # h - 1 /\ i1 <= h + n + 2
      /\ ~(i1 < h + n) /\ i1 # h + n /\ i1 # h + n + 1 /\ i1 # Size(p)
  BY <1>1, <1>6
<1>8. ParserAt(p, i1)'
  BY <1>5, <1>5a, <1>6, <1>7 DEF ParserAt, h, n
<1> QED
  BY <1>5, <1>6, <1>8

\* and the end byte: the packet is accepted.
LEMMA EndRead ==
  ASSUME NEW p \in Payloads, NEW i \in Nat, i = HeaderLen(p) + Len(p) + 2,
         ParserAt(p, i), packet_process_byte(packet_send_packet(p)[i + 1])
  PROVE  ParserAt(p, i + 1)' /\ accepted' = p
<1> DEFINE b == packet_send_packet(p)[i + 1]
           h == HeaderLen(p)
           n == Len(p)
<1>1. /\ h \in {2, 3} /\ n \in Nat /\ n >= 1 /\ Size(p) = h + n + 3
      /\ i = h + n + 2 /\ p \in Seq(Values)
  BY PayloadFacts DEF Size
<1>2. /\ process_state = "END" /\ packet_length = n /\ packet_buffer = p
      /\ packet_crc = CrcOf(p)
  <2>1. i # 0 /\ h <= i /\ i <= h + n + 2 /\ h + n <= i
    BY <1>1
  <2> QED
    BY <1>1, <2>1 DEF ParserAt
<1>3. b.value = PACKET_END
  <2>0. i + 1 = h + n + 3 /\ PACKET_END \in Int
    BY <1>1, PacketAssumption DEF Values
  <2>1. b = Plain(PACKET_END)
    BY <2>0, PacketBytes
  <2> HIDE DEF b
  <2> QED
    BY <2>0, <2>1, ByteFacts
<1>4. ReadEnd(b)
  BY <1>2
  DEF packet_process_byte, ReadStart, ReadLengthHigh, ReadLengthLow, ReadData,
      ReadCrcHigh, ReadCrcLow, Overrun
<1>5. SubSeq(packet_buffer, 1, packet_length) = p
  BY <1>1, <1>2, SubSeqFull
<1> HIDE DEF b, h, n
<1>6. process_state' = "START" /\ accepted' = p
  BY <1>2, <1>3, <1>4, <1>5 DEF ReadEnd, AfterEnd, CrcMatches
<1>7. PICK i1 \in Nat : i1 = i + 1 /\ i1 = h + n + 3
  BY <1>1
<1>8. /\ i1 # 0 /\ i1 <= Size(p) /\ ~(i1 < h) /\ i1 # h - 1 /\ ~(i1 <= h + n + 2)
      /\ ~(i1 < h + n) /\ i1 # h + n /\ i1 # h + n + 1 /\ i1 # h + n + 2
  BY <1>1, <1>7
<1>9. ParserAt(p, i1)'
  BY <1>6, <1>7, <1>8 DEF ParserAt, h, n
<1> QED
  BY <1>6, <1>7, <1>9

\* Together: the parser follows the packets byte by byte, and accepts each at
\* its last byte.
LEMMA ByteRead ==
  ASSUME NEW p, NEW i, NEW q \in Payloads, NEW j,
         ParserAt(p, i), Follows(p, i, q, j),
         packet_process_byte(packet_send_packet(q)[j])
  PROVE  /\ ParserAt(q, j)'
         /\ j # Size(q) => accepted' = NoPacket
         /\ j = Size(q) => accepted' = q
<1> DEFINE h == HeaderLen(q)
           n == Len(q)
<1>0. h \in {2, 3} /\ n \in Nat /\ n >= 1 /\ Size(q) = h + n + 3
  BY PayloadFacts DEF Size
<1>1. CASE (i = 0 \/ i = Size(p)) /\ j = 1
  <2>1. process_state = "START"
    BY <1>1 DEF ParserAt
  <2>2. 1 # Size(q)
    BY <1>0
  <2> QED
    BY <1>1, <2>1, <2>2, FirstByteRead
<1>2. CASE i # 0 /\ i < Size(p) /\ q = p /\ j = i + 1
  <2>0. i \in Nat /\ i # 0 /\ i < h + n + 3 /\ ParserAt(q, i) /\ j = i + 1 /\ p = q
    BY <1>0, <1>2 DEF ParserAt
  <2>1. CASE h = 3 /\ i = 1
    <3>1. j = 2 /\ 2 # Size(q)
      BY <1>0, <2>0, <2>1
    <3> QED
      BY <2>0, <2>1, <3>1, LengthHighRead
  <2>2. CASE i = h - 1
    <3>1. j # Size(q)
      BY <1>0, <2>0, <2>2
    <3> QED
      BY <2>0, <2>2, <3>1, LengthLowRead
  <2>3. CASE h <= i /\ i < h + n
    <3>1. j # Size(q)
      BY <1>0, <2>0, <2>3
    <3> QED
      BY <2>0, <2>3, <3>1, DataRead
  <2>4. CASE i = h + n
    <3>1. j # Size(q)
      BY <1>0, <2>0, <2>4
    <3> QED
      BY <2>0, <2>4, <3>1, CrcHighRead
  <2>5. CASE i = h + n + 1
    <3>1. j # Size(q)
      BY <1>0, <2>0, <2>5
    <3> QED
      BY <2>0, <2>5, <3>1, CrcLowRead
  <2>6. CASE i = h + n + 2
    <3>1. j = Size(q)
      BY <1>0, <2>0, <2>6
    <3> QED
      BY <2>0, <2>6, <3>1, EndRead
  <2> HIDE DEF h, n
  <2> QED
    BY <1>0, <2>0, <2>1, <2>2, <2>3, <2>4, <2>5, <2>6
<1> QED
  BY <1>1, <1>2 DEF Follows

\* Sequence s is found among the packets of which the last byte but one is the
\* k-th, for some k from 0 to f: pay[k] and pos[k] tell of which packet the
\* k-th byte is, and where in it.
Awaited(e, pay, pos, s, f) ==
  /\ e \in [1..Len(s) -> 0..f]
  /\ \A i \in 1..Len(s) : pay[e[i]] = s[i] /\ pos[e[i]] = Size(s[i]) - 1
  /\ \A i, j \in 1..Len(s) : i < j => e[i] < e[j]

\* Another packet is sent,
LEMMA AwaitedMore ==
  ASSUME NEW s \in Seq(Payloads), NEW f \in Nat, NEW e, NEW pay, NEW pos,
         NEW pay1, NEW pos1, NEW q \in Payloads,
         Awaited(e, pay, pos, s, f),
         \A k \in 0..f : pay1[k] = pay[k] /\ pos1[k] = pos[k],
         pay1[f + 1] = q, pos1[f + 1] = Size(q) - 1
  PROVE  \E e1 : Awaited(e1, pay1, pos1, Append(s, q), f + 1)
<1> USE DEF Awaited
<1> DEFINE s1 == Append(s, q)
           l == Len(s)
           e1 == [i \in 1..(l + 1) |-> IF i = l + 1 THEN f + 1 ELSE e[i]]
<1>1. /\ l \in Nat /\ Len(s1) = l + 1 /\ s1[l + 1] = q
      /\ \A i \in 1..l : s1[i] = s[i]
  BY AppendProperties, LenProperties
<1> HIDE DEF s1, l
<1>2. \A i \in 1..l : e[i] \in 0..f
  BY DEF l
<1>3. e1 \in [1..(l + 1) -> 0..(f + 1)]
  BY <1>1, <1>2
<1>4. ASSUME NEW i \in 1..(l + 1)
      PROVE  pay1[e1[i]] = s1[i] /\ pos1[e1[i]] = Size(s1[i]) - 1
  <2>1. CASE i = l + 1
    <3>1. e1[i] = f + 1 /\ s1[i] = q
      BY <1>1, <2>1
    <3> HIDE DEF e1
    <3> QED
      BY <3>1
  <2>2. CASE i # l + 1
    <3>1. i \in 1..l
      BY <1>1, <2>2
    <3>2. e1[i] = e[i] /\ s1[i] = s[i] /\ e[i] \in 0..f
      BY <1>1, <1>2, <2>2, <3>1
    <3>3. pay[e[i]] = s[i] /\ pos[e[i]] = Size(s[i]) - 1
      BY <3>1 DEF l
    <3> HIDE DEF e1
    <3> QED
      BY <3>2, <3>3
  <2> QED
    BY <2>1, <2>2
<1>5. ASSUME NEW i \in 1..(l + 1), NEW j \in 1..(l + 1), i < j
      PROVE  e1[i] < e1[j]
  <2>1. i \in 1..l /\ i # l + 1 /\ e[i] \in 0..f
    BY <1>1, <1>2, <1>5
  <2>2. CASE j = l + 1
    BY <1>1, <2>1, <2>2
  <2>3. CASE j # l + 1
    <3>1. j \in 1..l
      BY <1>1, <2>3
    <3> QED
      BY <1>5, <2>1, <2>3, <3>1 DEF l
  <2> QED
    BY <2>2, <2>3
<1> HIDE DEF e1
<1>6. Awaited(e1, pay1, pos1, s1, f + 1)
  BY <1>1, <1>3, <1>4, <1>5
<1> QED
  BY <1>6 DEF s1

\* the first n are forgotten,
LEMMA AwaitedRest ==
  ASSUME NEW s, NEW s1, NEW f \in Nat, NEW e, NEW pay, NEW pos,
         Len(s) \in Nat, NEW n \in 0..Len(s),
         Awaited(e, pay, pos, s, f),
         Len(s1) = Len(s) - n, \A j \in 1..(Len(s) - n) : s1[j] = s[n + j]
  PROVE  \E e1 : /\ Awaited(e1, pay, pos, s1, f)
                 /\ n >= 1 => \A j \in 1..Len(s1) : e1[j] # 0
<1> USE DEF Awaited
<1> DEFINE l == Len(s) - n
           e1 == [j \in 1..l |-> e[n + j]]
<1>1. l \in Nat /\ Len(s1) = l /\ \A j \in 1..l : n + j \in 1..Len(s)
  OBVIOUS
<1>2. e1 \in [1..l -> 0..f]
  BY <1>1
<1>3. \A j \in 1..l : pay[e1[j]] = s1[j] /\ pos[e1[j]] = Size(s1[j]) - 1
  BY <1>1
<1>4. \A i, j \in 1..l : i < j => e1[i] < e1[j]
  BY <1>1
<1>5. ASSUME n >= 1, NEW j \in 1..l PROVE e1[j] # 0
  <2>1. n \in 1..Len(s) /\ n < n + j /\ n + j \in 1..Len(s)
    BY <1>1, <1>5
  <2>2. e[n] \in 0..f /\ e[n] < e[n + j] /\ e[n + j] \in 0..f
    BY <2>1
  <2>3. e1[j] = e[n + j]
    OBVIOUS
  <2> QED
    BY <2>2, <2>3
<1> HIDE DEF e1, l
<1>6. Awaited(e1, pay, pos, s1, f)
  BY <1>1, <1>2, <1>3, <1>4
<1> QED
  BY <1>1, <1>5, <1>6

\* and a byte is read that is not the last but one of any of them.
ByteGone(e, pay, pos, pay1, pos1, s, f, f1) ==
  /\ f \in Nat /\ f1 \in Nat /\ f1 + 1 = f /\ Len(s) \in Nat
  /\ Awaited(e, pay, pos, s, f) /\ \A j \in 1..Len(s) : e[j] # 0
  /\ \A k \in 0..f1 : pay1[k] = pay[k + 1] /\ pos1[k] = pos[k + 1]

\* Then they are found one place further in front.
LEMMA AwaitedShift ==
  ASSUME NEW s, NEW f, NEW f1, NEW e, NEW pay, NEW pos, NEW pay1, NEW pos1,
         ByteGone(e, pay, pos, pay1, pos1, s, f, f1)
  PROVE  \E e1 : Awaited(e1, pay1, pos1, s, f1)
<1> USE DEF Awaited, ByteGone
<1> DEFINE e1 == [j \in 1..Len(s) |-> e[j] - 1]
<1>1. \A j \in 1..Len(s) : e[j] \in 0..f /\ e[j] - 1 \in 0..f1 /\ (e[j] - 1) + 1 = e[j]
  OBVIOUS
<1>2. e1 \in [1..Len(s) -> 0..f1]
  BY <1>1
<1>3. ASSUME NEW j \in 1..Len(s)
      PROVE  pay1[e1[j]] = s[j] /\ pos1[e1[j]] = Size(s[j]) - 1
  <2>1. e1[j] \in 0..f1 /\ e1[j] + 1 = e[j]
    BY <1>1
  <2> HIDE DEF e1
  <2>2. pay1[e1[j]] = pay[e[j]] /\ pos1[e1[j]] = pos[e[j]]
    BY <2>1
  <2> QED
    BY <2>2
<1>4. \A i, j \in 1..Len(s) : i < j => e1[i] < e1[j]
  BY <1>1
<1> HIDE DEF e1
<1>5. Awaited(e1, pay1, pos1, s, f1)
  BY <1>2, <1>3, <1>4
<1> QED
  BY <1>5

\* Where the second byte of a CRC is in a packet.
LEMMA MarkPlace ==
  ASSUME NEW q \in Payloads, NEW j \in 1..Size(q),
         packet_send_packet(q)[j].crc.half = 2
  PROVE  j = Size(q) - 1 /\ packet_send_packet(q)[j].crc.payload = q
<1> DEFINE h == HeaderLen(q)
           n == Len(q)
           b == packet_send_packet(q)[j]
<1>1. /\ h \in {2, 3} /\ n \in Nat /\ n >= 1 /\ Size(q) = h + n + 3 /\ q \in Seq(Values)
      /\ Radix \in Nat
  BY PayloadFacts DEF Size
<1>r. Radix > 0 /\ {PACKET_START, PACKET_LONG_START, PACKET_END} \subseteq Int
  BY PacketAssumption DEF Values
<1>2. ~\E v \in Int : b = Plain(v)
  <2> SUFFICES ASSUME NEW v \in Int, b = Plain(v) PROVE FALSE
    OBVIOUS
  <2> HIDE DEF b
  <2>1. b.crc.half = 0
    BY ByteFacts
  <2> QED
    BY <2>1 DEF b
<1>3. ~(j <= h)
  <2> SUFFICES ASSUME j <= h PROVE FALSE
    OBVIOUS
  <2>1. n \div Radix \in Int /\ (IF h = 3 THEN n % Radix ELSE n) \in Int
    <3> HIDE DEF n, h
    <3> QED
      BY <1>1, <1>r
  <2>2. CASE j = h
    BY <1>2, <2>1, <2>2, PacketBytes
  <2>3. CASE j = 1
    BY <1>1, <1>2, <1>r, <2>3, PacketBytes
  <2>4. CASE h = 3 /\ j = 2
    BY <1>2, <2>1, <2>4, PacketBytes
  <2> QED
    BY <1>1, <2>2, <2>3, <2>4
<1>4. ~(j <= h + n)
  <2> SUFFICES ASSUME j <= h + n PROVE FALSE
    OBVIOUS
  <2>1. PICK i \in 1..n : j = h + i
    <3> HIDE DEF h, n
    <3>1. j - h \in 1..n /\ j = h + (j - h)
      BY <1>1, <1>3
    <3> QED
      BY <3>1
  <2>2. b = Plain(q[i])
    BY <2>1, PacketBytes
  <2>3. q[i] \in Int
    <3>1. q[i] \in Values
      BY <1>1, <2>1, ElementOfSeq
    <3> QED
      BY <3>1, PacketAssumption DEF Values
  <2> QED
    BY <1>2, <2>2, <2>3
<1>5. j # h + n + 1
  <2> SUFFICES ASSUME j = h + n + 1 PROVE FALSE
    OBVIOUS
  <2>1. b = CrcByte(q, 1)
    BY PacketBytes
  <2> HIDE DEF b
  <2>2. b.crc = [payload |-> q, half |-> 1]
    BY <2>1, ByteFacts
  <2>3. b.crc.half = 1
    BY <2>2
  <2> QED
    BY <2>3 DEF b
<1>6. j # h + n + 3
  BY <1>2, <1>r, PacketBytes
<1> HIDE DEF h, n
<1>7. j = h + n + 2 /\ j = Size(q) - 1
  BY <1>1, <1>4, <1>5, <1>6
<1>8. b = CrcByte(q, 2)
  BY <1>7, PacketBytes DEF h, n
<1> HIDE DEF b
<1>9. b.crc = [payload |-> q, half |-> 2]
  BY <1>8, ByteFacts
<1>10. b.crc.payload = q
  BY <1>9
<1> QED
  BY <1>7, <1>10 DEF b

\* The host has sent i bytes of the packet with payload p, and will send the
\* others.
LeftOf(p, i) ==
  /\ i = 0 => left = <<>>
  /\ i # 0 => /\ p \in Payloads /\ i \in 1..Size(p)
              /\ Len(left) = Size(p) - i
              /\ \A m \in 1..Len(left) : left[m] = packet_send_packet(p)[i + m]

\* The bytes in flight are those of whole packets, one after the other, from
\* where the parser is to where the host is.
Labelled(pay, pos) ==
  /\ ParserAt(pay[0], pos[0])
  /\ \A k \in 1..Flight : /\ pay[k] \in Payloads /\ pos[k] \in 1..Size(pay[k])
                          /\ At(k) = packet_send_packet(pay[k])[pos[k]]
  /\ \A k \in Nat : k + 1 <= Flight => Follows(pay[k], pos[k], pay[k + 1], pos[k + 1])
  /\ \A f \in Nat : f = Flight => LeftOf(pay[f], pos[f])

\* The inductive invariant of NothingLost: a packet that is pending will have
\* its end byte read.
Whole ==
  losses = 0 => \E pay, pos, e : /\ Labelled(pay, pos)
                                 /\ Awaited(e, pay, pos, pending, Flight)

\* Bytes that move on keep their places.
LEMMA WholeStill ==
  ASSUME LineTypes, LineTypes', Whole, Still
  PROVE  Whole'
<1> SUFFICES ASSUME losses' = 0
             PROVE  (\E pay, pos, e : /\ Labelled(pay, pos)
                                      /\ Awaited(e, pay, pos, pending, Flight))'
  BY DEF Whole
<1>1. /\ Flight \in Nat /\ Flight' \in Nat /\ Flight' + 0 = Flight
      /\ \A k \in 1..Flight' : At(k)' = At(k + 0)
      /\ UNCHANGED <<parser, left, pending>> /\ losses' = losses
  BY MarkedFacts, MarkedNext DEF FlightOK, Still, Leave
<1>2. Flight' = Flight
  <2>1. \A i \in Nat : i + 0 = i
    OBVIOUS
  <2> QED
    BY <1>1, <2>1
<1>3. \A k \in 1..Flight : At(k)' = At(k)
  <2>1. \A k \in 1..Flight : k + 0 = k
    BY <1>1
  <2> QED
    BY <1>1, <1>2, <2>1
<1>4. PICK pay, pos, e : Labelled(pay, pos) /\ Awaited(e, pay, pos, pending, Flight)
  BY <1>1 DEF Whole
<1>5. ParserAt(pay[0], pos[0])'
  BY <1>1, <1>4 DEF Labelled, ParserAt, parser
<1>6. \A f \in Nat : f = Flight => LeftOf(pay[f], pos[f])'
  BY <1>1, <1>4 DEF Labelled, LeftOf
<1>7. Labelled(pay, pos)'
  BY <1>2, <1>3, <1>4, <1>5, <1>6 DEF Labelled
<1>8. Awaited(e, pay, pos, pending', Flight')
  BY <1>1, <1>2, <1>4
<1> QED
  BY <1>7, <1>8

\* The host sends the next byte of a packet, or the first of another.
LEMMA WholePut ==
  ASSUME LineTypes, LineTypes', Whole, NEW bytes, Puts(bytes)
  PROVE  Whole'
<1> SUFFICES ASSUME losses' = 0
             PROVE  (\E pay, pos, e : /\ Labelled(pay, pos)
                                      /\ Awaited(e, pay, pos, pending, Flight))'
  BY DEF Whole
<1>0. losses = 0
  BY DEF Puts
<1>1. PICK pay, pos, e : Labelled(pay, pos) /\ Awaited(e, pay, pos, pending, Flight)
  BY <1>0 DEF Whole
<1>2. PICK f \in Nat : f = Flight /\ Flight' = f + 1
  BY MarkedFacts DEF FlightOK, Puts
<1>3. bytes \in Seq(Bytes) /\ bytes # <<>> /\ Len(bytes) \in Nat /\ Len(bytes) >= 1
  BY LenProperties, EmptySeq DEF Puts
\* The byte is the next one of the packet, or the first of another.
<1>4. PICK q \in Payloads, j \in Nat :
        /\ j \in 1..Size(q) /\ Follows(pay[f], pos[f], q, j)
        /\ Len(bytes) = Size(q) - j + 1
        /\ \A m \in 1..Len(bytes) : bytes[m] = packet_send_packet(q)[j + m - 1]
  <2>1. LeftOf(pay[f], pos[f])
    BY <1>1, <1>2 DEF Labelled
  <2>2. CASE left # <<>>
    <3>1. PICK p, i : p = pay[f] /\ i = pos[f]
      OBVIOUS
    <3>2. /\ p \in Payloads /\ i \in 1..Size(p) /\ Len(left) = Size(p) - i /\ i # 0
          /\ \A m \in 1..Len(left) : left[m] = packet_send_packet(p)[i + m]
          /\ Size(p) \in Nat
      BY <2>1, <2>2, <3>1, PayloadFacts DEF LeftOf
    <3>3. bytes = left
      BY <2>2 DEF Puts
    <3>4. /\ i + 1 \in Nat /\ i + 1 \in 1..Size(p) /\ i < Size(p)
          /\ Len(bytes) = Size(p) - (i + 1) + 1
      BY <1>3, <3>2, <3>3
    <3>5. \A m \in 1..Len(bytes) : (i + 1) + m - 1 = i + m
      BY <1>3, <3>2
    <3>6. \A m \in 1..Len(bytes) : bytes[m] = packet_send_packet(p)[(i + 1) + m - 1]
      BY <3>2, <3>3, <3>5
    <3>7. Follows(pay[f], pos[f], p, i + 1)
      BY <3>1, <3>2, <3>4 DEF Follows
    <3> QED
      BY <3>2, <3>4, <3>6, <3>7
  <2>3. CASE left = <<>>
    <3>1. PICK q \in Payloads : bytes = packet_send_packet(q)
      BY <2>3 DEF Puts
    <3>2. Len(bytes) = Size(q) /\ Size(q) \in Nat /\ Size(q) >= 6
      BY <3>1, PacketBytes, PayloadFacts
    <3>3. pos[f] = 0 \/ pos[f] = Size(pay[f])
      <4>1. PICK p, i : p = pay[f] /\ i = pos[f]
        OBVIOUS
      <4>2. CASE i # 0
        <5>1. i \in 1..Size(p) /\ 0 = Size(p) - i /\ Size(p) \in Nat
          BY <2>1, <2>3, <4>1, <4>2, EmptySeq, PayloadFacts DEF LeftOf
        <5> QED
          BY <4>1, <5>1
      <4> QED
        BY <4>1, <4>2
    <3>4. Follows(pay[f], pos[f], q, 1)
      BY <3>3 DEF Follows
    <3>5. 1 \in Nat /\ 1 \in 1..Size(q) /\ Len(bytes) = Size(q) - 1 + 1
      BY <3>2
    <3>6. \A m \in 1..Len(bytes) : bytes[m] = packet_send_packet(q)[1 + m - 1]
      <4>1. \A m \in 1..Len(bytes) : 1 + m - 1 = m
        BY <3>2
      <4> QED
        BY <3>1, <4>1
    <3> QED
      BY <3>4, <3>5, <3>6
  <2> QED
    BY <2>2, <2>3
<1> DEFINE b == Head(bytes)
           pay1 == [k \in Nat |-> IF k = f + 1 THEN q ELSE pay[k]]
           pos1 == [k \in Nat |-> IF k = f + 1 THEN j ELSE pos[k]]
<1>5. /\ pay1[f + 1] = q /\ pos1[f + 1] = j /\ f + 1 \in Nat
      /\ \A k \in 0..f : pay1[k] = pay[k] /\ pos1[k] = pos[k]
  BY <1>2
<1> HIDE DEF pay1, pos1
<1>6. b = packet_send_packet(q)[j] /\ b \in Bytes /\ Size(q) \in Nat
  <2>1. 1 \in 1..Len(bytes) /\ j + 1 - 1 = j
    BY <1>3, <1>4
  <2>2. b = bytes[1] /\ b \in Bytes
    BY <1>3, HeadTailProperties
  <2> QED
    BY <1>4, <2>1, <2>2, PayloadFacts
<1>7. At(f + 1)' = b /\ \A k \in 1..f : At(k)' = At(k)
  BY <1>2, <1>5 DEF Puts
<1> HIDE DEF b
<1>8. ParserAt(pay1[0], pos1[0])'
  <2>1. pay1[0] = pay[0] /\ pos1[0] = pos[0]
    BY <1>2, <1>5
  <2>2. UNCHANGED parser
    BY DEF Puts
  <2>3. ParserAt(pay[0], pos[0])
    BY <1>1 DEF Labelled
  <2> QED
    BY <2>1, <2>2, <2>3 DEF ParserAt, parser
<1>9. ASSUME NEW k \in 1..(f + 1)
      PROVE  /\ pay1[k] \in Payloads /\ pos1[k] \in 1..Size(pay1[k])
             /\ At(k)' = packet_send_packet(pay1[k])[pos1[k]]
  <2>1. CASE k = f + 1
    BY <1>4, <1>5, <1>6, <1>7, <2>1
  <2>2. CASE k # f + 1
    <3>1. k \in 1..f /\ k \in 0..f
      BY <1>2, <2>2
    <3> QED
      BY <1>1, <1>2, <1>5, <1>7, <3>1 DEF Labelled
  <2> QED
    BY <2>1, <2>2
<1>10. ASSUME NEW k \in Nat, k + 1 <= f + 1
       PROVE  Follows(pay1[k], pos1[k], pay1[k + 1], pos1[k + 1])
  <2>1. CASE k = f
    <3>1. k \in 0..f
      BY <2>1
    <3> QED
      BY <1>4, <1>5, <2>1, <3>1
  <2>2. CASE k # f
    <3>1. k \in 0..f /\ k + 1 \in 0..f /\ k + 1 <= f
      BY <1>2, <1>10, <2>2
    <3> QED
      BY <1>1, <1>2, <1>5, <3>1 DEF Labelled
  <2> QED
    BY <2>1, <2>2
<1>11. LeftOf(q, j)'
  <2>1. left' = Tail(bytes) /\ j # 0
    BY <1>4 DEF Puts
  <2>2. Len(Tail(bytes)) = Len(bytes) - 1
        /\ \A m \in 1..(Len(bytes) - 1) : Tail(bytes)[m] = bytes[m + 1]
    BY <1>3, HeadTailProperties
  <2>3. Len(left') = Size(q) - j
    BY <1>4, <1>6, <2>1, <2>2
  <2>4. ASSUME NEW m \in 1..(Size(q) - j)
        PROVE  Tail(bytes)[m] = packet_send_packet(q)[j + m]
    <3>1. /\ m \in 1..(Len(bytes) - 1) /\ m + 1 \in 1..Len(bytes)
          /\ j + (m + 1) - 1 = j + m
      BY <1>3, <1>4, <1>6
    <3>2. Tail(bytes)[m] = bytes[m + 1]
      BY <2>2, <3>1
    <3>3. PICK m1 \in 1..Len(bytes) : m1 = m + 1
      BY <3>1
    <3>4. bytes[m1] = packet_send_packet(q)[j + m1 - 1]
      BY <1>4, <3>3
    <3> QED
      BY <3>1, <3>2, <3>3, <3>4
  <2> QED
    BY <1>4, <2>1, <2>3, <2>4 DEF LeftOf
<1>12. Labelled(pay1, pos1)'
  <2>1. ASSUME NEW g \in Nat, g = Flight' PROVE LeftOf(pay1[g], pos1[g])'
    <3>1. pay1[g] = q /\ pos1[g] = j
      BY <1>2, <1>5, <2>1
    <3> QED
      BY <1>11, <3>1 DEF LeftOf
  <2> QED
    BY <1>2, <1>8, <1>9, <1>10, <2>1 DEF Labelled
<1>13. pending \in Seq(Payloads) /\ pending' = Sent(b) /\ Len(pending) \in Nat
  BY DEF LineTypes, Puts, b
<1>a. Awaited(e, pay, pos, pending, f)
  BY <1>1, <1>2
<1>14. \E e1 : Awaited(e1, pay1, pos1, pending', f + 1)
  <2>1. CASE b.crc.half # 2
    <3>1. pending' = pending
      BY <1>6, <1>13, <2>1, SentIs
    <3>2. \A i \in 1..Len(pending) : e[i] \in 0..f /\ e[i] \in 0..(f + 1)
      BY <1>2, <1>a DEF Awaited
    <3>3. Awaited(e, pay1, pos1, pending, f + 1)
      BY <1>5, <1>a, <3>2 DEF Awaited
    <3> QED
      BY <3>1, <3>3
  <2>2. CASE b.crc.half = 2
    <3>1. b.crc.payload = q /\ j = Size(q) - 1
      BY <1>4, <1>6, <2>2, MarkPlace
    <3> DEFINE all == Append(pending, q)
    <3>2. pending' = all \/ pending' = Tail(all)
      BY <1>6, <1>13, <2>2, <3>1, SentIs
    <3>3. PICK e1 : Awaited(e1, pay1, pos1, all, f + 1)
      BY <1>2, <1>5, <1>13, <1>a, <3>1, AwaitedMore
    <3>4. all \in Seq(Payloads) /\ Len(all) \in Nat /\ Len(all) >= 1 /\ all # <<>>
      BY <1>13, AppendProperties
    <3> HIDE DEF all
    <3>5. CASE pending' = all
      BY <3>3, <3>5
    <3>6. CASE pending' = Tail(all)
      <4>1. /\ Len(Tail(all)) = Len(all) - 1
            /\ \A m \in 1..(Len(all) - 1) : Tail(all)[m] = all[m + 1]
        BY <3>4, HeadTailProperties
      <4>2. \A m \in 1..(Len(all) - 1) : m + 1 = 1 + m
        BY <3>4
      <4>3. 1 \in 0..Len(all) /\ f + 1 \in Nat
        BY <1>2, <3>4
      <4>4. \A m \in 1..(Len(all) - 1) : Tail(all)[m] = all[1 + m]
        BY <4>1, <4>2
      <4>5. \E e2 : Awaited(e2, pay1, pos1, Tail(all), f + 1)
        BY <3>3, <3>4, <4>1, <4>3, <4>4, AwaitedRest
      <4> QED
        BY <3>6, <4>5
    <3> QED
      BY <3>2, <3>5, <3>6
  <2> QED
    BY <2>1, <2>2
<1> QED
  BY <1>2, <1>12, <1>14

\* The parser reads the next byte of a packet, or the first of another; with
\* the last one the packet is no longer pending.
LEMMA WholeTaken ==
  ASSUME LineTypes, LineTypes', Whole, Takes
  PROVE  Whole'
<1> SUFFICES ASSUME losses' = 0
             PROVE  (\E pay, pos, e : /\ Labelled(pay, pos)
                                      /\ Awaited(e, pay, pos, pending, Flight))'
  BY DEF Whole
<1>0. losses = 0
  BY DEF Takes
<1>1. PICK pay, pos, e : Labelled(pay, pos) /\ Awaited(e, pay, pos, pending, Flight)
  BY <1>0 DEF Whole
<1>2. PICK f \in Nat, f1 \in Nat : f = Flight /\ f1 = Flight' /\ f1 + 1 = f
  BY MarkedFacts, MarkedNext DEF FlightOK, Takes, Leave
<1>b. f1 + 1 = f /\ f >= 1
  <2>1. \A x, y \in Nat : x + 1 = y => y >= 1
    OBVIOUS
  <2> QED
    BY <1>2, <2>1
<1>3. PICK p, i, q, j : p = pay[0] /\ i = pos[0] /\ q = pay[1] /\ j = pos[1]
  OBVIOUS
<1>4. /\ ParserAt(p, i) /\ Follows(p, i, q, j) /\ q \in Payloads /\ j \in 1..Size(q)
      /\ At(1) = packet_send_packet(q)[j]
  <2>0. 1 \in 1..f /\ 0 + 1 <= f /\ 0 + 1 = 1
    BY <1>b
  <2>1. 1 \in 1..Flight /\ 0 + 1 <= Flight /\ 0 + 1 = 1
    BY <1>2, <2>0
  <2>2. Follows(pay[0], pos[0], pay[0 + 1], pos[0 + 1])
    BY <1>1, <2>1 DEF Labelled
  <2> QED
    BY <1>1, <1>3, <2>1, <2>2 DEF Labelled
<1>5. /\ ParserAt(q, j)'
      /\ j # Size(q) => accepted' = NoPacket
      /\ j = Size(q) => accepted' = q
  <2>1. packet_process_byte(packet_send_packet(q)[j])
    BY <1>4 DEF Takes
  <2> QED
    BY <1>4, <2>1, ByteRead
<1>6. /\ Size(q) \in Nat /\ Size(q) >= 6 /\ q # NoPacket
      /\ pending \in Seq(Payloads) /\ Len(pending) \in Nat
  BY <1>4, PayloadFacts DEF LineTypes
<1> DEFINE pay1 == [k \in Nat |-> pay[k + 1]]
           pos1 == [k \in Nat |-> pos[k + 1]]
<1>7. \A k \in Nat : pay1[k] = pay[k + 1] /\ pos1[k] = pos[k + 1]
  OBVIOUS
<1> HIDE DEF pay1, pos1
<1>8. ParserAt(pay1[0], pos1[0])'
  <2>1. 0 \in Nat /\ 0 + 1 = 1
    OBVIOUS
  <2>2. pay1[0] = q /\ pos1[0] = j
    BY <1>3, <1>7, <2>1
  <2> QED
    BY <1>5, <2>2 DEF ParserAt
<1>9. ASSUME NEW k \in 1..f1
      PROVE  /\ pay1[k] \in Payloads /\ pos1[k] \in 1..Size(pay1[k])
             /\ At(k)' = packet_send_packet(pay1[k])[pos1[k]]
  <2>1. k + 1 \in 1..f /\ k \in Nat
    BY <1>b
  <2>2. At(k)' = At(k + 1)
    BY <1>2 DEF Takes, Leave
  <2> QED
    BY <1>1, <1>2, <1>7, <2>1, <2>2 DEF Labelled
<1>10. ASSUME NEW k \in Nat, k + 1 <= f1
       PROVE  Follows(pay1[k], pos1[k], pay1[k + 1], pos1[k + 1])
  <2>1. k + 1 \in Nat /\ (k + 1) + 1 <= f
    BY <1>b, <1>10
  <2>2. PICK k1 \in Nat : k1 = k + 1 /\ k1 + 1 <= f
    BY <2>1
  <2>3. Follows(pay[k1], pos[k1], pay[k1 + 1], pos[k1 + 1])
    BY <1>1, <1>2, <2>2 DEF Labelled
  <2>4. /\ pay1[k] = pay[k1] /\ pos1[k] = pos[k1]
        /\ pay1[k + 1] = pay[k1 + 1] /\ pos1[k + 1] = pos[k1 + 1]
    BY <1>7, <2>2
  <2> QED
    BY <2>3, <2>4
<1>11. Labelled(pay1, pos1)'
  <2>1. ASSUME NEW g \in Nat, g = Flight' PROVE LeftOf(pay1[g], pos1[g])'
    <3>1. pay1[g] = pay[f] /\ pos1[g] = pos[f]
      BY <1>2, <1>7, <2>1
    <3>2. LeftOf(pay[f], pos[f]) /\ left' = left
      BY <1>1, <1>2 DEF Labelled, Takes
    <3> QED
      BY <3>1, <3>2 DEF LeftOf
  <2> QED
    BY <1>2, <1>8, <1>9, <1>10, <2>1 DEF Labelled
<1>a. Awaited(e, pay, pos, pending, f)
  BY <1>1, <1>2
\* Only the packet whose end byte this is can have been awaited at the parser.
<1>12. ASSUME NEW m \in 1..Len(pending), e[m] = 0
       PROVE  j = Size(q) /\ pending[m] = q
  <2>1. p = pending[m] /\ i = Size(p) - 1 /\ p \in Payloads
    BY <1>3, <1>6, <1>12, <1>a, ElementOfSeq DEF Awaited
  <2>2. Size(p) \in Nat /\ Size(p) >= 6
    BY <2>1, PayloadFacts
  <2>3. i # 0 /\ i # Size(p) /\ i + 1 = Size(p)
    BY <2>1, <2>2
  <2> QED
    BY <1>4, <2>1, <2>3 DEF Follows
<1>13. \E e1 : /\ Awaited(e1, pay, pos, pending', f)
               /\ \A m \in 1..Len(pending') : e1[m] # 0
  <2>1. CASE /\ j = Size(q)
             /\ \E m \in DOMAIN pending : pending[m] = q
    <3>1. pending' = After(q)
      BY <1>5, <1>6, <2>1 DEF Takes
    <3>2. PICK n \in 1..Len(pending) :
             /\ Len(After(q)) = Len(pending) - n
             /\ \A k \in 1..(Len(pending) - n) : After(q)[k] = pending[n + k]
      BY <1>6, <2>1, AfterIs
    <3>3. PICK s1 : s1 = After(q)
      OBVIOUS
    <3>4. n \in 0..Len(pending) /\ n >= 1
      BY <1>6
    <3>s. /\ Len(s1) = Len(pending) - n
          /\ \A k \in 1..(Len(pending) - n) : s1[k] = pending[n + k]
      BY <3>2, <3>3
    <3>5. \E e1 : /\ Awaited(e1, pay, pos, s1, f)
                  /\ n >= 1 => \A m \in 1..Len(s1) : e1[m] # 0
      BY <1>6, <1>a, <3>4, <3>s, AwaitedRest
    <3> QED
      BY <3>1, <3>3, <3>4, <3>5
  <2>2. CASE ~(/\ j = Size(q)
               /\ \E m \in DOMAIN pending : pending[m] = q)
    <3>1. pending' = pending
      BY <1>5, <1>6, <2>2 DEF Takes
    <3>2. DOMAIN pending = 1..Len(pending)
      BY <1>6
    <3>3. \A m \in 1..Len(pending) : e[m] # 0
      BY <1>12, <2>2, <3>2
    <3> QED
      BY <1>a, <3>1, <3>3
  <2> QED
    BY <2>1, <2>2
<1>14. \E e1 : Awaited(e1, pay1, pos1, pending', f1)
  <2>1. PICK e1 : /\ Awaited(e1, pay, pos, pending', f)
                  /\ \A m \in 1..Len(pending') : e1[m] # 0
    BY <1>13
  <2>2. Len(pending') \in Nat
    BY DEF LineTypes
  <2>3. \A k \in 0..f1 : pay1[k] = pay[k + 1] /\ pos1[k] = pos[k + 1]
    BY <1>7
  <2>4. PICK s : s = pending'
    OBVIOUS
  <2>5. /\ Awaited(e1, pay, pos, s, f) /\ Len(s) \in Nat
        /\ \A m \in 1..Len(s) : e1[m] # 0
    BY <2>1, <2>2, <2>4
  <2>6. \E e2 : Awaited(e2, pay1, pos1, s, f1)
    <3>1. ByteGone(e1, pay, pos, pay1, pos1, s, f, f1)
      BY <1>b, <2>3, <2>5 DEF ByteGone
    <3> QED
      BY <3>1, AwaitedShift
  <2> QED
    BY <2>4, <2>6
<1> QED
  BY <1>2, <1>11, <1>14

\* With the types.
WholeInv == LineInv /\ Whole

\* It holds at first,
LEMMA WholeInit == Init => WholeInv
<1> SUFFICES ASSUME Init PROVE WholeInv
  OBVIOUS
<1>1. LineInv
  BY LineInit
<1>2. Flight = 0
  <2>1. Rd = 0 /\ serial_rx_write_pos = 0 /\ queue = <<>> /\ 0 \in Slots
    BY RingSize DEF Init, Rd, Wrap, Slots
  <2> QED
    BY <2>1, HeldBounds, EmptySeq DEF Flight, InFlight
<1> DEFINE pay == [k \in Nat |-> NoPacket]
           pos == [k \in Nat |-> 0]
           e == [i \in 1..0 |-> 0]
<1>3. pos[0] = 0 /\ 0 \in Nat
  OBVIOUS
<1> HIDE DEF pay, pos
<1>4. Labelled(pay, pos)
  <2>1. ParserAt(pay[0], pos[0])
    BY <1>3 DEF ParserAt, Init, PacketInit
  <2>2. \A f \in Nat : f = Flight => LeftOf(pay[f], pos[f])
    BY <1>2, <1>3 DEF LeftOf, Init
  <2>3. 1..Flight = {} /\ \A k \in Nat : ~(k + 1 <= Flight)
    BY <1>2
  <2> QED
    BY <2>1, <2>2, <2>3 DEF Labelled
<1>5. Awaited(e, pay, pos, pending, Flight)
  <2>1. Len(pending) = 0 /\ 1..0 = {}
    BY EmptySeq DEF Init
  <2> QED
    BY <2>1 DEF Awaited
<1> QED
  BY <1>1, <1>4, <1>5 DEF WholeInv, Whole

\* every step keeps it, a step that loses bytes because it counts a loss,
LEMMA WholeKept == WholeInv /\ [Next]_vars => WholeInv'
<1> SUFFICES ASSUME WholeInv, [Next]_vars PROVE WholeInv'
  OBVIOUS
<1>1. LineTypes /\ LineTypes' /\ Whole /\ LineInv'
  BY LineKept, DrainedKept, CrcKept DEF WholeInv, LineInv
<1>2. CASE Loses
  <2>1. losses' # 0
    BY <1>1, <1>2 DEF Loses, LineTypes
  <2> QED
    BY <1>1, <2>1 DEF WholeInv, Whole
<1> QED
  BY <1>1, <1>2, WholeStill, WholePut, WholeTaken, LineSteps DEF WholeInv

\* and on a quiet line no byte is left that a packet could be waiting for.
LEMMA WholeGives == WholeInv => NothingLost
<1> SUFFICES ASSUME WholeInv, losses = 0
             PROVE  /\ Quiet => pending = <<>> /\ process_state = "START"
                    /\ process_state # "OVERRUN"
  BY DEF NothingLost
<1>1. PICK pay, pos, e : Labelled(pay, pos) /\ Awaited(e, pay, pos, pending, Flight)
  BY DEF WholeInv, Whole
<1>2. PICK p, i : p = pay[0] /\ i = pos[0]
  OBVIOUS
<1>3. ParserAt(p, i)
  BY <1>1, <1>2 DEF Labelled
<1>4. process_state # "OVERRUN"
  <2>1. CASE i = 0
    BY <1>3, <2>1 DEF ParserAt
  <2>2. CASE i # 0
    <3>1. p \in Payloads /\ i \in Nat /\ i <= Size(p)
      BY <1>3, <2>2 DEF ParserAt
    <3> DEFINE h == HeaderLen(p)
               n == Len(p)
    <3>2. h \in {2, 3} /\ n \in Nat /\ n >= 1 /\ Size(p) = h + n + 3
      BY <3>1, PayloadFacts DEF Size
    <3>3. \/ h = 3 /\ i = 1 /\ i < h
          \/ i = h - 1
          \/ h <= i /\ i < h + n
          \/ i = h + n
          \/ i = h + n + 1
          \/ i = h + n + 2
          \/ i = Size(p)
      <4> HIDE DEF h, n
      <4> QED
        BY <2>2, <3>1, <3>2
    <3> QED
      BY <1>3, <2>2, <3>3 DEF ParserAt
  <2> QED
    BY <2>1, <2>2
<1>5. ASSUME Quiet PROVE pending = <<>> /\ process_state = "START"
  <2>1. left = <<>> /\ queue = <<>> /\ serial_rx_read_pos = serial_rx_write_pos
    BY <1>5 DEF Quiet, WholeInv, LineInv, Drained
  <2>2. Flight = 0
    <3>1. Rd = serial_rx_write_pos /\ Rd \in Slots
      BY <2>1, RingSize DEF WholeInv, LineInv, LineTypes, Rd
    <3> QED
      BY <2>1, <3>1, HeldBounds, EmptySeq DEF Flight, InFlight
  <2>3. LeftOf(p, i)
    BY <1>1, <1>2, <2>2 DEF Labelled
  <2>4. i = 0 \/ (p \in Payloads /\ i = Size(p))
    <3>1. CASE i # 0
      <4>1. i \in 1..Size(p) /\ 0 = Size(p) - i /\ Size(p) \in Nat /\ p \in Payloads
        BY <2>1, <2>3, <3>1, EmptySeq, PayloadFacts DEF LeftOf
      <4> QED
        BY <4>1
    <3> QED
      BY <3>1
  <2>5. process_state = "START"
    BY <1>3, <2>4 DEF ParserAt
  <2>6. pending = <<>>
    <3>1. pending \in Seq(Payloads) /\ Len(pending) \in Nat
      BY DEF WholeInv, LineInv, LineTypes
    <3>2. Len(pending) = 0
      <4> SUFFICES ASSUME Len(pending) # 0 PROVE FALSE
        OBVIOUS
      <4>1. 1 \in 1..Len(pending)
        BY <3>1
      <4>2. e[1] \in 0..0 /\ pay[e[1]] = pending[1] /\ pos[e[1]] = Size(pending[1]) - 1
        BY <1>1, <2>2, <4>1 DEF Awaited
      <4>3. p = pending[1] /\ i = Size(p) - 1 /\ p \in Payloads
        BY <1>2, <3>1, <4>1, <4>2, ElementOfSeq
      <4>4. Size(p) \in Nat /\ Size(p) >= 6
        BY <4>3, PayloadFacts
      <4> QED
        BY <2>4, <4>3, <4>4
    <3> QED
      BY <3>1, <3>2, EmptySeq
  <2> QED
    BY <2>5, <2>6
<1> QED
  BY <1>4, <1>5

\* Without a disconnection or an overwritten ring every packet has been handled
\* when the line is quiet, the parser is back in START, and it never stores a
\* byte behind its buffer (packet.c:78), for every size.
THEOREM NothingIsLost == Spec => []NothingLost
BY WholeInit, WholeKept, WholeGives, PTL DEF Spec
=============================================================================
