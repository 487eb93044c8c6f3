--------------------------- MODULE IpcCodec_proofs ---------------------------
(***************************************************************************)
(* What the encoders and decoders of IpcCodec do to one another, for every *)
(* request Csvm.RequestPacket.encode takes and every response of 16-bit    *)
(* numbers.  Packets are cut along their fields: what was put together by  *)
(* \o is found again by SubSeq.                                            *)
(*                                                                         *)
(* The literal 65536 is kept behind Uint16Of and Oversized.                *)
(***************************************************************************)
EXTENDS IpcCodec, SequenceTheorems, TLAPS

\* Two pieces put together: the first is what it was, the second follows it.
LEMMA Joined ==
  ASSUME NEW u \in Seq(Byte), NEW v \in Seq(Byte)
  PROVE  /\ u \o v \in Seq(Byte) /\ Len(u \o v) = Len(u) + Len(v)
         /\ SubSeq(u \o v, Len(u) + 1, Len(u) + Len(v)) = v
         /\ \A m, n \in 1..Len(u) : SubSeq(u \o v, m, n) = SubSeq(u, m, n)
         /\ \A n \in 0..Len(v) :
              SubSeq(u \o v, Len(u) + 1, Len(u) + n) = SubSeq(v, 1, n)
<1>0. Len(u) \in Nat /\ Len(v) \in Nat
  BY LenProperties
<1>1. u \o v \in Seq(Byte) /\ Len(u \o v) = Len(u) + Len(v)
  BY ConcatProperties
<1>2. ASSUME NEW m \in 1..Len(u), NEW n \in 1..Len(u)
      PROVE  SubSeq(u \o v, m, n) = SubSeq(u, m, n)
  BY SubSeqOfConcat1
<1>3. ASSUME NEW n \in 0..Len(v)
      PROVE  SubSeq(u \o v, Len(u) + 1, Len(u) + n) = SubSeq(v, 1, n)
  <2>1. CASE n = 0
    <3>1. Len(u) + 1 \in Int /\ Len(u) + n \in Int /\ Len(u) + n < Len(u) + 1
      BY <1>0, <2>1
    <3>2. SubSeq(u \o v, Len(u) + 1, Len(u) + n) = <<>>
      BY <3>1, SubSeqEmpty
    <3>3. SubSeq(v, 1, n) = <<>>
      BY <2>1, SubSeqEmpty
    <3> QED
      BY <3>2, <3>3
  <2>2. CASE n # 0
    <3>1. /\ Len(u) + 1 \in Len(u) + 1..Len(u) + Len(v)
          /\ Len(u) + n \in Len(u) + 1..Len(u) + Len(v)
          /\ Len(u) + 1 - Len(u) = 1 /\ Len(u) + n - Len(u) = n
      BY <1>0, <2>2
    <3>2. SubSeq(u \o v, Len(u) + 1, Len(u) + n)
            = SubSeq(v, Len(u) + 1 - Len(u), Len(u) + n - Len(u))
      BY <3>1, SubSeqOfConcat2
    <3> QED
      BY <3>1, <3>2
  <2> QED
    BY <2>1, <2>2
<1>4. SubSeq(u \o v, Len(u) + 1, Len(u) + Len(v)) = v
  <2>1. SubSeq(u \o v, Len(u) + 1, Len(u) + Len(v)) = SubSeq(v, 1, Len(v))
    BY <1>0, <1>3
  <2> QED
    BY <2>1, SubSeqFull
<1> QED
  BY <1>1, <1>2, <1>3, <1>4

\* The bytes before the payload, from the fields they are made of.
Header(a, namespace, operation, b) == a \o namespace \o operation \o b \o CRLF

\* The fields of a header, by their places.
HasFields(header, a, namespace, operation, b) ==
  /\ header \in Seq(Byte)
  /\ Len(header) = 15
  /\ SubSeq(header, 1, 2) = a
  /\ SubSeq(header, 3, 6) = namespace
  /\ SubSeq(header, 7, 11) = operation
  /\ SubSeq(header, 12, 13) = b
  /\ SubSeq(header, 14, 15) = CRLF

\* The fields of a header are found at their places.
LEMMA HeaderLayout ==
  ASSUME NEW a \in Seq(Byte), NEW namespace \in Seq(Byte), NEW operation \in Seq(Byte),
         NEW b \in Seq(Byte), Len(a) = 2, Len(namespace) = 4, Len(operation) = 5, Len(b) = 2
  PROVE  HasFields(Header(a, namespace, operation, b), a, namespace, operation, b)
<1> DEFINE h2 == a \o namespace
           h3 == h2 \o operation
           h4 == h3 \o b
           h5 == h4 \o CRLF
<1>0. CRLF \in Seq(Byte) /\ Len(CRLF) = 2
  BY DEF CRLF, Byte
<1>9. SubSeq(a, 1, 2) = a
  BY SubSeqFull
<1>1. /\ h2 \in Seq(Byte) /\ Len(h2) = 6
      /\ SubSeq(h2, 3, 6) = namespace
      /\ SubSeq(h2, 1, 2) = a
  <2>1. /\ h2 \in Seq(Byte) /\ Len(h2) = Len(a) + Len(namespace)
        /\ SubSeq(h2, Len(a) + 1, Len(a) + Len(namespace)) = namespace
        /\ \A m, n \in 1..Len(a) : SubSeq(h2, m, n) = SubSeq(a, m, n)
    BY <1>9, Joined, Zenon
  <2>2. SubSeq(h2, 1, 2) = SubSeq(a, 1, 2)
    <3>1. 1 \in 1..Len(a) /\ 2 \in 1..Len(a)
      BY <1>9, SMT
    <3> QED
      BY <2>1, <3>1, Zenon
  <2>3. Len(h2) = 6 /\ SubSeq(h2, 3, 6) = namespace
    <3>1. Len(a) = 2 /\ Len(namespace) = 4
      BY <1>9, Zenon
    <3>2. /\ Len(a) + 1 = 3
          /\ Len(a) + Len(namespace) = 6
      BY <3>1
    <3> QED
      BY <2>1, <3>2, Zenon
  <2> QED
    BY <1>9, <2>1, <2>2, <2>3, Zenon
<1> HIDE DEF h2
<1>2. /\ h3 \in Seq(Byte) /\ Len(h3) = 11
      /\ SubSeq(h3, 7, 11) = operation
      /\ SubSeq(h3, 1, 2) = a
      /\ SubSeq(h3, 3, 6) = namespace
  <2>1. /\ h3 \in Seq(Byte) /\ Len(h3) = Len(h2) + Len(operation)
        /\ SubSeq(h3, Len(h2) + 1, Len(h2) + Len(operation)) = operation
        /\ \A m, n \in 1..Len(h2) : SubSeq(h3, m, n) = SubSeq(h2, m, n)
    BY <1>1, Joined, Zenon
  <2>2. SubSeq(h3, 1, 2) = SubSeq(h2, 1, 2)
    <3>1. 1 \in 1..Len(h2) /\ 2 \in 1..Len(h2)
      BY <1>1, SMT
    <3> QED
      BY <2>1, <3>1, Zenon
  <2>3. SubSeq(h3, 3, 6) = SubSeq(h2, 3, 6)
    <3>1. 3 \in 1..Len(h2) /\ 6 \in 1..Len(h2)
      BY <1>1, SMT
    <3> QED
      BY <2>1, <3>1, Zenon
  <2>4. Len(h3) = 11 /\ SubSeq(h3, 7, 11) = operation
    <3>1. Len(h2) = 6 /\ Len(operation) = 5
      BY <1>1, Zenon
    <3>2. /\ Len(h2) + 1 = 7
          /\ Len(h2) + Len(operation) = 11
      BY <3>1
    <3> QED
      BY <2>1, <3>2, Zenon
  <2> QED
    BY <1>1, <2>1, <2>2, <2>3, <2>4, Zenon
<1> HIDE DEF h3
<1>3. /\ h4 \in Seq(Byte) /\ Len(h4) = 13
      /\ SubSeq(h4, 12, 13) = b
      /\ SubSeq(h4, 1, 2) = a
      /\ SubSeq(h4, 3, 6) = namespace
      /\ SubSeq(h4, 7, 11) = operation
  <2>1. /\ h4 \in Seq(Byte) /\ Len(h4) = Len(h3) + Len(b)
        /\ SubSeq(h4, Len(h3) + 1, Len(h3) + Len(b)) = b
        /\ \A m, n \in 1..Len(h3) : SubSeq(h4, m, n) = SubSeq(h3, m, n)
    BY <1>2, Joined, Zenon
  <2>2. SubSeq(h4, 1, 2) = SubSeq(h3, 1, 2)
    <3>1. 1 \in 1..Len(h3) /\ 2 \in 1..Len(h3)
      BY <1>2, SMT
    <3> QED
      BY <2>1, <3>1, Zenon
  <2>3. SubSeq(h4, 3, 6) = SubSeq(h3, 3, 6)
    <3>1. 3 \in 1..Len(h3) /\ 6 \in 1..Len(h3)
      BY <1>2, SMT
    <3> QED
      BY <2>1, <3>1, Zenon
  <2>4. SubSeq(h4, 7, 11) = SubSeq(h3, 7, 11)
    <3>1. 7 \in 1..Len(h3) /\ 11 \in 1..Len(h3)
      BY <1>2, SMT
    <3> QED
      BY <2>1, <3>1, Zenon
  <2>5. Len(h4) = 13 /\ SubSeq(h4, 12, 13) = b
    <3>1. Len(h3) = 11 /\ Len(b) = 2
      BY <1>2, Zenon
    <3>2. /\ Len(h3) + 1 = 12
          /\ Len(h3) + Len(b) = 13
      BY <3>1
    <3> QED
      BY <2>1, <3>2, Zenon
  <2> QED
    BY <1>2, <2>1, <2>2, <2>3, <2>4, <2>5, Zenon
<1> HIDE DEF h4
<1>4. /\ h5 \in Seq(Byte) /\ Len(h5) = 15
      /\ SubSeq(h5, 14, 15) = CRLF
      /\ SubSeq(h5, 1, 2) = a
      /\ SubSeq(h5, 3, 6) = namespace
      /\ SubSeq(h5, 7, 11) = operation
      /\ SubSeq(h5, 12, 13) = b
  <2>1. /\ h5 \in Seq(Byte) /\ Len(h5) = Len(h4) + Len(CRLF)
        /\ SubSeq(h5, Len(h4) + 1, Len(h4) + Len(CRLF)) = CRLF
        /\ \A m, n \in 1..Len(h4) : SubSeq(h5, m, n) = SubSeq(h4, m, n)
    BY <1>0, <1>3, Joined, Zenon
  <2>2. SubSeq(h5, 1, 2) = SubSeq(h4, 1, 2)
    <3>1. 1 \in 1..Len(h4) /\ 2 \in 1..Len(h4)
      BY <1>0, <1>3, SMT
    <3> QED
      BY <2>1, <3>1, Zenon
  <2>3. SubSeq(h5, 3, 6) = SubSeq(h4, 3, 6)
    <3>1. 3 \in 1..Len(h4) /\ 6 \in 1..Len(h4)
      BY <1>0, <1>3, SMT
    <3> QED
      BY <2>1, <3>1, Zenon
  <2>4. SubSeq(h5, 7, 11) = SubSeq(h4, 7, 11)
    <3>1. 7 \in 1..Len(h4) /\ 11 \in 1..Len(h4)
      BY <1>0, <1>3, SMT
    <3> QED
      BY <2>1, <3>1, Zenon
  <2>5. SubSeq(h5, 12, 13) = SubSeq(h4, 12, 13)
    <3>1. 12 \in 1..Len(h4) /\ 13 \in 1..Len(h4)
      BY <1>0, <1>3, SMT
    <3> QED
      BY <2>1, <3>1, Zenon
  <2>6. Len(h5) = 15 /\ SubSeq(h5, 14, 15) = CRLF
    <3>1. Len(h4) = 13 /\ Len(CRLF) = 2
      BY <1>0, <1>3, Zenon
    <3>2. /\ Len(h4) + 1 = 14
          /\ Len(h4) + Len(CRLF) = 15
      BY <3>1
    <3> QED
      BY <2>1, <3>2, Zenon
  <2> QED
    BY <1>0, <1>3, <2>1, <2>2, <2>3, <2>4, <2>5, <2>6, Zenon
<1>5. h5 = Header(a, namespace, operation, b)
  BY DEF h2, h3, h4, Header
<1> QED
  BY <1>4, <1>5 DEF HasFields

\* What there is in a packet of which n bytes of payload are read.
HasParts(packet, header, payload, n) ==
  LET rest == SubSeq(packet, 15 + n + 1, Len(packet))
  IN  /\ packet \in Seq(Byte)
      /\ Len(packet) = 15 + Len(payload)
      /\ SubSeq(packet, 1, 15) = header
      /\ \A i, j \in 1..15 : SubSeq(packet, i, j) = SubSeq(header, i, j)
      /\ SubSeq(packet, 15 + 1, 15 + n) = SubSeq(payload, 1, n)
      /\ rest \in Seq(Byte)
      /\ (rest = <<>>) <=> (n = Len(payload))

\* A packet is its header and its payload, however much of that is read.
LEMMA PacketLayout ==
  ASSUME NEW header \in Seq(Byte), NEW payload \in Seq(Byte), Len(header) = 15,
         NEW n \in 0..Len(payload)
  PROVE  HasParts(header \o payload, header, payload, n)
<1> DEFINE packet == header \o payload
           rest == SubSeq(packet, 15 + n + 1, Len(packet))
<1>0. Len(payload) \in Nat /\ n \in Nat
  BY LenProperties
<1>1. /\ packet \in Seq(Byte) /\ Len(packet) = 15 + Len(payload)
      /\ \A i, j \in 1..15 : SubSeq(packet, i, j) = SubSeq(header, i, j)
      /\ SubSeq(packet, 15 + 1, 15 + n) = SubSeq(payload, 1, n)
  <2>1. /\ packet \in Seq(Byte) /\ Len(packet) = Len(header) + Len(payload)
        /\ \A i, j \in 1..Len(header) : SubSeq(packet, i, j) = SubSeq(header, i, j)
        /\ SubSeq(packet, Len(header) + 1, Len(header) + n) = SubSeq(payload, 1, n)
    BY Joined, Zenon
  <2> QED
    BY <2>1
<1>2. SubSeq(packet, 1, 15) = header
  <2>1. SubSeq(packet, 1, 15) = SubSeq(header, 1, 15)
    <3>1. 1 \in 1..15 /\ 15 \in 1..15
      OBVIOUS
    <3> QED
      BY <1>1, <3>1, Zenon
  <2>2. SubSeq(header, 1, Len(header)) = header
    BY SubSeqFull
  <2> QED
    BY <2>1, <2>2
<1> HIDE DEF packet
<1>3. /\ rest \in Seq(Byte)
      /\ Len(rest) = IF 15 + n + 1 <= Len(packet) THEN Len(packet) - (15 + n + 1) + 1 ELSE 0
  <2>1. \A i \in 15 + n + 1..Len(packet) : packet[i] \in Byte
    BY <1>0, <1>1, ElementOfSeq
  <2> QED
    BY <1>0, <1>1, <2>1, SubSeqProperties
<1> HIDE DEF rest
<1>4. (rest = <<>>) <=> (Len(rest) = 0)
  BY <1>3, EmptySeq
<1>5. (rest = <<>>) <=> (n = Len(payload))
  BY <1>0, <1>1, <1>3, <1>4
<1> QED
  BY <1>1, <1>2, <1>3, <1>5 DEF packet, rest, HasParts

\* The numbers of 16 bits, as inequalities.
LEMMA Interval ==
  ASSUME NEW n, NEW l \in Int, NEW h \in Int
  PROVE  n \in l..h <=> n \in Int /\ l <= n /\ n <= h
  BY SMT

\* Uint16 are the numbers up to 65535.
LEMMA SixteenBits == \A n : n \in Uint16 <=> n \in Nat /\ n <= 65535
<1> TAKE n
<1>1. 2^16 - 1 = 65535
  BY SMT
<1>2. n \in Uint16 <=> n \in Int /\ 0 <= n /\ n <= 65535
  BY <1>1, Interval DEF Uint16
<1> QED
  BY <1>2, SMT

\* Numbers of 16 bits are themselves.
LEMMA Uint16OfSmall ==
  ASSUME NEW n \in Uint16
  PROVE  n \in Nat /\ Uint16Of(n) = n
<1>1. n \in Nat /\ n <= 65535
  BY SixteenBits, SMT
<1>2. n % 65536 = n
  BY <1>1, SMT
<1> QED
  BY <1>1, <1>2, SMT DEF Uint16Of

Oversized(n) == n > 65535

\* A length is cut to a smaller one, and only if it is beyond 16 bits.
LEMMA Uint16OfAny ==
  ASSUME NEW n \in Nat
  PROVE  /\ Uint16Of(n) \in 0..n
         /\ (Uint16Of(n) = n) <=> ~Oversized(n)
<1>1. n % 65536 \in 0..n
  BY SMT
<1>2. n <= 65535 => n % 65536 = n
  BY SMT
<1>3. n > 65535 => n % 65536 # n
  BY SMT
<1> QED
  BY <1>1, <1>2, <1>3, SMT DEF Uint16Of, Oversized

\* A number as two bytes, and back: its value modulo 2^16.
LEMMA TwoBytes ==
  ASSUME NEW n \in Int
  PROVE  /\ BigEndian(n) \in Seq(Byte)
         /\ Len(BigEndian(n)) = 2
         /\ Ntohs(BigEndian(n)) = Uint16Of(n)
<1>1. NthByte(n, 0) = n % 256 /\ NthByte(n, 1) = (n \div 256) % 256
  <2>1. 256^0 = 1 /\ 256^1 = 256
    BY SMT
  <2> QED
    BY <2>1 DEF NthByte
<1>2. n % 256 \in Byte /\ (n \div 256) % 256 \in Byte
  BY DEF Byte
<1>3. 256 * ((n \div 256) % 256) + (n % 256) = n % 65536
  OBVIOUS
<1>4. BigEndian(n) = <<(n \div 256) % 256, n % 256>>
  BY <1>1 DEF BigEndian
<1>5. BigEndian(n) \in Seq(Byte) /\ Len(BigEndian(n)) = 2
  BY <1>2, <1>4
<1>6. BigEndian(n)[1] = (n \div 256) % 256 /\ BigEndian(n)[2] = n % 256
  BY <1>4
<1> QED
  BY <1>3, <1>5, <1>6 DEF Ntohs, Uint16Of

\* What the encoder of either side puts on the wire is a header, with the number
\* and the length in two bytes each, and the payload.
LEMMA RequestWire ==
  ASSUME NEW r, Encodable(r)
  PROVE  LET header == Header(BigEndian(r.channel_number), r.namespace, r.operation,
                              BigEndian(Len(r.payload)))
         IN  /\ EncodeRequest(r) = header \o r.payload
             /\ (r.payload_size = Len(r.payload)) => (IpcRequestEncode(r) = header \o r.payload)
<1>1. r.payload \in Seq(Byte)
  BY DEF Encodable
<1>2. SubSeq(r.payload, 1, Len(r.payload)) = r.payload
  BY <1>1, SubSeqFull
<1> QED
  BY <1>2 DEF EncodeRequest, IpcRequestEncode, Header

\* The fields of such a header.
LEMMA HeaderFields ==
  ASSUME NEW r, Encodable(r)
  PROVE  LET header == Header(BigEndian(r.channel_number), r.namespace, r.operation,
                              BigEndian(Len(r.payload)))
         IN  /\ header \in Seq(Byte)
             /\ Len(header) = 15
             /\ Ntohs(SubSeq(header, 1, 2)) = Uint16Of(r.channel_number)
             /\ SubSeq(header, 3, 6) = r.namespace
             /\ SubSeq(header, 7, 11) = r.operation
             /\ Ntohs(SubSeq(header, 12, 13)) = Uint16Of(Len(r.payload))
             /\ SubSeq(header, 14, 15) = CRLF
<1> DEFINE number == BigEndian(r.channel_number)
           length == BigEndian(Len(r.payload))
<1>1. /\ r.namespace \in Seq(Byte) /\ Len(r.namespace) = 4
      /\ r.operation \in Seq(Byte) /\ Len(r.operation) = 5
      /\ r.channel_number \in Int /\ Len(r.payload) \in Int
  BY LenProperties DEF Encodable, NAMESPACE_SIZE, OPERATION_SIZE
<1>2. /\ number \in Seq(Byte) /\ Len(number) = 2
      /\ Ntohs(number) = Uint16Of(r.channel_number)
  BY <1>1, TwoBytes
<1>3. /\ length \in Seq(Byte) /\ Len(length) = 2
      /\ Ntohs(length) = Uint16Of(Len(r.payload))
  BY <1>1, TwoBytes
<1> HIDE DEF number, length
<1>4. HasFields(Header(number, r.namespace, r.operation, length),
                number, r.namespace, r.operation, length)
  BY <1>1, <1>2, <1>3, HeaderLayout, Zenon
<1> QED
  BY <1>2, <1>3, <1>4 DEF HasFields, number, length

\* ipc_request_decode_header leaves both texts whole, whatever was in the memory:
\* the terminators hit neither, the first because the operation is copied over it.
LEMMA HeaderDecoded ==
  ASSUME NEW header \in Seq(Byte), Len(header) = 15, NEW fresh \in [1..TextSize -> Byte]
  PROVE  LET s == DecodeHeader(header, fresh)
         IN  /\ s.channel_number = Ntohs(SubSeq(header, 1, 2))
             /\ s.payload_size = Ntohs(SubSeq(header, 12, 13))
             /\ NamespaceOf(s) = SubSeq(header, 3, 6)
             /\ OperationOf(s) = SubSeq(header, 7, 11)
<1> DEFINE namespace == SubSeq(header, 3, 6)
           operation == SubSeq(header, 7, 11)
           t1 == Store(fresh, NAMESPACE, namespace)
           t2 == Store(t1, NAMESPACE + NAMESPACE_SIZE + 1, <<0>>)
           t3 == Store(t2, OPERATION, operation)
           t4 == Store(t3, OPERATION + OPERATION_SIZE + 1, <<0>>)
<1>1. /\ namespace \in Seq(Byte) /\ Len(namespace) = 4
      /\ operation \in Seq(Byte) /\ Len(operation) = 5
  <2>1. \A i \in 1..15 : header[i] \in Byte
    BY ElementOfSeq
  <2>2. namespace \in Seq(Byte) /\ Len(namespace) = (IF 3 <= 6 THEN 6 - 3 + 1 ELSE 0)
    <3>1. \A i \in 3..6 : header[i] \in Byte
      BY <2>1
    <3> QED
      BY <3>1, SubSeqProperties
  <2>3. operation \in Seq(Byte) /\ Len(operation) = (IF 7 <= 11 THEN 11 - 7 + 1 ELSE 0)
    <3>1. \A i \in 7..11 : header[i] \in Byte
      BY <2>1
    <3> QED
      BY <3>1, SubSeqProperties
  <2> QED
    BY <2>2, <2>3
<1> HIDE DEF namespace, operation
<1>2. Len(<<0>>) = 1
  OBVIOUS
<1>3. t1 = [i \in 1..12 |-> IF i \in 1..4 THEN namespace[i - 1 + 1] ELSE fresh[i]]
  BY <1>1 DEF Store, NAMESPACE, NAMESPACE_SIZE, OPERATION, OPERATION_SIZE, TextSize
<1> HIDE DEF t1
<1>4. t2 = [i \in 1..12 |-> IF i \in 6..6 THEN <<0>>[i - 6 + 1] ELSE t1[i]]
  BY <1>2, <1>3 DEF Store, NAMESPACE, NAMESPACE_SIZE
<1> HIDE DEF t2
<1>5. t3 = [i \in 1..12 |-> IF i \in 6..10 THEN operation[i - 6 + 1] ELSE t2[i]]
  BY <1>1, <1>4 DEF Store, OPERATION, NAMESPACE, NAMESPACE_SIZE
<1> HIDE DEF t3
<1>6. t4 = [i \in 1..12 |-> IF i \in 12..12 THEN <<0>>[i - 12 + 1] ELSE t3[i]]
  BY <1>2, <1>5 DEF Store, OPERATION, NAMESPACE, NAMESPACE_SIZE, OPERATION_SIZE
<1> HIDE DEF t4
<1>7. \A i \in 1..4 : t4[i] = namespace[i]
  BY <1>3, <1>4, <1>5, <1>6
<1>8. \A i \in 1..5 : t4[6 + i - 1] = operation[i]
  BY <1>5, <1>6
<1>9. SubSeq(t4, 1, 4) = namespace
  <2>1. \A i \in 1..4 : t4[i] \in Byte
    BY <1>1, <1>7, ElementOfSeq
  <2>2. /\ SubSeq(t4, 1, 4) \in Seq(Byte)
        /\ Len(SubSeq(t4, 1, 4)) = (IF 1 <= 4 THEN 4 - 1 + 1 ELSE 0)
        /\ \A i \in 1..4 - 1 + 1 : SubSeq(t4, 1, 4)[i] = t4[1 + i - 1]
    BY <2>1, SubSeqProperties
  <2> DEFINE part == SubSeq(t4, 1, 4)
  <2> HIDE DEF part
  <2>3. part \in Seq(Byte) /\ Len(part) = Len(namespace) /\ \A i \in 1..Len(part) : part[i] = namespace[i]
    BY <1>1, <1>7, <2>2 DEF part
  <2>4. part = namespace
    BY <1>1, <2>3, SeqEqual
  <2> QED
    BY <2>4 DEF part
<1>10. SubSeq(t4, 6, 10) = operation
  <2>1. \A i \in 6..10 : t4[i] \in Byte
    <3>1. \A i \in 1..5 : operation[i] \in Byte
      BY <1>1, ElementOfSeq
    <3>2. \A i \in 6..10 : i - 5 \in 1..5 /\ 6 + (i - 5) - 1 = i
      OBVIOUS
    <3> QED
      BY <1>8, <3>1, <3>2
  <2>2. /\ SubSeq(t4, 6, 10) \in Seq(Byte)
        /\ Len(SubSeq(t4, 6, 10)) = (IF 6 <= 10 THEN 10 - 6 + 1 ELSE 0)
        /\ \A i \in 1..10 - 6 + 1 : SubSeq(t4, 6, 10)[i] = t4[6 + i - 1]
    BY <2>1, SubSeqProperties
  <2> DEFINE part == SubSeq(t4, 6, 10)
  <2> HIDE DEF part
  <2>3. part \in Seq(Byte) /\ Len(part) = Len(operation) /\ \A i \in 1..Len(part) : part[i] = operation[i]
    BY <1>1, <1>8, <2>2 DEF part
  <2>4. part = operation
    BY <1>1, <2>3, SeqEqual
  <2> QED
    BY <2>4 DEF part
<1>11. DecodeHeader(header, fresh) = [channel_number |-> Ntohs(SubSeq(header, 1, 2)),
                                      text |-> t4,
                                      payload_size |-> Ntohs(SubSeq(header, 12, 13))]
  BY DEF DecodeHeader, namespace, operation, t1, t2, t3, t4
<1> QED
  BY <1>9, <1>10, <1>11 DEF namespace, operation, NamespaceOf, OperationOf,
     NAMESPACE, NAMESPACE_SIZE, OPERATION, OPERATION_SIZE

\* A response is three numbers of two bytes and a line end, and is decoded to them.
LEMMA ResponseRoundTrip ==
  ASSUME NEW number \in Uint16, NEW code \in Uint16, NEW value \in Uint16
  PROVE  LET packet == EncodeResponse([channel_number |-> number, return_code |-> code,
                                       return_value |-> value])
         IN  /\ packet \in Seq(Byte)
             /\ DecodesResponse(packet)
             /\ DecodeResponse(packet) = [channel_number |-> number, return_code |-> code,
                                          return_value |-> value]
<1> DEFINE a == BigEndian(number)
           b == BigEndian(code)
           c == BigEndian(value)
           p2 == a \o b
           p3 == p2 \o c
           p4 == p3 \o CRLF
<1>1. \A n \in Uint16 : n \in Int /\ Uint16Of(n) = n
  BY Uint16OfSmall
<1>2. a \in Seq(Byte) /\ Len(a) = 2 /\ Ntohs(a) = number
  BY <1>1, TwoBytes
<1>3. b \in Seq(Byte) /\ Len(b) = 2 /\ Ntohs(b) = code
  BY <1>1, TwoBytes
<1>4. c \in Seq(Byte) /\ Len(c) = 2 /\ Ntohs(c) = value
  BY <1>1, TwoBytes
<1>5. CRLF \in Seq(Byte) /\ Len(CRLF) = 2 /\ SubSeq(a, 1, 2) = a
  BY <1>2, SubSeqFull DEF CRLF, Byte
<1>6. p4 = EncodeResponse([channel_number |-> number, return_code |-> code, return_value |-> value])
  BY DEF EncodeResponse
<1> HIDE DEF a, b, c
<1>7. /\ p2 \in Seq(Byte) /\ Len(p2) = 4
      /\ SubSeq(p2, 3, 4) = b
      /\ SubSeq(p2, 1, 2) = a
  <2>1. /\ p2 \in Seq(Byte) /\ Len(p2) = Len(a) + Len(b)
        /\ SubSeq(p2, Len(a) + 1, Len(a) + Len(b)) = b
        /\ \A m, n \in 1..Len(a) : SubSeq(p2, m, n) = SubSeq(a, m, n)
    BY <1>2, <1>3, <1>5, Joined, Zenon
  <2>2. SubSeq(p2, 1, 2) = SubSeq(a, 1, 2)
    <3>1. 1 \in 1..Len(a) /\ 2 \in 1..Len(a)
      BY <1>2, <1>3, <1>5, SMT
    <3> QED
      BY <2>1, <3>1, Zenon
  <2>3. Len(p2) = 4 /\ SubSeq(p2, 3, 4) = b
    <3>1. Len(a) = 2 /\ Len(b) = 2
      BY <1>2, <1>3, <1>5, Zenon
    <3>2. /\ Len(a) + 1 = 3
          /\ Len(a) + Len(b) = 4
      BY <3>1
    <3> QED
      BY <2>1, <3>2, Zenon
  <2> QED
    BY <1>2, <1>3, <1>5, <2>1, <2>2, <2>3, Zenon
<1> HIDE DEF p2
<1>8. /\ p3 \in Seq(Byte) /\ Len(p3) = 6
      /\ SubSeq(p3, 5, 6) = c
      /\ SubSeq(p3, 1, 2) = a
      /\ SubSeq(p3, 3, 4) = b
  <2>1. /\ p3 \in Seq(Byte) /\ Len(p3) = Len(p2) + Len(c)
        /\ SubSeq(p3, Len(p2) + 1, Len(p2) + Len(c)) = c
        /\ \A m, n \in 1..Len(p2) : SubSeq(p3, m, n) = SubSeq(p2, m, n)
    BY <1>4, <1>7, Joined, Zenon
  <2>2. SubSeq(p3, 1, 2) = SubSeq(p2, 1, 2)
    <3>1. 1 \in 1..Len(p2) /\ 2 \in 1..Len(p2)
      BY <1>4, <1>7, SMT
    <3> QED
      BY <2>1, <3>1, Zenon
  <2>3. SubSeq(p3, 3, 4) = SubSeq(p2, 3, 4)
    <3>1. 3 \in 1..Len(p2) /\ 4 \in 1..Len(p2)
      BY <1>4, <1>7, SMT
    <3> QED
      BY <2>1, <3>1, Zenon
  <2>4. Len(p3) = 6 /\ SubSeq(p3, 5, 6) = c
    <3>1. Len(p2) = 4 /\ Len(c) = 2
      BY <1>4, <1>7, Zenon
    <3>2. /\ Len(p2) + 1 = 5
          /\ Len(p2) + Len(c) = 6
      BY <3>1
    <3> QED
      BY <2>1, <3>2, Zenon
  <2> QED
    BY <1>4, <1>7, <2>1, <2>2, <2>3, <2>4, Zenon
<1> HIDE DEF p3
<1>9. /\ p4 \in Seq(Byte) /\ Len(p4) = 8
      /\ SubSeq(p4, 7, 8) = CRLF
      /\ SubSeq(p4, 1, 2) = a
      /\ SubSeq(p4, 3, 4) = b
      /\ SubSeq(p4, 5, 6) = c
  <2>1. /\ p4 \in Seq(Byte) /\ Len(p4) = Len(p3) + Len(CRLF)
        /\ SubSeq(p4, Len(p3) + 1, Len(p3) + Len(CRLF)) = CRLF
        /\ \A m, n \in 1..Len(p3) : SubSeq(p4, m, n) = SubSeq(p3, m, n)
    BY <1>5, <1>8, Joined, Zenon
  <2>2. SubSeq(p4, 1, 2) = SubSeq(p3, 1, 2)
    <3>1. 1 \in 1..Len(p3) /\ 2 \in 1..Len(p3)
      BY <1>5, <1>8, SMT
    <3> QED
      BY <2>1, <3>1, Zenon
  <2>3. SubSeq(p4, 3, 4) = SubSeq(p3, 3, 4)
    <3>1. 3 \in 1..Len(p3) /\ 4 \in 1..Len(p3)
      BY <1>5, <1>8, SMT
    <3> QED
      BY <2>1, <3>1, Zenon
  <2>4. SubSeq(p4, 5, 6) = SubSeq(p3, 5, 6)
    <3>1. 5 \in 1..Len(p3) /\ 6 \in 1..Len(p3)
      BY <1>5, <1>8, SMT
    <3> QED
      BY <2>1, <3>1, Zenon
  <2>5. Len(p4) = 8 /\ SubSeq(p4, 7, 8) = CRLF
    <3>1. Len(p3) = 6 /\ Len(CRLF) = 2
      BY <1>5, <1>8, Zenon
    <3>2. /\ Len(p3) + 1 = 7
          /\ Len(p3) + Len(CRLF) = 8
      BY <3>1
    <3> QED
      BY <2>1, <3>2, Zenon
  <2> QED
    BY <1>5, <1>8, <2>1, <2>2, <2>3, <2>4, <2>5, Zenon
<1> HIDE DEF p4
<1>10. ResponseSize = 8
  BY DEF ResponseSize, CRLF
<1>11. DecodesResponse(p4)
  BY <1>9, <1>10 DEF DecodesResponse
<1> QED
  BY <1>2, <1>3, <1>4, <1>6, <1>9, <1>11 DEF DecodeResponse

\* What RequestArrives says of the two ends of a request.
Arrived(sent, got) ==
  got = [channel_number |-> Uint16Of(sent.channel_number),
         namespace      |-> sent.namespace,
         operation      |-> sent.operation,
         payload        |-> SubSeq(sent.payload, 1, Uint16Of(Len(sent.payload)))]

\* get_request of any request on the wire.
LEMMA VmGetsRequest ==
  ASSUME NEW r, Encodable(r), NEW fresh \in [1..TextSize -> Byte]
  PROVE  LET packet == EncodeRequest(r)
             s == DecodeHeader(SubSeq(packet, 1, HeaderSize), fresh)
             end == HeaderSize + s.payload_size
             rest == SubSeq(packet, end + 1, Len(packet))
         IN  /\ Arrived(r, AsRequest(s, SubSeq(packet, HeaderSize + 1, end)))
             /\ rest \in Seq(Byte)
             /\ (rest # <<>>) <=> Oversized(Len(r.payload))
<1> DEFINE header == Header(BigEndian(r.channel_number), r.namespace, r.operation,
                            BigEndian(Len(r.payload)))
           packet == EncodeRequest(r)
           n == Uint16Of(Len(r.payload))
           rest == SubSeq(packet, 15 + n + 1, Len(packet))
           s == DecodeHeader(header, fresh)
<1>1. /\ header \in Seq(Byte)
      /\ Len(header) = 15
      /\ Ntohs(SubSeq(header, 1, 2)) = Uint16Of(r.channel_number)
      /\ SubSeq(header, 3, 6) = r.namespace
      /\ SubSeq(header, 7, 11) = r.operation
      /\ Ntohs(SubSeq(header, 12, 13)) = n
  BY HeaderFields
<1>2. packet = header \o r.payload
  BY RequestWire
<1> HIDE DEF header, packet
<1>3. /\ r.payload \in Seq(Byte) /\ Len(r.payload) \in Nat
      /\ n \in 0..Len(r.payload)
      /\ (n = Len(r.payload)) <=> ~Oversized(Len(r.payload))
  <2>1. r.payload \in Seq(Byte) /\ Len(r.payload) \in Nat
    BY LenProperties DEF Encodable
  <2> QED
    BY <2>1, Uint16OfAny, Zenon
<1> HIDE DEF n
<1>4. /\ SubSeq(packet, 1, 15) = header
      /\ SubSeq(packet, 15 + 1, 15 + n) = SubSeq(r.payload, 1, n)
      /\ rest \in Seq(Byte)
      /\ (rest = <<>>) <=> (n = Len(r.payload))
  <2>1. HasParts(header \o r.payload, header, r.payload, n)
    <3>1. header \in Seq(Byte) /\ Len(header) = 15
      BY <1>1
    <3>2. r.payload \in Seq(Byte) /\ n \in 0..Len(r.payload)
      BY <1>3
    <3> QED
      BY <3>1, <3>2, PacketLayout, Zenon
  <2> QED
    BY <1>2, <2>1 DEF HasParts
<1>5. /\ s.channel_number = Uint16Of(r.channel_number)
      /\ s.payload_size = n
      /\ NamespaceOf(s) = r.namespace
      /\ OperationOf(s) = r.operation
  BY <1>1, HeaderDecoded
<1> HIDE DEF s, rest
<1>6. HeaderSize = 15
  BY DEF HeaderSize, NAMESPACE_SIZE, OPERATION_SIZE, CRLF
<1>7. AsRequest(s, SubSeq(packet, 15 + 1, 15 + s.payload_size))
        = [channel_number |-> Uint16Of(r.channel_number), namespace |-> r.namespace,
           operation |-> r.operation, payload |-> SubSeq(r.payload, 1, n)]
  BY <1>4, <1>5 DEF AsRequest
<1>8. DecodeHeader(SubSeq(packet, 1, HeaderSize), fresh) = s
  BY <1>4, <1>6 DEF s
<1>9. Arrived(r, AsRequest(s, SubSeq(packet, HeaderSize + 1, HeaderSize + s.payload_size)))
  BY <1>6, <1>7 DEF Arrived, n
<1>10. rest = SubSeq(packet, HeaderSize + s.payload_size + 1, Len(packet))
  BY <1>5, <1>6 DEF rest
<1> QED
  BY <1>3, <1>4, <1>8, <1>9, <1>10 DEF packet

\* RequestPacket.decode of any request the VM encodes.
LEMMA ServerGetsRequest ==
  ASSUME NEW r, Encodable(r), Len(r.payload) \in Uint16, r.payload_size = Len(r.payload)
  PROVE  /\ DecodesRequest(IpcRequestEncode(r))
         /\ Arrived(r, DecodeRequest(IpcRequestEncode(r)))
<1> DEFINE header == Header(BigEndian(r.channel_number), r.namespace, r.operation,
                            BigEndian(Len(r.payload)))
           packet == IpcRequestEncode(r)
           n == Len(r.payload)
<1>1. /\ header \in Seq(Byte)
      /\ Len(header) = 15
      /\ Ntohs(SubSeq(header, 1, 2)) = Uint16Of(r.channel_number)
      /\ SubSeq(header, 3, 6) = r.namespace
      /\ SubSeq(header, 7, 11) = r.operation
      /\ Ntohs(SubSeq(header, 12, 13)) = Uint16Of(n)
      /\ SubSeq(header, 14, 15) = CRLF
  BY HeaderFields
<1>2. packet = header \o r.payload
  BY RequestWire
<1> HIDE DEF header, packet
<1>3. /\ r.payload \in Seq(Byte) /\ n \in Nat
      /\ n \in 0..Len(r.payload)
      /\ Uint16Of(n) = n
  <2>1. r.payload \in Seq(Byte) /\ Len(r.payload) \in Nat
    BY LenProperties DEF Encodable
  <2>2. Uint16Of(n) = n
    BY Uint16OfSmall
  <2>3. n \in 0..Len(r.payload)
    BY <2>1
  <2> QED
    BY <2>1, <2>2, <2>3
<1>4. /\ Len(packet) = 15 + Len(r.payload)
      /\ \A i, j \in 1..15 : SubSeq(packet, i, j) = SubSeq(header, i, j)
      /\ SubSeq(packet, 15 + 1, 15 + n) = SubSeq(r.payload, 1, n)
  <2>1. HasParts(header \o r.payload, header, r.payload, n)
    <3>1. header \in Seq(Byte) /\ Len(header) = 15
      BY <1>1
    <3>2. r.payload \in Seq(Byte) /\ n \in 0..Len(r.payload)
      BY <1>3
    <3> QED
      BY <3>1, <3>2, PacketLayout, Zenon
  <2> QED
    BY <1>2, <2>1 DEF HasParts
<1>5. /\ SubSeq(packet, 1, 2) = SubSeq(header, 1, 2)
      /\ SubSeq(packet, 3, 6) = SubSeq(header, 3, 6)
      /\ SubSeq(packet, 7, 11) = SubSeq(header, 7, 11)
      /\ SubSeq(packet, 12, 13) = SubSeq(header, 12, 13)
      /\ SubSeq(packet, 14, 15) = SubSeq(header, 14, 15)
  <2>1. /\ 1 \in 1..15 /\ 2 \in 1..15 /\ 3 \in 1..15 /\ 6 \in 1..15
        /\ 7 \in 1..15 /\ 11 \in 1..15 /\ 12 \in 1..15 /\ 13 \in 1..15
        /\ 14 \in 1..15 /\ 15 \in 1..15
    OBVIOUS
  <2> QED
    BY <1>4, <2>1, Zenon
<1>6. HeaderSize = 15
  BY DEF HeaderSize, NAMESPACE_SIZE, OPERATION_SIZE, CRLF
<1>7. SubSeq(packet, HeaderSize + 1, Len(packet)) = SubSeq(r.payload, 1, Uint16Of(n))
  BY <1>3, <1>4, <1>6
<1>8. DecodesRequest(packet)
  <2>1. Len(packet) >= 15 /\ Len(packet) - 15 = n
    BY <1>3, <1>4
  <2>2. SubSeq(packet, 14, 15) = CRLF
    BY <1>1, <1>5
  <2>3. Ntohs(SubSeq(packet, 12, 13)) = n
    BY <1>1, <1>3, <1>5
  <2>4. HeaderSize - 1 = 14
    BY <1>6
  <2> QED
    BY <1>6, <2>1, <2>2, <2>3, <2>4 DEF DecodesRequest
<1> QED
  BY <1>1, <1>5, <1>7, <1>8 DEF DecodeRequest, Arrived, packet

\* A sequence of bytes has bytes at all its places.
LEMMA BytesOf ==
  ASSUME NEW s \in Seq(Byte)
  PROVE  \A i \in DOMAIN s : s[i] \in Byte
  BY LenProperties, ElementOfSeq

\* What arrives has numbers and lengths of 16 bits.
LEMMA ArrivedTyped ==
  ASSUME NEW r, Encodable(r), NEW got, Arrived(r, got)
  PROVE  /\ got.channel_number = Uint16Of(r.channel_number)
         /\ got.channel_number \in Uint16
         /\ Len(got.payload) \in Uint16
<1> DEFINE n == Uint16Of(Len(r.payload))
<1>1. r.payload \in Seq(Byte) /\ Len(r.payload) \in Nat /\ r.channel_number \in Int
  BY LenProperties DEF Encodable
<1>2. \A m \in Int : Uint16Of(m) \in Uint16
  <2> TAKE m \in Int
  <2>1. m % 65536 \in Nat /\ m % 65536 <= 65535
    BY SMT
  <2> QED
    BY <2>1, SixteenBits, SMT DEF Uint16Of
<1>3. n \in 0..Len(r.payload) /\ n \in Nat
  BY <1>1, Uint16OfAny
<1>4. Len(r.payload) \in Int
  BY <1>1
<1>5. n \in Uint16
  BY <1>2, <1>4, Zenon
<1> HIDE DEF n
<1>6. Len(SubSeq(r.payload, 1, n)) = n
  <2>1. \A i \in 1..n : r.payload[i] \in Byte
    BY <1>1, <1>3, ElementOfSeq
  <2>2. Len(SubSeq(r.payload, 1, n)) = IF 1 <= n THEN n - 1 + 1 ELSE 0
    BY <1>3, <2>1, SubSeqProperties
  <2> QED
    BY <1>3, <2>2
<1>7. /\ got.channel_number = Uint16Of(r.channel_number)
      /\ got.payload = SubSeq(r.payload, 1, n)
  BY DEF Arrived, n
<1> QED
  BY <1>1, <1>2, <1>5, <1>6, <1>7

\* The number of what arrives.
LEMMA NumberTyped ==
  ASSUME NEW r, Encodable(r)
  PROVE  Uint16Of(r.channel_number) \in Uint16
<1>1. r.channel_number \in Int
  BY DEF Encodable
<1>2. Uint16Of(r.channel_number) \in Nat /\ Uint16Of(r.channel_number) <= 65535
  BY <1>1, SMT DEF Uint16Of
<1> QED
  BY <1>2, SixteenBits, SMT

\* What goes onto the wire are bytes.
LEMMA RequestBytes ==
  ASSUME NEW r, Encodable(r)
  PROVE  /\ EncodeRequest(r) \in Seq(Byte)
         /\ (r.payload_size = Len(r.payload)) => (IpcRequestEncode(r) \in Seq(Byte))
<1> DEFINE header == Header(BigEndian(r.channel_number), r.namespace, r.operation,
                            BigEndian(Len(r.payload)))
<1>1. header \in Seq(Byte)
  BY HeaderFields
<1>2. r.payload \in Seq(Byte)
  BY DEF Encodable
<1>3. /\ EncodeRequest(r) = header \o r.payload
      /\ (r.payload_size = Len(r.payload)) => (IpcRequestEncode(r) = header \o r.payload)
  BY RequestWire
<1> HIDE DEF header
<1>4. header \o r.payload \in Seq(Byte)
  BY <1>1, <1>2, ConcatProperties
<1> QED
  BY <1>3, <1>4

\* Bytes are the numbers up to 255.
LEMMA EightBits == \A n : n \in Byte => n \in Nat /\ n <= 255
  BY Interval, SMT DEF Byte

\* Two bytes make a number of 16 bits.
LEMMA NtohsTyped ==
  ASSUME NEW bytes \in Seq(Byte), Len(bytes) = 2
  PROVE  Ntohs(bytes) \in Uint16
<1>1. bytes[1] \in Byte /\ bytes[2] \in Byte
  <2>1. 1 \in 1..Len(bytes) /\ 2 \in 1..Len(bytes)
    OBVIOUS
  <2> QED
    BY <2>1, ElementOfSeq
<1>2. /\ bytes[1] \in Nat /\ bytes[1] <= 255
      /\ bytes[2] \in Nat /\ bytes[2] <= 255
  BY <1>1, EightBits
<1>3. Ntohs(bytes) \in Nat /\ Ntohs(bytes) <= 65535
  BY <1>2, SMT DEF Ntohs
<1> QED
  BY <1>3, SixteenBits, SMT

\* What is stored in a piece of memory leaves bytes in all of it.
LEMMA Stored ==
  ASSUME NEW n \in Nat, NEW memory \in [1..n -> Byte], NEW offset \in Nat,
         NEW bytes \in Seq(Byte)
  PROVE  Store(memory, offset, bytes) \in [1..n -> Byte]
<1>1. Len(bytes) \in Nat
  BY LenProperties
<1>2. ASSUME NEW i \in 1..n, i \in offset..offset + Len(bytes) - 1
      PROVE  bytes[i - offset + 1] \in Byte
  <2>1. i - offset + 1 \in 1..Len(bytes)
    BY <1>1, <1>2
  <2> QED
    BY <2>1, ElementOfSeq
<1> QED
  BY <1>2 DEF Store

\* A piece of a header.
LEMMA HeaderPiece ==
  ASSUME NEW header \in Seq(Byte), Len(header) = 15, NEW l \in 1..15, NEW h \in l..15
  PROVE  SubSeq(header, l, h) \in Seq(Byte) /\ Len(SubSeq(header, l, h)) = h - l + 1
<1>1. \A i \in l..h : header[i] \in Byte
  <2>1. \A i \in l..h : i \in 1..Len(header)
    OBVIOUS
  <2> QED
    BY <2>1, ElementOfSeq
<1>2. /\ SubSeq(header, l, h) \in Seq(Byte)
      /\ Len(SubSeq(header, l, h)) = IF l <= h THEN h - l + 1 ELSE 0
  BY <1>1, SubSeqProperties
<1> QED
  BY <1>2

\* The struct a header is decoded to.
LEMMA DecodedTyped ==
  ASSUME NEW header \in Seq(Byte), Len(header) = 15, NEW fresh \in [1..TextSize -> Byte]
  PROVE  DecodeHeader(header, fresh) \in
           [channel_number : Uint16, text : [1..TextSize -> Byte], payload_size : Uint16]
<1> DEFINE namespace == SubSeq(header, 3, 6)
           operation == SubSeq(header, 7, 11)
           number == SubSeq(header, 1, 2)
           length == SubSeq(header, 12, 13)
           t1 == Store(fresh, NAMESPACE, namespace)
           t2 == Store(t1, NAMESPACE + NAMESPACE_SIZE + 1, <<0>>)
           t3 == Store(t2, OPERATION, operation)
           t4 == Store(t3, OPERATION + OPERATION_SIZE + 1, <<0>>)
<1>1. /\ namespace \in Seq(Byte) /\ operation \in Seq(Byte)
      /\ number \in Seq(Byte) /\ Len(number) = 2
      /\ length \in Seq(Byte) /\ Len(length) = 2
  BY HeaderPiece
<1>2. <<0>> \in Seq(Byte)
  BY DEF Byte
<1>3. /\ NAMESPACE \in Nat /\ NAMESPACE + NAMESPACE_SIZE + 1 \in Nat
      /\ OPERATION \in Nat /\ OPERATION + OPERATION_SIZE + 1 \in Nat /\ TextSize \in Nat
  BY DEF NAMESPACE, NAMESPACE_SIZE, OPERATION, OPERATION_SIZE, TextSize
<1> HIDE DEF namespace, operation, number, length
<1>4. t1 \in [1..TextSize -> Byte]
  BY <1>1, <1>3, Stored
<1> HIDE DEF t1
<1>5. t2 \in [1..TextSize -> Byte]
  BY <1>2, <1>3, <1>4, Stored
<1> HIDE DEF t2
<1>6. t3 \in [1..TextSize -> Byte]
  BY <1>1, <1>3, <1>5, Stored
<1> HIDE DEF t3
<1>7. t4 \in [1..TextSize -> Byte]
  BY <1>2, <1>3, <1>6, Stored
<1> HIDE DEF t4
<1>8. Ntohs(number) \in Uint16 /\ Ntohs(length) \in Uint16
  BY <1>1, NtohsTyped
<1>9. DecodeHeader(header, fresh) = [channel_number |-> Ntohs(number), text |-> t4,
                                     payload_size |-> Ntohs(length)]
  BY DEF DecodeHeader, namespace, operation, number, length, t1, t2, t3, t4
<1> QED
  BY <1>7, <1>8, <1>9

\* The texts of such a struct.
LEMMA TextsTyped ==
  ASSUME NEW s \in [channel_number : Uint16, text : [1..TextSize -> Byte], payload_size : Uint16]
  PROVE  NamespaceOf(s) \in Seq(Byte) /\ OperationOf(s) \in Seq(Byte)
<1>1. s.text \in [1..12 -> Byte]
  BY DEF TextSize, NAMESPACE, NAMESPACE_SIZE, OPERATION, OPERATION_SIZE
<1>2. SubSeq(s.text, 1, 4) \in Seq(Byte)
  <2>1. \A i \in 1..4 : s.text[i] \in Byte
    BY <1>1
  <2> QED
    BY <2>1, SubSeqProperties
<1>3. SubSeq(s.text, 6, 10) \in Seq(Byte)
  <2>1. \A i \in 6..10 : s.text[i] \in Byte
    BY <1>1
  <2> QED
    BY <2>1, SubSeqProperties
<1> QED
  BY <1>2, <1>3 DEF NamespaceOf, OperationOf, NAMESPACE, NAMESPACE_SIZE, OPERATION, OPERATION_SIZE

=============================================================================
