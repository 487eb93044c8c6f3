--------------------------- MODULE IpcReader_proofs ---------------------------
(***************************************************************************)
(* populate_buffer for sessions of any number of requests of any lengths.  *)
(*                                                                         *)
(* First the wire: FlattenSeq puts the packets together by a function over *)
(* their places, which exists by the least place without one; behind k     *)
(* packets of 30 bytes the next begins at byte 30 * k + 1.  Then the       *)
(* invariant: PipeInv says that stdin is the end of the wire, Reading(k)   *)
(* what the reader holds of the request behind k aligned ones, and Ended   *)
(* what it makes of the end of the file behind the last.                   *)
(***************************************************************************)
EXTENDS IpcReader, IpcCodec_proofs, WellFoundedInduction

\* Of some numbers one is the least.
LEMMA LeastNumber ==
  ASSUME NEW S, S \subseteq Nat, S # {}
  PROVE  \E x \in S : \A y \in S : x <= y
<1>1. \E x \in S : \A y \in S : ~(<<y, x>> \in OpToRel(<, Nat))
  BY WFMin, NatLessThanWellFounded
<1>2. PICK x \in S : \A y \in S : ~(<<y, x>> \in OpToRel(<, Nat))
  BY <1>1
<1>3. ASSUME NEW y \in S PROVE x <= y
  <2>1. ~(y < x)
    BY <1>2 DEF OpToRel
  <2>2. QED
    BY <2>1
<1>4. QED
  BY <1>3

\* The packets of a session, put together one by one.
IsJoin(f, p, n) ==
  f = [i \in 1..n |-> IF i = 1 THEN p[i] ELSE f[i - 1] \o p[i]]

\* There is such a function.
LEMMA JoinExists ==
  ASSUME NEW p, NEW n \in Nat \ {0}
  PROVE  \E f : IsJoin(f, p, n)
<1> DEFINE Bad == {m \in Nat \ {0} : ~(\E f : IsJoin(f, p, m))}
<1>1. SUFFICES Bad = {}
  OBVIOUS
<1>2. SUFFICES ASSUME Bad # {} PROVE FALSE
  OBVIOUS
<1>3. PICK m \in Bad : \A y \in Bad : m <= y
  BY <1>2, LeastNumber
<1>4. CASE m = 1
  <2> DEFINE f == [i \in 1..1 |-> p[i]]
  <2>1. IsJoin(f, p, 1)
    BY DEF IsJoin
  <2> QED
    BY <1>4, <2>1
<1>5. CASE m # 1
  <2>1. m - 1 \in Nat \ {0} /\ ~(m <= m - 1)
    BY <1>5
  <2>2. PICK g : IsJoin(g, p, m - 1)
    BY <1>3, <2>1
  <2> DEFINE f == [i \in 1..m |-> IF i = m THEN g[m - 1] \o p[m] ELSE g[i]]
  <2>3. \A i \in 1..m : f[i] = IF i = 1 THEN p[i] ELSE f[i - 1] \o p[i]
    <3> TAKE i \in 1..m
    <3>1. CASE i = m
      <4>1. i # 1 /\ i - 1 \in 1..m /\ i - 1 # m
        BY <1>5, <3>1
      <4>2. f[i - 1] = g[m - 1]
        BY <3>1, <4>1
      <4> QED
        BY <3>1, <4>1, <4>2
    <3>2. CASE i # m
      <4>1. i \in 1..m - 1
        BY <3>2
      <4>2. f[i] = g[i]
        BY <3>2
      <4>3. g[i] = IF i = 1 THEN p[i] ELSE g[i - 1] \o p[i]
        BY <2>2, <4>1 DEF IsJoin
      <4>4. i # 1 => f[i - 1] = g[i - 1]
        BY <4>1
      <4> QED
        BY <4>2, <4>3, <4>4
    <3> QED
      BY <3>1, <3>2
  <2> HIDE DEF f
  <2>4. f = [i \in 1..m |-> IF i = 1 THEN p[i] ELSE f[i - 1] \o p[i]]
    <3>1. f = [i \in 1..m |-> f[i]]
      BY DEF f
    <3> QED
      BY <2>3, <3>1
  <2> QED
    BY <2>4 DEF IsJoin
<1> QED
  BY <1>4, <1>5

\* FlattenSeq is the last value of that function.
LEMMA FlattenIsJoin ==
  ASSUME NEW p, Len(p) \in Nat \ {0}
  PROVE  \E f : IsJoin(f, p, Len(p)) /\ FlattenSeq(p) = f[Len(p)]
<1> DEFINE J(f) == f = [i \in 1..Len(p) |-> IF i = 1 THEN p[i] ELSE f[i - 1] \o p[i]]
           f == CHOOSE g : J(g)
<1>1. \E g : J(g)
  BY JoinExists DEF IsJoin
<1>2. J(f)
  BY <1>1
<1>3. FlattenSeq(p) = f[Len(p)]
  BY DEF FlattenSeq
<1> QED
  BY <1>2, <1>3 DEF IsJoin

\* The packets of the session.
Packets == [i \in 1..Len(sent) |-> EncodeRequest(sent[i])]

\* Every packet is put behind those before it.
LEMMA Extended ==
  ASSUME NEW n \in Nat \ {0}, NEW p \in [1..n -> Seq(Byte)], NEW f, IsJoin(f, p, n)
  PROVE  /\ f[1] = p[1]
         /\ \A i \in 2..n : f[i] = f[i - 1] \o p[i]
         /\ \A i \in 1..n : f[i] \in Seq(Byte)
<1>1. f[1] = p[1]
  BY DEF IsJoin
<1>2. \A i \in 2..n : f[i] = f[i - 1] \o p[i]
  <2> TAKE i \in 2..n
  <2>1. i \in 1..n /\ i # 1
    OBVIOUS
  <2>2. f[i] = IF i = 1 THEN p[i] ELSE f[i - 1] \o p[i]
    BY <2>1, Zenon DEF IsJoin
  <2> QED
    BY <2>1, <2>2
<1> DEFINE Bad == {i \in 1..n : f[i] \notin Seq(Byte)}
<1>3. ASSUME Bad # {} PROVE FALSE
  <2>1. PICK m \in Bad : \A y \in Bad : m <= y
    <3>1. Bad \subseteq Nat
      OBVIOUS
    <3> QED
      BY <1>3, <3>1, LeastNumber
  <2>2. m # 1
    BY <1>1, <2>1
  <2>3. m - 1 \in 1..n /\ m \in 2..n /\ ~(m <= m - 1)
    BY <2>1, <2>2
  <2>4. f[m - 1] \in Seq(Byte)
    BY <2>1, <2>3
  <2>5. f[m - 1] \o p[m] \in Seq(Byte)
    BY <2>3, <2>4, ConcatProperties
  <2> QED
    BY <1>2, <2>1, <2>3, <2>5
<1> QED
  BY <1>1, <1>2, <1>3

\* What is at the front stays at the front.
LEMMA Fronts ==
  ASSUME NEW n \in Nat \ {0}, NEW p \in [1..n -> Seq(Byte)], NEW f, IsJoin(f, p, n),
         NEW j \in 1..n, NEW i \in j..n
  PROVE  /\ Len(f[j]) <= Len(f[i])
         /\ \A x \in 1..Len(f[j]) : f[i][x] = f[j][x]
<1> DEFINE Ok(m) == /\ Len(f[j]) <= Len(f[m])
                    /\ \A x \in 1..Len(f[j]) : f[m][x] = f[j][x]
           Bad == {m \in j..n : ~Ok(m)}
<1>1. /\ \A m \in 2..n : f[m] = f[m - 1] \o p[m]
      /\ \A m \in 1..n : f[m] \in Seq(Byte) /\ Len(f[m]) \in Nat
  <2>1. /\ \A m \in 2..n : f[m] = f[m - 1] \o p[m]
        /\ \A m \in 1..n : f[m] \in Seq(Byte)
    <3>1. /\ f[1] = p[1]
          /\ \A m \in 2..n : f[m] = f[m - 1] \o p[m]
          /\ \A m \in 1..n : f[m] \in Seq(Byte)
      BY Extended
    <3> QED
      BY <3>1
  <2>2. ASSUME NEW m \in 1..n PROVE Len(f[m]) \in Nat
    <3> DEFINE u == f[m]
    <3>1. u \in Seq(Byte)
      BY <2>1
    <3> HIDE DEF u
    <3>2. Len(u) \in Nat
      BY <3>1, LenProperties
    <3> QED
      BY <3>2 DEF u
  <2> QED
    BY <2>1, <2>2
<1>2. Ok(j)
  BY <1>1
<1> HIDE DEF Ok
<1>3. ASSUME Bad # {} PROVE FALSE
  <2>1. PICK m \in Bad : \A y \in Bad : m <= y
    <3>1. Bad \subseteq Nat
      OBVIOUS
    <3> QED
      BY <1>3, <3>1, LeastNumber
  <2>2. m # j
    BY <1>2, <2>1
  <2>3. m - 1 \in j..n /\ m \in 2..n /\ m - 1 \in 1..n /\ ~(m <= m - 1)
    BY <2>1, <2>2
  <2>4. Ok(m - 1)
    BY <2>1, <2>3
  <2>5. /\ Len(f[m]) = Len(f[m - 1]) + Len(p[m])
        /\ \A x \in 1..Len(f[m - 1]) + Len(p[m]) :
             f[m][x] = IF x <= Len(f[m - 1]) THEN f[m - 1][x] ELSE p[m][x - Len(f[m - 1])]
    <3> DEFINE u == f[m - 1]
               v == p[m]
    <3>1. u \in Seq(Byte) /\ f[m] = u \o v
      BY <1>1, <2>3
    <3>2. v \in Seq(Byte)
      <4>1. m \in 1..n
        BY <2>3
      <4> QED
        BY <4>1
    <3> HIDE DEF u, v
    <3>3. /\ Len(u \o v) = Len(u) + Len(v)
          /\ \A x \in 1..Len(u) + Len(v) : (u \o v)[x] = IF x <= Len(u) THEN u[x] ELSE v[x - Len(u)]
      BY <3>1, <3>2, ConcatProperties
    <3> QED
      BY <3>1, <3>3 DEF u, v
  <2>6. Len(p[m]) \in Nat /\ Len(f[m - 1]) \in Nat /\ Len(f[j]) \in Nat
    BY <1>1, <2>3, LenProperties
  <2>7. /\ Len(f[j]) <= Len(f[m - 1])
        /\ \A x \in 1..Len(f[j]) : f[m - 1][x] = f[j][x]
    BY <2>4 DEF Ok
  <2> DEFINE a == Len(f[j])
             b == Len(f[m - 1])
             c == Len(p[m])
  <2>8. a \in Nat /\ b \in Nat /\ c \in Nat /\ a <= b
    BY <2>6, <2>7
  <2>9. Len(f[m]) = b + c
    BY <2>5
  <2> HIDE DEF a, b, c
  <2>10. a <= b + c /\ \A x \in 1..a : x \in 1..b + c /\ x <= b
    BY <2>8
  <2>11. Len(f[j]) <= Len(f[m])
    BY <2>9, <2>10 DEF a
  <2>12. ASSUME NEW x \in 1..Len(f[j]) PROVE f[m][x] = f[j][x]
    <3>1. x \in 1..Len(f[m - 1]) + Len(p[m]) /\ x <= Len(f[m - 1])
      BY <2>10 DEF a, b, c
    <3>2. f[m][x] = f[m - 1][x]
      BY <2>5, <3>1
    <3> QED
      BY <2>7, <3>2
  <2>13. Ok(m)
    BY <2>11, <2>12 DEF Ok
  <2> QED
    BY <2>1, <2>13
<1> QED
  BY <1>3 DEF Ok

\* A header has 15 bytes.
LEMMA HeaderSizeIs == HeaderSize = 15
  BY DEF HeaderSize, NAMESPACE_SIZE, OPERATION_SIZE, CRLF

\* A session is made of requests whose packets are a header and a payload long.
LEMMA SessionPackets ==
  ASSUME sent \in Sessions
  PROVE  /\ Len(sent) \in Nat
         /\ \A i \in 1..Len(sent) :
              /\ sent[i] \in Request /\ Encodable(sent[i]) /\ Len(sent[i].payload) \in Uint16
              /\ Len(sent[i].payload) \in Nat
              /\ EncodeRequest(sent[i]) \in Seq(Byte)
              /\ Len(EncodeRequest(sent[i])) = 15 + Len(sent[i].payload)
<1>1. /\ sent \in Seq(Request)
      /\ \A i \in 1..Len(sent) : Encodable(sent[i]) /\ Len(sent[i].payload) \in Uint16
  BY SessionsAssumption
<1>2. Len(sent) \in Nat /\ \A i \in 1..Len(sent) : sent[i] \in Request
  BY <1>1, LenProperties, ElementOfSeq
<1>3. ASSUME NEW r, Encodable(r), Len(r.payload) \in Uint16
      PROVE  /\ Len(r.payload) \in Nat
             /\ EncodeRequest(r) \in Seq(Byte)
             /\ Len(EncodeRequest(r)) = 15 + Len(r.payload)
  <2> DEFINE header == Header(BigEndian(r.channel_number), r.namespace, r.operation,
                              BigEndian(Len(r.payload)))
  <2>1. header \in Seq(Byte) /\ Len(header) = 15
    BY <1>3, HeaderFields
  <2>2. EncodeRequest(r) = header \o r.payload
    BY <1>3, RequestWire
  <2> HIDE DEF header
  <2>3. r.payload \in Seq(Byte)
    BY <1>3 DEF Encodable
  <2>4. /\ header \o r.payload \in Seq(Byte)
        /\ Len(header \o r.payload) = Len(header) + Len(r.payload)
    BY <2>1, <2>3, ConcatProperties
  <2> QED
    BY <1>3, <2>1, <2>2, <2>4, Uint16OfSmall
<1> QED
  BY <1>1, <1>2, <1>3

\* Aligned packets are 30 bytes each.
LEMMA AlignedLength ==
  ASSUME sent \in Sessions, NEW f, Len(sent) # 0, IsJoin(f, Packets, Len(sent)),
         NEW k \in 1..Len(sent), Aligned(k)
  PROVE  Len(f[k]) = 30 * k
<1> DEFINE n == Len(sent)
           Bad == {i \in 1..k : Len(f[i]) # 30 * i}
<1>1. /\ n \in Nat \ {0}
      /\ Packets \in [1..n -> Seq(Byte)]
      /\ \A i \in 1..n : Len(Packets[i]) = 15 + Len(sent[i].payload)
  BY SessionPackets DEF Packets
<1>2. \A i \in 1..k : i \in 1..n /\ Len(Packets[i]) = 30
  <2> TAKE i \in 1..k
  <2>1. HeaderSize = 15
    BY HeaderSizeIs
  <2>2. Len(sent[i].payload) = HeaderSize
    BY DEF Aligned
  <2>3. i \in 1..n
    BY <1>1
  <2>4. Len(Packets[i]) = 15 + Len(sent[i].payload)
    BY <1>1, <2>3, Zenon
  <2> QED
    BY <2>1, <2>2, <2>3, <2>4
<1>3. /\ f[1] = Packets[1]
      /\ \A i \in 2..n : f[i] = f[i - 1] \o Packets[i]
      /\ \A i \in 1..n : f[i] \in Seq(Byte)
  BY <1>1, Extended
<1>4. ASSUME Bad # {} PROVE FALSE
  <2>1. PICK m \in Bad : \A y \in Bad : m <= y
    <3>1. Bad \subseteq Nat
      OBVIOUS
    <3> QED
      BY <1>4, <3>1, LeastNumber
  <2>2. m # 1
    <3>1. 1 \in 1..k
      OBVIOUS
    <3>2. Len(f[1]) = 30
      BY <1>2, <1>3, <3>1
    <3>3. Len(f[m]) # 30 * m
      BY <2>1
    <3>4. m = 1 => Len(f[m]) = 30 * m
      <4>1. SUFFICES ASSUME m = 1 PROVE Len(f[m]) = 30 * m
        OBVIOUS
      <4>2. 30 * m = 30
        BY <4>1
      <4> QED
        BY <3>2, <4>1, <4>2
    <3> QED
      BY <3>3, <3>4
  <2>3. m - 1 \in 1..k /\ m \in 2..n /\ m - 1 \in 1..n /\ m \in 1..n /\ ~(m <= m - 1)
    BY <1>1, <2>1, <2>2
  <2>4. Len(f[m - 1]) = 30 * (m - 1)
    BY <2>1, <2>3
  <2>5. Len(f[m]) = Len(f[m - 1]) + Len(Packets[m])
    <3>1. f[m - 1] \in Seq(Byte) /\ Packets[m] \in Seq(Byte) /\ f[m] = f[m - 1] \o Packets[m]
      BY <1>1, <1>3, <2>3
    <3> QED
      BY <3>1, ConcatProperties
  <2>6. Len(Packets[m]) = 30
    BY <1>2, <2>1
  <2> QED
    BY <2>1, <2>4, <2>5, <2>6
<1> QED
  BY <1>4

\* Where the packets behind aligned ones lie on the wire.
LEMMA WireLayout ==
  ASSUME sent \in Sessions
  PROVE  /\ Wire(sent) \in Seq(Byte)
         /\ Aligned(Len(sent)) => Len(Wire(sent)) = 30 * Len(sent)
         /\ \A k \in 0..Len(sent) - 1 : Aligned(k) =>
              /\ 30 * k + Len(EncodeRequest(sent[k + 1])) <= Len(Wire(sent))
              /\ \A i \in 1..Len(EncodeRequest(sent[k + 1])) :
                   Wire(sent)[30 * k + i] = EncodeRequest(sent[k + 1])[i]
<1> DEFINE n == Len(sent)
           p == Packets
           W == Wire(sent)
<1>1. n \in Nat /\ \A i \in 1..n : p[i] = EncodeRequest(sent[i]) /\ p[i] \in Seq(Byte) /\ Len(p[i]) \in Nat
  BY SessionPackets DEF Packets
<1>2. W = FlattenSeq(p) /\ Len(p) = n
  BY <1>1 DEF Wire, Packets
<1> HIDE DEF W
<1>3. CASE n = 0
  <2>1. p = <<>>
    BY <1>3 DEF Packets
  <2>2. W = <<>>
    BY <1>2, <1>3, <2>1 DEF FlattenSeq
  <2>3. W \in Seq(Byte) /\ Len(W) = 0
    BY <2>2
  <2> QED
    BY <1>3, <2>3 DEF W
<1>4. CASE n # 0
  <2>1. n \in Nat \ {0} /\ p \in [1..n -> Seq(Byte)]
    BY <1>1, <1>4 DEF Packets
  <2>2. PICK f : IsJoin(f, p, n) /\ W = f[n]
    BY <1>2, <2>1, FlattenIsJoin
  <2>3. /\ f[1] = p[1]
        /\ \A i \in 2..n : f[i] = f[i - 1] \o p[i]
        /\ \A i \in 1..n : f[i] \in Seq(Byte) /\ Len(f[i]) \in Nat
    <3>1. /\ f[1] = p[1]
          /\ \A i \in 2..n : f[i] = f[i - 1] \o p[i]
          /\ \A i \in 1..n : f[i] \in Seq(Byte)
      BY <2>1, <2>2, Extended
    <3>2. \A i \in 1..n : Len(f[i]) \in Nat
      BY <3>1, LenProperties
    <3> QED
      BY <3>1, <3>2
  <2>4. W \in Seq(Byte)
    BY <2>1, <2>2, <2>3
  <2>5. \A k \in 1..n : Aligned(k) => Len(f[k]) = 30 * k
    BY <1>4, <2>2, AlignedLength
  <2>6. Aligned(n) => Len(W) = 30 * n
    BY <2>1, <2>2, <2>5
  <2>7. ASSUME NEW k \in 0..n - 1, Aligned(k)
        PROVE  /\ 30 * k + Len(p[k + 1]) <= Len(W)
               /\ \A i \in 1..Len(p[k + 1]) : W[30 * k + i] = p[k + 1][i]
    <3> DEFINE q == p[k + 1]
               g == f[k + 1]
    <3>1. k + 1 \in 1..n /\ n \in k + 1..n
      BY <2>1
    <3>2. q \in Seq(Byte) /\ Len(q) \in Nat
      BY <1>1, <3>1
    <3>3. /\ Len(g) <= Len(W)
          /\ \A x \in 1..Len(g) : W[x] = g[x]
      BY <2>1, <2>2, <3>1, Fronts
    <3>4. /\ Len(g) = 30 * k + Len(q)
          /\ \A i \in 1..Len(q) : g[30 * k + i] = q[i]
      <4>1. CASE k = 0
        BY <2>3, <4>1, <3>2
      <4>2. CASE k # 0
        <5> DEFINE u == f[k]
        <5>1. k \in 1..n /\ k + 1 \in 2..n /\ k + 1 - 1 = k
          BY <2>1, <4>2
        <5>2. u \in Seq(Byte) /\ Len(u) = 30 * k
          BY <2>3, <2>5, <2>7, <5>1
        <5>3. g = u \o q
          <6> DEFINE l == k + 1
          <6>1. l \in 2..n /\ l - 1 = k
            BY <5>1
          <6> HIDE DEF l
          <6>2. f[l] = f[l - 1] \o p[l]
            BY <2>3, <6>1
          <6> QED
            BY <6>1, <6>2 DEF l
        <5> HIDE DEF u, q, g
        <5>4. /\ Len(g) = Len(u) + Len(q)
              /\ \A i \in 1..Len(u) + Len(q) : g[i] = IF i <= Len(u) THEN u[i] ELSE q[i - Len(u)]
          BY <3>2, <5>2, <5>3, ConcatProperties
        <5>5. ASSUME NEW i \in 1..Len(q) PROVE g[30 * k + i] = q[i]
          <6>1. /\ 30 * k + i \in 1..Len(u) + Len(q) /\ ~(30 * k + i <= Len(u))
                /\ 30 * k + i - Len(u) = i
            BY <3>2, <5>2
          <6>2. g[30 * k + i] = q[30 * k + i - Len(u)]
            BY <5>4, <6>1
          <6> QED
            BY <6>1, <6>2
        <5> QED
          BY <5>2, <5>4, <5>5
      <4> QED
        BY <4>1, <4>2
    <3> HIDE DEF q, g
    <3>5. 30 * k + Len(q) <= Len(W)
      BY <3>3, <3>4
    <3>6. ASSUME NEW i \in 1..Len(q) PROVE W[30 * k + i] = q[i]
      <4>1. 30 * k + i \in 1..Len(g)
        BY <3>2, <3>4
      <4> QED
        BY <3>3, <3>4, <4>1
    <3> QED
      BY <3>5, <3>6 DEF q
  <2>8. \A k \in 0..n - 1 : p[k + 1] = EncodeRequest(sent[k + 1])
    BY <1>1
  <2> QED
    BY <2>4, <2>6, <2>7, <2>8 DEF W
<1> QED
  BY <1>3, <1>4

-----------------------------------------------------------------------------

\* While nothing was stored past the buffer, the cursor is in it or at its end.
CursorInv == ~overran => number_of_bytes_read <= HeaderSize

USE MaxPublishedAssumption

\* A piece of memory is a sequence of bytes.
LEMMA MemoryBytes ==
  ASSUME NEW n \in Nat, NEW b \in [1..n -> Byte]
  PROVE  b \in Seq(Byte) /\ Len(b) = n
  OBVIOUS

\* The buffer is a sequence of 15 bytes.
LEMMA BufferBytes ==
  ASSUME NEW b \in [1..HeaderSize -> Byte]
  PROVE  b \in Seq(Byte) /\ Len(b) = 15
<1>1. b \in [1..15 -> Byte]
  BY HeaderSizeIs
<1>2. 15 \in Nat
  OBVIOUS
<1> QED
  BY <1>1, <1>2, MemoryBytes

\* Memory of zeros.
LEMMA FreshBytes == Fresh \in [1..TextSize -> Byte]
<1>1. 0 \in Byte
  BY DEF Byte
<1> QED
  BY <1>1 DEF Fresh

\* The cleared buffer.
LEMMA Rewound ==
  ASSUME NEW b \in [1..HeaderSize -> Byte]
  PROVE  Store(b, 1, [i \in 1..SIZE_T |-> 0]) \in [1..HeaderSize -> Byte]
<1> DEFINE zeros == [i \in 1..SIZE_T |-> 0]
<1>1. 0 \in Byte
  BY DEF Byte
<1>2. zeros \in Seq(Byte)
  BY <1>1 DEF SIZE_T
<1>3. HeaderSize \in Nat
  BY HeaderSizeIs
<1> HIDE DEF zeros
<1>4. Store(b, 1, zeros) \in [1..HeaderSize -> Byte]
  BY <1>2, <1>3, Stored
<1> QED
  BY <1>4 DEF zeros

\* The types at first.
LEMMA InitTypes == Init => TypeOK /\ CursorInv
<1> SUFFICES ASSUME Init PROVE TypeOK /\ CursorInv
  OBVIOUS
<1>1. stdin \in Seq(Byte)
  BY WireLayout DEF Init
<1>2. 0 \in Byte
  BY DEF Byte
<1>3. buffer \in [1..HeaderSize -> Byte]
  BY <1>2 DEF Init
<1>4. number_of_bytes_needed = 15 /\ number_of_bytes_read = 0
  BY HeaderSizeIs DEF Init
<1>5. number_of_bytes_needed \in Uint16
  <2>1. 15 \in Nat /\ 15 <= 65535
    BY SMT
  <2> QED
    BY <1>4, <2>1, SixteenBits, SMT
<1>6. published \in Seq(Request) /\ Len(published) <= MaxPublished
  BY DEF Init
<1>7. /\ number_of_bytes_read \in 0..(HeaderSize + 1)
      /\ number_of_bytes_read <= number_of_bytes_needed
      /\ number_of_bytes_read <= HeaderSize
  BY <1>4, HeaderSizeIs
<1>8. closed \in BOOLEAN /\ overran \in BOOLEAN
  BY Zenon DEF Init
<1> QED
  BY <1>1, <1>3, <1>5, <1>6, <1>7, <1>8 DEF Init, TypeOK, CursorInv

\* A byte read is the next one on stdin, or 255 at the end of it.
LEMMA ByteRead ==
  ASSUME TypeOK, CursorInv, ReadByte
  PROVE  \E byte \in Byte :
           /\ \/ /\ stdin # <<>> /\ byte = Head(stdin) /\ stdin' = Tail(stdin)
              \/ /\ stdin = <<>> /\ closed /\ byte = 255 /\ stdin' = <<>>
           /\ ~overran
           /\ number_of_bytes_read # number_of_bytes_needed
           /\ number_of_bytes_read' = number_of_bytes_read + 1
           /\ number_of_bytes_read < 15 =>
                /\ buffer' = [buffer EXCEPT ![number_of_bytes_read + 1] = byte]
                /\ overran' = FALSE
           /\ ~(number_of_bytes_read < 15) => overran' = TRUE /\ buffer' = buffer
           /\ UNCHANGED <<sent, closed, number_of_bytes_needed, reader, data, published>>
<1>1. PICK byte \in Byte :
        /\ GetChar(byte)
        /\ IF number_of_bytes_read < HeaderSize
           THEN /\ buffer' = [buffer EXCEPT ![number_of_bytes_read + 1] = byte]
                /\ UNCHANGED overran
           ELSE overran' = TRUE /\ UNCHANGED buffer
  BY DEF ReadByte
<1>2. /\ ~overran /\ number_of_bytes_read # number_of_bytes_needed
      /\ number_of_bytes_read' = number_of_bytes_read + 1
      /\ UNCHANGED <<sent, closed, number_of_bytes_needed, reader, data, published>>
  BY DEF ReadByte
<1>3. \/ /\ stdin # <<>> /\ byte = Head(stdin) /\ stdin' = Tail(stdin)
      \/ /\ stdin = <<>> /\ closed /\ byte = 255 /\ stdin' = <<>>
  BY <1>1, Zenon DEF GetChar
<1>4. overran = FALSE
  BY <1>2, Zenon DEF TypeOK
<1>5. number_of_bytes_read < 15 =>
        /\ buffer' = [buffer EXCEPT ![number_of_bytes_read + 1] = byte]
        /\ overran' = FALSE
  BY <1>1, <1>4, HeaderSizeIs
<1>6. ~(number_of_bytes_read < 15) => overran' = TRUE /\ buffer' = buffer
  BY <1>1, HeaderSizeIs
<1> QED
  BY <1>2, <1>3, <1>5, <1>6

\* Every step keeps the types.
LEMMA NextTypes == TypeOK /\ CursorInv /\ [Next]_vars => (TypeOK /\ CursorInv)'
<1> SUFFICES ASSUME TypeOK, CursorInv, [Next]_vars
             PROVE  TypeOK' /\ CursorInv'
  OBVIOUS
<1>0. buffer \in Seq(Byte) /\ Len(buffer) = 15
  BY BufferBytes DEF TypeOK
<1>1. CASE ReadByte
  <2>1. PICK byte \in Byte :
          /\ \/ /\ stdin # <<>> /\ byte = Head(stdin) /\ stdin' = Tail(stdin)
             \/ /\ stdin = <<>> /\ closed /\ byte = 255 /\ stdin' = <<>>
          /\ ~overran
          /\ number_of_bytes_read # number_of_bytes_needed
          /\ number_of_bytes_read' = number_of_bytes_read + 1
          /\ number_of_bytes_read < 15 =>
               /\ buffer' = [buffer EXCEPT ![number_of_bytes_read + 1] = byte]
               /\ overran' = FALSE
          /\ ~(number_of_bytes_read < 15) => overran' = TRUE /\ buffer' = buffer
          /\ UNCHANGED <<sent, closed, number_of_bytes_needed, reader, data, published>>
    BY <1>1, ByteRead
  <2>2. stdin' \in Seq(Byte)
    <3>1. stdin \in Seq(Byte)
      BY DEF TypeOK
    <3>2. CASE stdin # <<>> /\ stdin' = Tail(stdin)
      BY <3>1, <3>2, HeadTailProperties
    <3>3. CASE stdin' = <<>>
      BY <3>3
    <3> QED
      BY <2>1, <3>2, <3>3
  <2>3. /\ number_of_bytes_read \in Nat /\ number_of_bytes_read <= 15
        /\ number_of_bytes_needed \in Nat /\ number_of_bytes_read <= number_of_bytes_needed
    <3>1. number_of_bytes_read \in Nat
      BY HeaderSizeIs DEF TypeOK
    <3>2. number_of_bytes_needed \in Nat
      BY SixteenBits, SMT DEF TypeOK
    <3> QED
      BY <2>1, <3>1, <3>2, HeaderSizeIs DEF TypeOK, CursorInv
  <2>4. /\ number_of_bytes_read' \in 0..(HeaderSize + 1)
        /\ number_of_bytes_read' <= number_of_bytes_needed'
    BY <2>1, <2>3, HeaderSizeIs
  <2>5. buffer' \in [1..HeaderSize -> Byte]
    <3>1. buffer \in [1..HeaderSize -> Byte]
      BY DEF TypeOK
    <3> QED
      BY <2>1, <3>1
  <2>6. overran' \in BOOLEAN
    BY <2>1, Zenon
  <2>7. CursorInv'
    BY <2>1, <2>3, HeaderSizeIs DEF CursorInv
  <2>8. /\ sent' \in Sessions /\ closed' \in BOOLEAN /\ number_of_bytes_needed' \in Uint16
        /\ reader' \in {"RIPC_REQUEST_HEADER", "RIPC_REQUEST_PAYLOAD"}
        /\ reader' = "RIPC_REQUEST_PAYLOAD" =>
             /\ data' \in [channel_number : Uint16, text : [1..TextSize -> Byte], payload_size : Uint16]
             /\ number_of_bytes_needed' = data'.payload_size
        /\ published' \in Seq(Request) /\ Len(published') <= MaxPublished
    BY <2>1 DEF TypeOK
  <2> QED
    BY <2>2, <2>4, <2>5, <2>6, <2>7, <2>8 DEF TypeOK
<1>2. CASE GotHeader
  <2>1. /\ data' = DecodeHeader(buffer, Fresh)
        /\ number_of_bytes_needed' = data'.payload_size
        /\ reader' = "RIPC_REQUEST_PAYLOAD"
        /\ buffer' = Store(buffer, 1, [i \in 1..SIZE_T |-> 0])
        /\ number_of_bytes_read' = 0
        /\ UNCHANGED <<sent, stdin, closed, published, overran>>
    BY <1>2 DEF GotHeader, Rewind
  <2>2. data' \in [channel_number : Uint16, text : [1..TextSize -> Byte], payload_size : Uint16]
    BY <1>0, <2>1, DecodedTyped, FreshBytes
  <2>3. buffer' \in [1..HeaderSize -> Byte]
    BY <2>1, Rewound DEF TypeOK
  <2>4. number_of_bytes_needed' \in Uint16
    BY <2>1, <2>2
  <2>5. number_of_bytes_needed' \in Nat
    BY <2>4, SixteenBits, SMT
  <2>6. /\ number_of_bytes_read' \in 0..(HeaderSize + 1)
        /\ number_of_bytes_read' <= number_of_bytes_needed'
        /\ number_of_bytes_read' <= HeaderSize'
    BY <2>1, <2>5, HeaderSizeIs
  <2> QED
    BY <2>1, <2>2, <2>3, <2>4, <2>6 DEF TypeOK, CursorInv
<1>3. CASE GotPayload
  <2> DEFINE got == AsRequest(data, SubSeq(buffer, 1, data.payload_size))
  <2>1. /\ ~overran
        /\ number_of_bytes_read = number_of_bytes_needed
        /\ reader = "RIPC_REQUEST_PAYLOAD"
        /\ Len(published) < MaxPublished
        /\ published' = Append(published, got)
        /\ reader' = "RIPC_REQUEST_HEADER"
        /\ buffer' = Store(buffer, 1, [i \in 1..SIZE_T |-> 0])
        /\ number_of_bytes_read' = 0
        /\ UNCHANGED <<sent, stdin, closed, number_of_bytes_needed, data, overran>>
    BY <1>3 DEF GotPayload, Rewind
  <2>2. /\ data \in [channel_number : Uint16, text : [1..TextSize -> Byte], payload_size : Uint16]
        /\ data.payload_size = number_of_bytes_read
        /\ number_of_bytes_read \in 0..15
    <3>1. number_of_bytes_read \in 0..(15 + 1)
      BY HeaderSizeIs DEF TypeOK
    <3>2. number_of_bytes_read <= 15
      BY <2>1, HeaderSizeIs DEF CursorInv
    <3>3. /\ data \in [channel_number : Uint16, text : [1..TextSize -> Byte], payload_size : Uint16]
          /\ data.payload_size = number_of_bytes_read
      BY <2>1 DEF TypeOK
    <3> QED
      BY <3>1, <3>2, <3>3
  <2>3. got \in Request
    <3>1. SubSeq(buffer, 1, data.payload_size) \in Seq(Byte)
      <4>1. \A i \in 1..15 : buffer[i] \in Byte
        BY <1>0, ElementOfSeq
      <4> DEFINE n == number_of_bytes_read
      <4>2. n \in 0..15 /\ n = data.payload_size
        BY <2>2
      <4> HIDE DEF n
      <4>3. \A i \in 1..n : buffer[i] \in Byte
        BY <4>1, <4>2
      <4>4. SubSeq(buffer, 1, n) \in Seq(Byte)
        BY <4>2, <4>3, SubSeqProperties
      <4> QED
        BY <4>2, <4>4
    <3>2. NamespaceOf(data) \in Seq(Byte) /\ OperationOf(data) \in Seq(Byte)
      BY <2>2, TextsTyped
    <3> QED
      BY <2>2, <3>1, <3>2 DEF AsRequest, Request
  <2> HIDE DEF got
  <2>4. published' \in Seq(Request) /\ Len(published') <= MaxPublished
    <3>1. published \in Seq(Request) /\ Len(published) \in Nat
      BY LenProperties DEF TypeOK
    <3>2. published' \in Seq(Request) /\ Len(published') = Len(published) + 1
      BY <2>1, <2>3, <3>1, AppendProperties
    <3> QED
      BY <2>1, <3>1, <3>2
  <2>5. buffer' \in [1..HeaderSize -> Byte]
    BY <2>1, Rewound DEF TypeOK
  <2>6. number_of_bytes_needed' \in Uint16 /\ number_of_bytes_needed' \in Nat
    BY <2>1, SixteenBits, SMT DEF TypeOK
  <2>7. /\ number_of_bytes_read' \in 0..(HeaderSize + 1)
        /\ number_of_bytes_read' <= number_of_bytes_needed'
        /\ number_of_bytes_read' <= HeaderSize'
    BY <2>1, <2>6, HeaderSizeIs
  <2> QED
    BY <2>1, <2>4, <2>5, <2>6, <2>7 DEF TypeOK, CursorInv
<1>4. CASE ClosePort
  <2>1. closed' \in BOOLEAN
    BY <1>4, Zenon DEF ClosePort
  <2> QED
    BY <1>4, <2>1 DEF ClosePort, TypeOK, CursorInv
<1>5. CASE UNCHANGED vars
  BY <1>5 DEF vars, TypeOK, CursorInv
<1> QED
  BY <1>1, <1>2, <1>3, <1>4, <1>5 DEF Next, PopulateBuffer

-----------------------------------------------------------------------------

\* How many bytes were taken off stdin, and that the others are as they were.
Taken == Len(Wire(sent)) - Len(stdin)

PipeInv ==
  /\ Taken \in Nat
  /\ \A i \in 1..Len(stdin) : stdin[i] = Wire(sent)[Taken + i]

Packet(k) == EncodeRequest(sent[k + 1])

\* What the reader has of a request behind k aligned ones.
Reading(k) ==
  /\ reader = "RIPC_REQUEST_HEADER" =>
       /\ number_of_bytes_needed = 15
       /\ ~overran
       /\ Taken = 30 * k + number_of_bytes_read
       /\ \A i \in 1..number_of_bytes_read : buffer[i] = Packet(k)[i]
  /\ reader = "RIPC_REQUEST_PAYLOAD" =>
       /\ data.channel_number = sent[k + 1].channel_number
       /\ NamespaceOf(data) = sent[k + 1].namespace
       /\ OperationOf(data) = sent[k + 1].operation
       /\ data.payload_size = Len(sent[k + 1].payload)
       /\ overran => data.payload_size # 15
       /\ ~overran =>
            /\ Taken = 30 * k + 15 + number_of_bytes_read
            /\ \A i \in 1..number_of_bytes_read : buffer[i] = Packet(k)[15 + i]

\* What it has behind the last of them: once the pipe is closed a header of 255s,
\* whose payload is longer than any buffer.
Ended ==
  /\ stdin = <<>>
  /\ reader = "RIPC_REQUEST_HEADER" =>
       /\ number_of_bytes_needed = 15
       /\ ~overran
       /\ number_of_bytes_read > 0 => closed
       /\ \A i \in 1..number_of_bytes_read : buffer[i] = 255
  /\ reader = "RIPC_REQUEST_PAYLOAD" => closed /\ data.payload_size > 15

Progress ==
  /\ Aligned(Len(sent)) => Len(published) <= Len(sent)
  /\ Aligned(Len(published)) /\ Len(published) < Len(sent) => Reading(Len(published))
  /\ Aligned(Len(published)) /\ Len(published) = Len(sent) => Ended

IInv == TypeOK /\ CursorInv /\ PipeInv /\ Progress /\ FramedWhileAligned

\* An empty session is aligned with its end.
LEMMA InitIInv == Init => IInv
<1> SUFFICES ASSUME Init PROVE IInv
  OBVIOUS
<1>1. TypeOK /\ CursorInv
  BY InitTypes
<1>2. /\ sent \in Sessions /\ stdin = Wire(sent) /\ closed = FALSE
      /\ number_of_bytes_read = 0 /\ number_of_bytes_needed = 15
      /\ reader = "RIPC_REQUEST_HEADER" /\ published = <<>> /\ overran = FALSE
  BY HeaderSizeIs DEF Init
<1>3. /\ Wire(sent) \in Seq(Byte) /\ Len(Wire(sent)) \in Nat
      /\ Aligned(Len(sent)) => Len(Wire(sent)) = 30 * Len(sent)
  BY <1>2, WireLayout, LenProperties
<1>4. Taken = 0
  BY <1>2, <1>3 DEF Taken
<1>5. PipeInv
  BY <1>2, <1>3, <1>4 DEF PipeInv
<1>6. Len(sent) \in Nat /\ Len(published) = 0
  BY <1>2, SessionPackets
<1>7. Reading(0)
  BY <1>2, <1>4 DEF Reading
<1>8. Len(sent) = 0 /\ Aligned(0) => Ended
  <2>1. SUFFICES ASSUME Len(sent) = 0, Aligned(0) PROVE Ended
    OBVIOUS
  <2>2. Len(Wire(sent)) = 0
    BY <1>3, <2>1
  <2>3. stdin = <<>>
    BY <1>2, <1>3, <2>2, EmptySeq
  <2> QED
    BY <1>2, <2>3 DEF Ended
<1>9. Progress
  BY <1>6, <1>7, <1>8 DEF Progress
<1>10. FramedWhileAligned
  BY <1>6 DEF FramedWhileAligned
<1> QED
  BY <1>1, <1>5, <1>9, <1>10 DEF IInv

\* An aligned session is aligned at every shorter length.
LEMMA AlignedBelow ==
  ASSUME NEW m \in Nat, NEW n \in Nat, m <= n, Aligned(n), Len(sent) \in Nat
  PROVE  Aligned(m)
  BY DEF Aligned

\* What is on stdin stays at its places as bytes are taken off.
LEMMA NextPipe == TypeOK /\ PipeInv /\ CursorInv /\ [Next]_vars => PipeInv'
<1> SUFFICES ASSUME TypeOK, PipeInv, CursorInv, [Next]_vars
             PROVE  PipeInv'
  OBVIOUS
<1>1. Len(Wire(sent)) \in Nat /\ stdin \in Seq(Byte) /\ Len(stdin) \in Nat
  BY WireLayout, LenProperties DEF TypeOK
<1>2. CASE UNCHANGED <<sent, stdin>>
  BY <1>2 DEF PipeInv, Taken
<1>3. CASE sent' = sent /\ stdin # <<>> /\ stdin' = Tail(stdin)
  <2>1. /\ Len(stdin') = Len(stdin) - 1
        /\ \A i \in 1..Len(stdin') : stdin'[i] = stdin[i + 1]
    BY <1>1, <1>3, HeadTailProperties
  <2>2. Taken' = Taken + 1
    BY <1>1, <1>3, <2>1 DEF Taken
  <2>3. ASSUME NEW i \in 1..Len(stdin') PROVE stdin'[i] = Wire(sent)[Taken + 1 + i]
    <3>1. i + 1 \in 1..Len(stdin) /\ Taken + (i + 1) = Taken + 1 + i
      BY <1>1, <2>1 DEF PipeInv
    <3>2. stdin[i + 1] = Wire(sent)[Taken + (i + 1)]
      BY <3>1 DEF PipeInv
    <3> QED
      BY <2>1, <3>1, <3>2
  <2>4. Taken' \in Nat
    BY <2>2 DEF PipeInv
  <2> QED
    BY <1>3, <2>2, <2>3, <2>4 DEF PipeInv
<1>4. CASE ReadByte
  BY <1>2, <1>3, <1>4, ByteRead
<1>5. CASE GotHeader \/ GotPayload \/ ClosePort \/ UNCHANGED vars
  BY <1>2, <1>5 DEF GotHeader, GotPayload, ClosePort, vars
<1> QED
  BY <1>4, <1>5 DEF Next, PopulateBuffer

-----------------------------------------------------------------------------

HeaderOf(r) == Header(BigEndian(r.channel_number), r.namespace, r.operation,
                      BigEndian(Len(r.payload)))

\* A packet is its header and then its payload.
LEMMA PacketBytes ==
  ASSUME NEW r \in Request, Encodable(r), Len(r.payload) \in Uint16
  PROVE  /\ HeaderOf(r) \in Seq(Byte) /\ Len(HeaderOf(r)) = 15
         /\ r.payload \in Seq(Byte) /\ Len(r.payload) \in Nat
         /\ EncodeRequest(r) \in Seq(Byte)
         /\ Len(EncodeRequest(r)) = 15 + Len(r.payload)
         /\ \A i \in 1..15 : EncodeRequest(r)[i] = HeaderOf(r)[i]
         /\ \A i \in 1..Len(r.payload) : EncodeRequest(r)[15 + i] = r.payload[i]
<1> DEFINE u == HeaderOf(r)
           v == r.payload
<1>1. u \in Seq(Byte) /\ Len(u) = 15
  BY HeaderFields DEF HeaderOf
<1>2. v \in Seq(Byte) /\ Len(v) \in Nat
  BY LenProperties DEF Encodable
<1>3. EncodeRequest(r) = u \o v
  BY RequestWire DEF HeaderOf
<1> HIDE DEF u, v
<1>4. /\ u \o v \in Seq(Byte)
      /\ Len(u \o v) = Len(u) + Len(v)
      /\ \A i \in 1..Len(u) + Len(v) : (u \o v)[i] = IF i <= Len(u) THEN u[i] ELSE v[i - Len(u)]
  BY <1>1, <1>2, ConcatProperties
<1>5. \A i \in 1..15 : (u \o v)[i] = u[i]
  BY <1>1, <1>2, <1>4
<1>6. ASSUME NEW i \in 1..Len(v) PROVE (u \o v)[15 + i] = v[i]
  <2>1. 15 + i \in 1..Len(u) + Len(v) /\ ~(15 + i <= Len(u)) /\ 15 + i - Len(u) = i
    BY <1>1, <1>2
  <2>2. (u \o v)[15 + i] = v[15 + i - Len(u)]
    BY <1>4, <2>1
  <2> QED
    BY <2>1, <2>2
<1> QED
  BY <1>1, <1>2, <1>3, <1>4, <1>5, <1>6 DEF u, v

\* While a packet is being read, its next byte is the next on stdin.
LEMMA NextByte ==
  ASSUME TypeOK, PipeInv, NEW k \in 0..Len(sent) - 1, Aligned(k),
         NEW i \in 1..Len(Packet(k)), Taken = 30 * k + (i - 1)
  PROVE  stdin # <<>> /\ Head(stdin) = Packet(k)[i]
<1>1. /\ sent \in Sessions /\ stdin \in Seq(Byte) /\ Len(stdin) \in Nat
      /\ Wire(sent) \in Seq(Byte) /\ Len(Wire(sent)) \in Nat /\ Len(sent) \in Nat
  BY WireLayout, SessionPackets, LenProperties DEF TypeOK
<1>2. /\ 30 * k + Len(Packet(k)) <= Len(Wire(sent))
      /\ Wire(sent)[30 * k + i] = Packet(k)[i]
  BY <1>1, WireLayout DEF Packet
<1>3. k + 1 \in 1..Len(sent)
  BY <1>1
<1>4. Len(Packet(k)) \in Nat
  BY <1>1, <1>3, SessionPackets, LenProperties DEF Packet
<1> DEFINE l == Len(Packet(k))
<1>5. l \in Nat /\ i \in 1..l
  BY <1>4
<1> HIDE DEF l
<1>6. Len(stdin) # 0
  BY <1>1, <1>2, <1>5 DEF Taken, l
<1>7. stdin # <<>>
  BY <1>6
<1>8. stdin[1] = Wire(sent)[Taken + 1]
  BY <1>1, <1>6 DEF PipeInv
<1>9. Taken + 1 = 30 * k + i
  BY <1>5
<1> QED
  BY <1>1, <1>2, <1>7, <1>8, <1>9, HeadTailProperties

\* A byte read makes one byte more that was taken.
LEMMA OneTaken ==
  ASSUME TypeOK, sent' = sent, stdin # <<>>, stdin' = Tail(stdin)
  PROVE  Taken' = Taken + 1
<1>1. /\ stdin \in Seq(Byte) /\ Len(stdin) \in Nat /\ Len(Wire(sent)) \in Nat
  BY WireLayout, LenProperties DEF TypeOK
<1>2. Len(stdin') = Len(stdin) - 1
  BY <1>1, HeadTailProperties
<1> QED
  BY <1>1, <1>2 DEF Taken

\* A byte put behind others leaves them as they are.
LEMMA PutBehind ==
  ASSUME NEW b \in [1..15 -> Byte], NEW m \in Nat, m < 15, NEW byte
  PROVE  /\ [b EXCEPT ![m + 1] = byte][m + 1] = byte
         /\ \A i \in 1..m : [b EXCEPT ![m + 1] = byte][i] = b[i]
<1> DEFINE c == [b EXCEPT ![m + 1] = byte]
<1>1. m + 1 \in 1..15
  OBVIOUS
<1>2. \A i \in 1..m : i \in 1..15 /\ i # m + 1
  OBVIOUS
<1>3. \A j \in 1..15 : c[j] = IF j = m + 1 THEN byte ELSE b[j]
  OBVIOUS
<1> HIDE DEF c
<1>4. c[m + 1] = byte
  BY <1>1, <1>3
<1>5. \A i \in 1..m : c[i] = b[i]
  BY <1>2, <1>3, Zenon
<1> QED
  BY <1>4, <1>5 DEF c

\* A byte of a header or a payload joins those before it.
LEMMA ReadingRead ==
  ASSUME TypeOK, CursorInv, PipeInv, ReadByte,
         NEW k \in 0..Len(sent) - 1, Aligned(k), Reading(k)
  PROVE  Reading(k)'
<1> DEFINE m == number_of_bytes_read
           P == Packet(k)
           L == Len(sent[k + 1].payload)
<1>1. PICK byte \in Byte :
        /\ \/ /\ stdin # <<>> /\ byte = Head(stdin) /\ stdin' = Tail(stdin)
           \/ /\ stdin = <<>> /\ closed /\ byte = 255 /\ stdin' = <<>>
        /\ ~overran
        /\ m # number_of_bytes_needed
        /\ number_of_bytes_read' = m + 1
        /\ m < 15 =>
             /\ buffer' = [buffer EXCEPT ![m + 1] = byte]
             /\ overran' = FALSE
        /\ ~(m < 15) => overran' = TRUE /\ buffer' = buffer
        /\ UNCHANGED <<sent, closed, number_of_bytes_needed, reader, data, published>>
  BY ByteRead
<1>2. m \in Nat /\ number_of_bytes_needed \in Nat /\ m <= number_of_bytes_needed
  <2>1. m \in Nat /\ m <= number_of_bytes_needed
    BY HeaderSizeIs DEF TypeOK
  <2>2. number_of_bytes_needed \in Nat
    BY SixteenBits, SMT DEF TypeOK
  <2> QED
    BY <2>1, <2>2
<1>3. buffer \in [1..15 -> Byte] /\ k \in Nat /\ k + 1 \in 1..Len(sent) /\ sent \in Sessions
  <2>1. sent \in Sessions /\ Len(sent) \in Nat
    BY SessionPackets DEF TypeOK
  <2> QED
    BY <2>1, HeaderSizeIs DEF TypeOK
<1>4. L \in Nat /\ Len(P) = 15 + L
  BY <1>3, SessionPackets DEF Packet
<1>5. Packet(k)' = P
  BY <1>1 DEF Packet
<1> HIDE DEF P, L
<1>6. CASE reader = "RIPC_REQUEST_HEADER"
  <2>1. /\ number_of_bytes_needed = 15 /\ Taken = 30 * k + m
        /\ \A i \in 1..m : buffer[i] = P[i]
    BY <1>6 DEF Reading, P
  <2>2. m < 15 /\ m + 1 \in 1..Len(P) /\ m = (m + 1) - 1
    BY <1>1, <1>2, <1>4, <2>1
  <2>3. stdin # <<>> /\ Head(stdin) = P[m + 1]
    <3> DEFINE n == m + 1
    <3>1. n \in 1..Len(Packet(k)) /\ Taken = 30 * k + (n - 1)
      BY <2>1, <2>2 DEF P
    <3> HIDE DEF n
    <3>2. stdin # <<>> /\ Head(stdin) = Packet(k)[n]
      BY <3>1, NextByte
    <3> QED
      BY <3>2 DEF n, P
  <2>4. Taken' = Taken + 1
    BY <1>1, <2>3, OneTaken
  <2>5. buffer' = [buffer EXCEPT ![m + 1] = P[m + 1]] /\ overran' = FALSE
    BY <1>1, <2>2, <2>3
  <2>6. ASSUME NEW i \in 1..m + 1 PROVE buffer'[i] = P[i]
    <3>1. /\ buffer'[m + 1] = P[m + 1]
          /\ \A j \in 1..m : buffer'[j] = buffer[j]
      <4> DEFINE newest == P[m + 1]
      <4>1. buffer' = [buffer EXCEPT ![m + 1] = newest]
        BY <2>5
      <4>2. buffer \in [1..15 -> Byte] /\ m \in Nat /\ m < 15
        BY <1>2, <1>3, <2>2
      <4> HIDE DEF newest, m
      <4>3. /\ [buffer EXCEPT ![m + 1] = newest][m + 1] = newest
            /\ \A j \in 1..m : [buffer EXCEPT ![m + 1] = newest][j] = buffer[j]
        BY <4>2, PutBehind
      <4> QED
        BY <4>1, <4>3, Zenon DEF newest
    <3>2. i = m + 1 \/ i \in 1..m
      BY <1>2
    <3> QED
      BY <2>1, <3>1, <3>2
  <2>7. Taken' = 30 * k + (m + 1)
    BY <1>2, <1>3, <2>1, <2>4
  <2>8. reader' = "RIPC_REQUEST_HEADER" /\ number_of_bytes_needed' = 15 /\ number_of_bytes_read' = m + 1
    BY <1>1, <1>6, <2>1
  <2> QED
    BY <1>5, <2>5, <2>6, <2>7, <2>8 DEF Reading
<1>7. CASE reader = "RIPC_REQUEST_PAYLOAD"
  <2>1. /\ data.channel_number = sent[k + 1].channel_number
        /\ NamespaceOf(data) = sent[k + 1].namespace
        /\ OperationOf(data) = sent[k + 1].operation
        /\ data.payload_size = L
        /\ Taken = 30 * k + 15 + m
        /\ \A i \in 1..m : buffer[i] = P[15 + i]
    BY <1>1, <1>7 DEF Reading, P, L
  <2>2. m < L /\ 15 + m + 1 \in 1..Len(P)
    <3>1. number_of_bytes_needed = L
      BY <1>7, <2>1 DEF TypeOK
    <3> QED
      BY <1>1, <1>2, <1>4, <3>1
  <2>3. stdin # <<>> /\ Head(stdin) = P[15 + m + 1]
    <3> DEFINE n == 15 + m + 1
    <3>1. n \in 1..Len(Packet(k)) /\ Taken = 30 * k + (n - 1)
      <4>1. n - 1 = 15 + m
        BY <1>2
      <4>2. n \in 1..Len(Packet(k))
        BY <2>2 DEF P
      <4> HIDE DEF n, m
      <4>3. 30 * k + 15 + m = 30 * k + (15 + m)
        BY <1>2, <1>3
      <4> QED
        BY <2>1, <4>1, <4>2, <4>3
    <3> HIDE DEF n
    <3>2. stdin # <<>> /\ Head(stdin) = Packet(k)[n]
      BY <3>1, NextByte
    <3> QED
      BY <3>2 DEF n, P
  <2>4. Taken' = Taken + 1
    BY <1>1, <2>3, OneTaken
  <2>5. Taken' = 30 * k + 15 + (m + 1)
    BY <1>2, <1>3, <2>1, <2>4
  <2>6. CASE m < 15
    <3>1. buffer' = [buffer EXCEPT ![m + 1] = P[15 + m + 1]] /\ overran' = FALSE
      BY <1>1, <2>3, <2>6
    <3>2. ASSUME NEW i \in 1..m + 1 PROVE buffer'[i] = P[15 + i]
      <4>1. /\ buffer'[m + 1] = P[15 + m + 1]
            /\ \A j \in 1..m : buffer'[j] = buffer[j]
        <5> DEFINE newest == P[15 + m + 1]
        <5>1. buffer' = [buffer EXCEPT ![m + 1] = newest]
          BY <3>1
        <5>2. buffer \in [1..15 -> Byte] /\ m \in Nat /\ m < 15
          BY <1>2, <1>3, <2>6
        <5> HIDE DEF newest, m
        <5>3. /\ [buffer EXCEPT ![m + 1] = newest][m + 1] = newest
              /\ \A j \in 1..m : [buffer EXCEPT ![m + 1] = newest][j] = buffer[j]
          BY <5>2, PutBehind
        <5> QED
          BY <5>1, <5>3, Zenon DEF newest
      <4>2. CASE i = m + 1
        <5>1. 15 + i = 15 + m + 1
          BY <1>2, <4>2
        <5> QED
          BY <4>1, <4>2, <5>1
      <4>3. CASE i \in 1..m
        BY <2>1, <4>1, <4>3
      <4>4. i = m + 1 \/ i \in 1..m
        BY <1>2
      <4> QED
        BY <4>2, <4>3, <4>4
    <3>3. /\ reader' = "RIPC_REQUEST_PAYLOAD" /\ data' = data /\ sent' = sent
          /\ number_of_bytes_read' = m + 1
      BY <1>1, <1>7
    <3> QED
      BY <1>5, <2>1, <2>5, <3>1, <3>2, <3>3 DEF Reading, L
  <2>7. CASE ~(m < 15)
    <3>1. overran' = TRUE /\ reader' = "RIPC_REQUEST_PAYLOAD" /\ data' = data /\ sent' = sent
      BY <1>1, <1>7, <2>7
    <3>2. data.payload_size # 15
      BY <1>2, <1>4, <2>1, <2>2, <2>7
    <3> QED
      BY <2>1, <3>1, <3>2 DEF Reading, L
  <2> QED
    BY <2>6, <2>7
<1> QED
  BY <1>6, <1>7 DEF TypeOK

\* At the end of the pipe only 255s are read.
LEMMA EndedRead ==
  ASSUME TypeOK, CursorInv, ReadByte, Ended
  PROVE  Ended'
<1> DEFINE m == number_of_bytes_read
<1>1. PICK byte \in Byte :
        /\ \/ /\ stdin # <<>> /\ byte = Head(stdin) /\ stdin' = Tail(stdin)
           \/ /\ stdin = <<>> /\ closed /\ byte = 255 /\ stdin' = <<>>
        /\ ~overran
        /\ m # number_of_bytes_needed
        /\ number_of_bytes_read' = m + 1
        /\ m < 15 =>
             /\ buffer' = [buffer EXCEPT ![m + 1] = byte]
             /\ overran' = FALSE
        /\ ~(m < 15) => overran' = TRUE /\ buffer' = buffer
        /\ UNCHANGED <<sent, closed, number_of_bytes_needed, reader, data, published>>
  BY ByteRead
<1>2. closed /\ byte = 255 /\ stdin' = <<>>
  BY <1>1 DEF Ended
<1>3. closed'
  BY <1>1, <1>2
<1>4. CASE reader = "RIPC_REQUEST_HEADER"
  <2>1. number_of_bytes_needed = 15 /\ \A i \in 1..m : buffer[i] = 255
    BY <1>4 DEF Ended
  <2>2. m \in Nat /\ m < 15 /\ buffer \in [1..15 -> Byte]
    BY <1>1, <2>1, HeaderSizeIs DEF TypeOK
  <2>3. buffer' = [buffer EXCEPT ![m + 1] = 255] /\ ~overran'
    BY <1>1, <1>2, <2>2
  <2>4. \A i \in 1..m + 1 : buffer'[i] = 255
    BY <2>1, <2>2, <2>3
  <2>5. /\ reader' = "RIPC_REQUEST_HEADER" /\ number_of_bytes_needed' = 15
        /\ number_of_bytes_read' = m + 1
    BY <1>1, <1>4, <2>1
  <2> QED
    BY <1>2, <1>3, <2>3, <2>4, <2>5 DEF Ended
<1>5. CASE reader = "RIPC_REQUEST_PAYLOAD"
  <2>1. reader' = "RIPC_REQUEST_PAYLOAD" /\ data' = data
    BY <1>1, <1>5
  <2>2. data.payload_size > 15
    BY <1>5 DEF Ended
  <2> QED
    BY <1>2, <1>3, <2>1, <2>2 DEF Ended
<1> QED
  BY <1>4, <1>5 DEF TypeOK

\* Sequences of the same bytes are the same.
LEMMA SameBytes ==
  ASSUME NEW s \in Seq(Byte), NEW t \in Seq(Byte), Len(s) = Len(t),
         \A i \in 1..Len(s) : s[i] = t[i]
  PROVE  s = t
  BY SeqEqual

\* A header read whole is the one that was sent.
LEMMA ReadingHeader ==
  ASSUME TypeOK, GotHeader, NEW k \in 0..Len(sent) - 1, Reading(k)
  PROVE  Reading(k)'
<1> DEFINE r == sent[k + 1]
           h == HeaderOf(r)
           L == Len(r.payload)
<1>1. /\ ~overran /\ number_of_bytes_read = number_of_bytes_needed
      /\ reader = "RIPC_REQUEST_HEADER"
      /\ data' = DecodeHeader(buffer, Fresh)
      /\ reader' = "RIPC_REQUEST_PAYLOAD"
      /\ number_of_bytes_read' = 0
      /\ UNCHANGED <<sent, stdin, closed, published, overran>>
  BY DEF GotHeader, Rewind
<1>2. /\ number_of_bytes_read = 15
      /\ Taken = 30 * k + 15
      /\ \A i \in 1..15 : buffer[i] = Packet(k)[i]
  <2>1. /\ number_of_bytes_needed = 15
        /\ Taken = 30 * k + number_of_bytes_read
        /\ \A i \in 1..number_of_bytes_read : buffer[i] = Packet(k)[i]
    BY <1>1 DEF Reading
  <2> QED
    BY <1>1, <2>1
<1>3. sent \in Sessions /\ k + 1 \in 1..Len(sent) /\ k \in Nat
  <2>1. sent \in Sessions /\ Len(sent) \in Nat
    BY SessionPackets DEF TypeOK
  <2> QED
    BY <2>1
<1>4. r \in Request /\ Encodable(r) /\ L \in Uint16
  BY <1>3, SessionPackets
<1>5. h \in Seq(Byte) /\ Len(h) = 15 /\ \A i \in 1..15 : Packet(k)[i] = h[i]
  BY <1>4, PacketBytes DEF Packet
<1>6. buffer \in Seq(Byte) /\ Len(buffer) = 15
  BY BufferBytes DEF TypeOK
<1> HIDE DEF h
<1>7. buffer = h
  BY <1>2, <1>5, <1>6, SameBytes
<1>8. /\ Ntohs(SubSeq(h, 1, 2)) = Uint16Of(r.channel_number)
      /\ SubSeq(h, 3, 6) = r.namespace
      /\ SubSeq(h, 7, 11) = r.operation
      /\ Ntohs(SubSeq(h, 12, 13)) = Uint16Of(L)
  BY <1>4, HeaderFields DEF h, HeaderOf
<1>9. /\ data'.channel_number = Ntohs(SubSeq(h, 1, 2))
      /\ data'.payload_size = Ntohs(SubSeq(h, 12, 13))
      /\ NamespaceOf(data') = SubSeq(h, 3, 6)
      /\ OperationOf(data') = SubSeq(h, 7, 11)
  BY <1>1, <1>5, <1>7, FreshBytes, HeaderDecoded
<1>10. Uint16Of(r.channel_number) = r.channel_number /\ Uint16Of(L) = L
  <2>1. r.channel_number \in Uint16
    BY <1>4 DEF Request
  <2> QED
    BY <1>4, <2>1, Uint16OfSmall
<1> HIDE DEF r, L
<1>11. /\ data'.channel_number = r.channel_number
       /\ data'.payload_size = L
       /\ NamespaceOf(data') = r.namespace
       /\ OperationOf(data') = r.operation
  BY <1>8, <1>9, <1>10
<1>12. Taken' = 30 * k + 15 + 0
  BY <1>1, <1>2, <1>3 DEF Taken
<1> QED
  BY <1>1, <1>11, <1>12 DEF Reading, r, L

\* A header of 255s announces more than fits.
LEMMA EndedHeader ==
  ASSUME TypeOK, GotHeader, Ended
  PROVE  Ended'
<1>1. /\ ~overran /\ number_of_bytes_read = number_of_bytes_needed
      /\ reader = "RIPC_REQUEST_HEADER"
      /\ data' = DecodeHeader(buffer, Fresh)
      /\ reader' = "RIPC_REQUEST_PAYLOAD"
      /\ UNCHANGED <<sent, stdin, closed, published, overran>>
  BY DEF GotHeader
<1>2. closed /\ \A i \in 1..15 : buffer[i] = 255
  <2>1. /\ number_of_bytes_needed = 15
        /\ number_of_bytes_read > 0 => closed
        /\ \A i \in 1..number_of_bytes_read : buffer[i] = 255
    BY <1>1 DEF Ended
  <2>2. number_of_bytes_read = 15
    BY <1>1, <2>1
  <2> QED
    BY <2>1, <2>2
<1>3. buffer \in Seq(Byte) /\ Len(buffer) = 15
  BY BufferBytes DEF TypeOK
<1>4. Ntohs(SubSeq(buffer, 12, 13)) > 15
  <2> DEFINE two == SubSeq(buffer, 12, 13)
  <2>1. \A i \in 12..13 : buffer[i] \in Byte
    BY <1>3, ElementOfSeq
  <2>2. \A i \in 1..2 : two[i] = buffer[12 + i - 1]
    BY <2>1, SubSeqProperties
  <2>3. two[1] = 255 /\ two[2] = 255
    BY <1>2, <2>2
  <2> HIDE DEF two
  <2>4. Ntohs(two) > 15
    BY <2>3 DEF Ntohs
  <2> QED
    BY <2>4 DEF two
<1>5. data'.payload_size = Ntohs(SubSeq(buffer, 12, 13))
  BY <1>1, <1>3, FreshBytes, HeaderDecoded
<1>6. stdin' = <<>> /\ closed'
  BY <1>1, <1>2 DEF Ended
<1> QED
  BY <1>1, <1>4, <1>5, <1>6 DEF Ended

\* A payload read whole makes the request that was sent.
LEMMA ReadingPayload ==
  ASSUME TypeOK, CursorInv, GotPayload, NEW k \in 0..Len(sent) - 1, Reading(k)
  PROVE  /\ published' = Append(published, sent[k + 1])
         /\ number_of_bytes_needed' = Len(sent[k + 1].payload)
         /\ Taken' = 30 * k + 15 + Len(sent[k + 1].payload)
<1> DEFINE r == sent[k + 1]
           L == Len(r.payload)
<1>1. /\ ~overran /\ number_of_bytes_read = number_of_bytes_needed
      /\ reader = "RIPC_REQUEST_PAYLOAD"
      /\ published' = Append(published, AsRequest(data, SubSeq(buffer, 1, data.payload_size)))
      /\ UNCHANGED <<sent, stdin, number_of_bytes_needed>>
  BY DEF GotPayload
<1>2. /\ data.channel_number = r.channel_number
      /\ NamespaceOf(data) = r.namespace
      /\ OperationOf(data) = r.operation
      /\ data.payload_size = L
      /\ Taken = 30 * k + 15 + number_of_bytes_read
      /\ \A i \in 1..number_of_bytes_read : buffer[i] = Packet(k)[15 + i]
  BY <1>1 DEF Reading
<1>3. number_of_bytes_read = L /\ L <= 15
  BY <1>1, <1>2, HeaderSizeIs DEF TypeOK, CursorInv
<1>4. sent \in Sessions /\ k + 1 \in 1..Len(sent) /\ k \in Nat
  <2>1. sent \in Sessions /\ Len(sent) \in Nat
    BY SessionPackets DEF TypeOK
  <2> QED
    BY <2>1
<1>5. r \in Request /\ Encodable(r) /\ L \in Uint16
  BY <1>4, SessionPackets
<1>6. r.payload \in Seq(Byte) /\ L \in Nat /\ \A i \in 1..L : Packet(k)[15 + i] = r.payload[i]
  BY <1>5, PacketBytes DEF Packet
<1>7. buffer \in Seq(Byte) /\ Len(buffer) = 15
  BY BufferBytes DEF TypeOK
<1>8. SubSeq(buffer, 1, L) = r.payload
  <2> DEFINE l == L
             s == SubSeq(buffer, 1, l)
             p == r.payload
  <2>1. l \in Nat /\ l <= 15 /\ Len(p) = l /\ p \in Seq(Byte)
    BY <1>3, <1>6
  <2>2. \A i \in 1..l : buffer[i] = p[i]
    BY <1>2, <1>3, <1>6
  <2> HIDE DEF l, p
  <2>3. \A i \in 1..l : buffer[i] \in Byte
    <3>1. \A i \in 1..15 : buffer[i] \in Byte
      BY <1>7, ElementOfSeq
    <3>2. \A i \in 1..l : i \in 1..15
      BY <2>1
    <3> QED
      BY <3>1, <3>2, Zenon
  <2>4. /\ s \in Seq(Byte)
        /\ Len(s) = l
        /\ \A i \in 1..l : s[i] = buffer[i]
    BY <2>1, <2>3, SubSeqProperties
  <2> HIDE DEF s
  <2>5. s = p
    BY <2>1, <2>2, <2>4, SameBytes
  <2> QED
    BY <2>5 DEF s, l, p
<1>9. r = [channel_number |-> r.channel_number, namespace |-> r.namespace,
           operation |-> r.operation, payload |-> r.payload]
  BY <1>5 DEF Request
<1> HIDE DEF r, L
<1>10. AsRequest(data, SubSeq(buffer, 1, data.payload_size)) = r
  BY <1>2, <1>8, <1>9 DEF AsRequest
<1>11. published' = Append(published, r)
  BY <1>1, <1>10
<1>12. Taken' = 30 * k + 15 + L
  BY <1>1, <1>2, <1>3 DEF Taken
<1>13. number_of_bytes_needed' = L
  BY <1>1, <1>3
<1> QED
  BY <1>11, <1>12, <1>13 DEF r, L

\* A step that hands no request on keeps what is known of the one being read.
LEMMA StillProgress ==
  ASSUME TypeOK, Progress, FramedWhileAligned, sent' = sent, published' = published,
         \A k \in 0..Len(sent) - 1 : Aligned(k) /\ Reading(k) => Reading(k)',
         Ended => Ended'
  PROVE  Progress' /\ FramedWhileAligned'
<1>1. PICK k \in Nat : k = Len(published)
  BY LenProperties DEF TypeOK
<1>2. PICK n \in Nat : n = Len(sent)
  BY SessionPackets DEF TypeOK
<1>3. k = Len(published') /\ n = Len(sent')
  BY <1>1, <1>2
<1>4. \A m : Aligned(m)' = Aligned(m)
  BY DEF Aligned
<1>5. /\ Aligned(n) => k <= n
      /\ Aligned(k) /\ k < n => Reading(k)
      /\ Aligned(k) /\ k = n => Ended
  BY <1>1, <1>2 DEF Progress
<1>6. Aligned(k) /\ k < n => Reading(k)'
  BY <1>2, <1>5
<1>7. Progress'
  <2>1. Aligned(n)' => k <= n
    BY <1>4, <1>5
  <2>2. Aligned(k)' /\ k < n => Reading(k)'
    BY <1>4, <1>6
  <2>3. Aligned(k)' /\ k = n => Ended'
    BY <1>4, <1>5
  <2> QED
    BY <1>3, <2>1, <2>2, <2>3 DEF Progress, Aligned, Reading
<1>8. FramedWhileAligned'
  BY DEF FramedWhileAligned, Aligned
<1> QED
  BY <1>7, <1>8

\* Behind the last of aligned requests none is handed on.
LEMMA NothingAfterEnd ==
  ASSUME TypeOK, CursorInv, GotPayload, Ended
  PROVE  FALSE
<1>1. data.payload_size > 15
  BY DEF GotPayload, Ended
<1>2. number_of_bytes_read = data.payload_size /\ number_of_bytes_read <= 15
  BY HeaderSizeIs DEF GotPayload, TypeOK, CursorInv
<1>3. data.payload_size \in Nat
  <2>1. number_of_bytes_read \in Nat
    BY HeaderSizeIs DEF TypeOK
  <2> QED
    BY <1>2, <2>1
<1> QED
  BY <1>1, <1>2, <1>3

\* A request handed on behind aligned ones is the one that was sent, and if it is
\* aligned too, the next one is read from its first byte.
LEMMA PayloadProgress ==
  ASSUME TypeOK, CursorInv, Progress, FramedWhileAligned, GotPayload, (TypeOK /\ PipeInv)'
  PROVE  Progress' /\ FramedWhileAligned'
<1>1. PICK k \in Nat : k = Len(published)
  BY LenProperties DEF TypeOK
<1>2. PICK n \in Nat : n = Len(sent)
  BY SessionPackets DEF TypeOK
<1>3. published \in Seq(Request) /\ published' \in Seq(Request)
  BY DEF TypeOK
<1>4. /\ ~overran' /\ reader' = "RIPC_REQUEST_HEADER" /\ number_of_bytes_read' = 0
      /\ sent' = sent
      /\ published' = Append(published, AsRequest(data, SubSeq(buffer, 1, data.payload_size)))
  BY DEF GotPayload, Rewind
<1>5. /\ Len(published') = k + 1
      /\ \A i \in 1..k : published'[i] = published[i]
  <2> DEFINE got == AsRequest(data, SubSeq(buffer, 1, data.payload_size))
  <2>1. published' = Append(published, got)
    BY <1>4
  <2> HIDE DEF got
  <2>2. DOMAIN published = 1..k /\ Len(published) = k
    BY <1>1, <1>3, LenProperties
  <2> QED
    BY <1>1, <1>3, <2>1, <2>2
<1>6. n = Len(sent') /\ \A m : Aligned(m)' = Aligned(m)
  BY <1>2, <1>4 DEF Aligned
<1>7. Aligned(k) => k < n /\ Reading(k)
  <2>1. Aligned(k) => k <= n
    BY <1>2 DEF Aligned
  <2>2. Aligned(k) /\ k = n => Ended
    BY <1>1, <1>2 DEF Progress
  <2>3. Aligned(k) => k # n
    BY <2>2, NothingAfterEnd
  <2>4. Aligned(k) /\ k < n => Reading(k)
    BY <1>1, <1>2 DEF Progress
  <2> QED
    BY <2>1, <2>3, <2>4
<1>8. Aligned(k) => /\ published' = Append(published, sent[k + 1])
                    /\ number_of_bytes_needed' = Len(sent[k + 1].payload)
                    /\ Taken' = 30 * k + 15 + Len(sent[k + 1].payload)
  <2>1. SUFFICES ASSUME Aligned(k)
                 PROVE  /\ published' = Append(published, sent[k + 1])
                        /\ number_of_bytes_needed' = Len(sent[k + 1].payload)
                        /\ Taken' = 30 * k + 15 + Len(sent[k + 1].payload)
    OBVIOUS
  <2>2. k \in 0..Len(sent) - 1 /\ Reading(k)
    BY <1>2, <1>7, <2>1
  <2> QED
    BY <2>2, ReadingPayload
<1>9. FramedWhileAligned'
  <2>1. ASSUME NEW j \in 1..k + 1, Aligned(j - 1)
        PROVE  j <= n /\ published'[j] = sent[j]
    <3>1. CASE j = k + 1
      <4>1. Aligned(k)
        BY <2>1, <3>1
      <4>2. published' = Append(published, sent[k + 1])
        BY <1>8, <4>1
      <4> DEFINE r == sent[k + 1]
      <4>3. published' = Append(published, r)
        BY <4>2
      <4> HIDE DEF r
      <4>4. published'[Len(published) + 1] = r
        BY <1>3, <4>3
      <4>5. published'[j] = sent[j]
        BY <1>1, <3>1, <4>4 DEF r
      <4> QED
        BY <1>7, <3>1, <4>1, <4>5
    <3>2. CASE j # k + 1
      <4>1. j \in 1..k
        BY <3>2
      <4>2. j <= Len(sent) /\ published[j] = sent[j]
        BY <1>1, <2>1, <4>1 DEF FramedWhileAligned
      <4> QED
        BY <1>2, <1>5, <4>1, <4>2
    <3> QED
      BY <3>1, <3>2
  <2>2. \A j \in 1..k + 1 : Aligned(j - 1)' => j <= Len(sent') /\ published'[j] = sent'[j]
    BY <1>2, <1>4, <1>6, <2>1
  <2> QED
    BY <1>5, <2>2 DEF FramedWhileAligned, Aligned
<1>10. ASSUME Aligned(k + 1) PROVE number_of_bytes_needed' = 15 /\ Taken' = 30 * (k + 1)
  <2>1. Aligned(k)
    BY <1>2, <1>10, AlignedBelow
  <2>2. Len(sent[k + 1].payload) = 15
    BY <1>10, HeaderSizeIs DEF Aligned
  <2>3. number_of_bytes_needed' = 15 /\ Taken' = 30 * k + 15 + 15
    BY <1>8, <2>1, <2>2
  <2> QED
    BY <2>3
<1>11. Aligned(n) => k + 1 <= n
  <2>1. SUFFICES ASSUME Aligned(n) PROVE k + 1 <= n
    OBVIOUS
  <2>2. k <= n
    BY <1>1, <1>2, <2>1 DEF Progress
  <2>3. Aligned(k)
    BY <1>2, <2>1, <2>2, AlignedBelow
  <2> QED
    BY <1>7, <2>3
<1>12. ASSUME Aligned(k + 1) PROVE Reading(k + 1)'
  <2>1. number_of_bytes_needed' = 15 /\ Taken' = 30 * (k + 1) + 0
    BY <1>10, <1>12
  <2> QED
    BY <1>4, <2>1 DEF Reading
<1>13. ASSUME Aligned(k + 1), k + 1 = n PROVE Ended'
  <2>1. number_of_bytes_needed' = 15 /\ Taken' = 30 * n
    BY <1>10, <1>13
  <2>2. Len(Wire(sent)) = 30 * n
    <3>1. sent \in Sessions
      BY DEF TypeOK
    <3> QED
      BY <1>2, <1>13, <3>1, WireLayout
  <2>3. stdin' \in Seq(Byte) /\ Len(stdin') \in Nat
    BY LenProperties DEF TypeOK
  <2>4. Len(stdin') = 0
    BY <1>4, <2>1, <2>2, <2>3 DEF Taken
  <2>5. stdin' = <<>>
    BY <2>3, <2>4, EmptySeq
  <2> QED
    BY <1>4, <2>1, <2>5 DEF Ended
<1>14. Progress'
  <2>1. Aligned(n)' => k + 1 <= n
    BY <1>6, <1>11
  <2>2. Aligned(k + 1)' /\ k + 1 < n => Reading(k + 1)'
    BY <1>6, <1>12
  <2>3. Aligned(k + 1)' /\ k + 1 = n => Ended'
    BY <1>6, <1>13
  <2> QED
    BY <1>5, <1>6, <2>1, <2>2, <2>3 DEF Progress, Aligned, Reading
<1> QED
  BY <1>9, <1>14

\* The strengthening is inductive.
LEMMA NextIInv == IInv /\ [Next]_vars => IInv'
<1> SUFFICES ASSUME IInv, [Next]_vars PROVE IInv'
  OBVIOUS
<1>1. TypeOK /\ CursorInv /\ PipeInv /\ Progress /\ FramedWhileAligned
  BY DEF IInv
<1>2. TypeOK' /\ CursorInv'
  BY <1>1, NextTypes
<1>3. PipeInv'
  BY <1>1, NextPipe
<1>4. CASE ReadByte
  <2>1. sent' = sent /\ published' = published
    BY <1>4 DEF ReadByte
  <2>2. \A k \in 0..Len(sent) - 1 : Aligned(k) /\ Reading(k) => Reading(k)'
    BY <1>1, <1>4, ReadingRead
  <2>3. Ended => Ended'
    BY <1>1, <1>4, EndedRead
  <2> QED
    BY <1>1, <1>2, <1>3, <2>1, <2>2, <2>3, StillProgress DEF IInv
<1>5. CASE GotHeader
  <2>1. sent' = sent /\ published' = published
    BY <1>5 DEF GotHeader
  <2>2. \A k \in 0..Len(sent) - 1 : Aligned(k) /\ Reading(k) => Reading(k)'
    BY <1>1, <1>5, ReadingHeader
  <2>3. Ended => Ended'
    BY <1>1, <1>5, EndedHeader
  <2> QED
    BY <1>1, <1>2, <1>3, <2>1, <2>2, <2>3, StillProgress DEF IInv
<1>6. CASE GotPayload
  BY <1>1, <1>2, <1>3, <1>6, PayloadProgress DEF IInv
<1>7. CASE ClosePort \/ UNCHANGED vars
  <2>1. UNCHANGED <<sent, stdin, buffer, number_of_bytes_read, number_of_bytes_needed,
                    reader, data, published, overran>>
    BY <1>7 DEF ClosePort, vars
  <2>2. \A k \in 0..Len(sent) - 1 : Aligned(k) /\ Reading(k) => Reading(k)'
    BY <2>1 DEF Reading, Packet, Taken
  <2>3. closed => closed'
    BY <1>7 DEF ClosePort, vars
  <2>4. Ended => Ended'
    BY <2>1, <2>3 DEF Ended
  <2> QED
    BY <1>1, <1>2, <1>3, <2>1, <2>2, <2>4, StillProgress DEF IInv
<1> QED
  BY <1>4, <1>5, <1>6, <1>7 DEF Next, PopulateBuffer

\* The invariant: types, the bytes still on stdin, and where in which request
\* the reader is.
THEOREM Inductive == Spec => []IInv
<1>1. Init => IInv
  BY InitIInv
<1>2. IInv /\ [Next]_vars => IInv'
  BY NextIInv
<1> QED
  BY <1>1, <1>2, PTL DEF Spec

\* The cursor, the counts, the header decoded last and the requests handed on
\* are what the C types hold, for all sessions.
THEOREM TypeCorrect == Spec => []TypeOK
<1>1. IInv => TypeOK
  BY DEF IInv
<1> QED
  BY <1>1, Inductive, PTL

\* A request comes out as it was sent as long as every payload before it was
\* exactly as long as a header, for all sessions of any length.
THEOREM Framed == Spec => []FramedWhileAligned
<1>1. IInv => FramedWhileAligned
  BY DEF IInv
<1> QED
  BY <1>1, Inductive, PTL

\* Bytes go past the end of the buffer only after a payload of another length
\* than a header's, or at the end of the file.
THEOREM Overruns == Spec => []OverrunExplained
<1>1. IInv => OverrunExplained
  <2>1. SUFFICES ASSUME IInv, overran, Aligned(Len(sent)) PROVE closed /\ stdin = <<>>
    BY DEF OverrunExplained
  <2>2. TypeOK /\ CursorInv /\ Progress
    BY <2>1 DEF IInv
  <2>3. PICK k \in Nat : k = Len(published)
    BY <2>2, LenProperties DEF TypeOK
  <2>4. PICK n \in Nat : n = Len(sent)
    BY <2>2, SessionPackets DEF TypeOK
  <2>5. k <= n /\ Aligned(k)
    <3>1. Aligned(n) /\ k <= n
      BY <2>1, <2>2, <2>3, <2>4 DEF Progress
    <3> QED
      BY <2>4, <3>1, AlignedBelow
  <2>6. CASE k = n
    <3>1. Ended
      BY <2>2, <2>3, <2>4, <2>5, <2>6 DEF Progress
    <3> QED
      BY <2>1, <2>2, <3>1 DEF Ended, TypeOK
  <2>7. CASE k < n
    <3>1. Reading(k)
      BY <2>2, <2>3, <2>4, <2>5, <2>7 DEF Progress
    <3>2. Len(sent[k + 1].payload) = 15
      <4>1. k + 1 \in 1..n
        BY <2>7
      <4> QED
        BY <2>1, <2>4, <4>1, HeaderSizeIs DEF Aligned
    <3>3. data.payload_size = 15 /\ data.payload_size # 15
      BY <2>1, <2>2, <3>1, <3>2 DEF Reading, TypeOK
    <3> QED
      BY <3>3
  <2> QED
    BY <2>5, <2>6, <2>7
<1> QED
  BY <1>1, Inductive, PTL

\* While every payload is as long as a header and the pipe has not ended, what
\* was taken off it are the requests handed on and the pieces of the next one.
THEOREM Accounted == Spec => []NothingSkipped
<1>1. IInv => NothingSkipped
  <2> DEFINE piece == IF reader = "RIPC_REQUEST_PAYLOAD" THEN HeaderSize ELSE 0
  <2>1. SUFFICES ASSUME IInv, Aligned(Len(sent)), stdin # <<>> \/ ~closed
                 PROVE  Taken = 2 * HeaderSize * Len(published) + number_of_bytes_read + piece
    BY DEF NothingSkipped, Taken
  <2>2. TypeOK /\ CursorInv /\ Progress
    BY <2>1 DEF IInv
  <2>3. PICK k \in Nat : k = Len(published)
    BY <2>2, LenProperties DEF TypeOK
  <2>4. PICK n \in Nat : n = Len(sent)
    BY <2>2, SessionPackets DEF TypeOK
  <2>5. k <= n /\ Aligned(k) /\ Aligned(n)
    <3>1. Aligned(n) /\ k <= n
      BY <2>1, <2>2, <2>3, <2>4 DEF Progress
    <3> QED
      BY <2>4, <3>1, AlignedBelow
  <2>6. number_of_bytes_read \in Nat
    BY <2>2, HeaderSizeIs DEF TypeOK
  <2>7. SUFFICES Taken = 30 * k + number_of_bytes_read + piece
    BY <2>3, HeaderSizeIs
  <2>8. CASE k = n
    <3>1. Ended
      BY <2>2, <2>3, <2>4, <2>5, <2>8 DEF Progress
    <3>2. reader = "RIPC_REQUEST_HEADER" /\ number_of_bytes_read = 0 /\ stdin = <<>>
      BY <2>1, <2>2, <2>6, <3>1 DEF Ended, TypeOK
    <3>3. Len(Wire(sent)) = 30 * n
      BY <2>2, <2>4, <2>5, WireLayout DEF TypeOK
    <3>4. Taken = 30 * n
      BY <2>4, <3>2, <3>3 DEF Taken
    <3>5. piece = 0
      BY <3>2
    <3> HIDE DEF piece
    <3> QED
      BY <2>8, <3>2, <3>4, <3>5
  <2>9. CASE k < n
    <3>1. Reading(k)
      BY <2>2, <2>3, <2>4, <2>5, <2>9 DEF Progress
    <3>2. CASE reader = "RIPC_REQUEST_HEADER"
      <4>1. Taken = 30 * k + number_of_bytes_read /\ piece = 0
        BY <3>1, <3>2 DEF Reading
      <4> HIDE DEF piece
      <4> QED
        BY <2>6, <4>1
    <3>3. CASE reader = "RIPC_REQUEST_PAYLOAD"
      <4>1. Len(sent[k + 1].payload) = 15
        <5>1. k + 1 \in 1..n
          BY <2>9
        <5> QED
          BY <2>4, <2>5, <5>1, HeaderSizeIs DEF Aligned
      <4>2. data.payload_size = 15
        BY <3>1, <3>3, <4>1 DEF Reading
      <4>3. ~overran
        BY <3>1, <3>3, <4>2 DEF Reading
      <4>4. Taken = 30 * k + 15 + number_of_bytes_read
        BY <3>1, <3>3, <4>3 DEF Reading
      <4>5. piece = 15
        BY <3>3, HeaderSizeIs
      <4> HIDE DEF piece
      <4> QED
        BY <2>6, <4>4, <4>5
    <3> QED
      BY <2>2, <3>2, <3>3 DEF TypeOK
  <2> QED
    BY <2>5, <2>8, <2>9
<1> QED
  BY <1>1, Inductive, PTL

=============================================================================
