-------------------------- MODULE InspectionProofs --------------------------
(***************************************************************************)
(* Proofs about the header parser, for every packet that can be laid out:  *)
(* all addresses and ports, ether types and protocols, zero to ten words   *)
(* of options, any payload, cut at any length.                             *)
(***************************************************************************)
EXTENDS Inspection, SequenceTheorems, TLAPS

(***************************************************************************)
(* The parser reads nothing outside the window it was given.               *)
(***************************************************************************)

\* What inspect() returns is a function of the bytes below data_end: it is the
\* same for any two memories that agree on them, so no load of proto_view.rs
\* reaches past the length check that covers it.
THEOREM ReadsOnlyWindow ==
    ASSUME NEW p, NEW q,
           p.data_end \in Nat, q.data_end = p.data_end,
           \A o \in 0..(p.data_end - 1) : q.at[o] = p.at[o]
    PROVE  inspect(q) = inspect(p)
<1>1. IsSignal(q) <=> IsSignal(p)
  <2>1. CASE ~Fits(p, 34)
    BY <2>1 DEF IsSignal, Fits
  <2>2. CASE Fits(p, 34)
    <3>1. {12, 13, 23} \subseteq 0..(p.data_end - 1)
      BY <2>2 DEF Fits
    <3>2. /\ q.at[12] = p.at[12] /\ q.at[13] = p.at[13]
          /\ q.at[23] = p.at[23]
      BY <3>1
    <3> QED
      BY <3>2 DEF IsSignal, Fits, be16
  <2> QED
    BY <2>1, <2>2
<1>2. ASSUME IsSignal(p) PROVE Extract(q) = Extract(p)
  <2>1. \A o \in 0..53 : q.at[o] = p.at[o]
    BY <1>2 DEF IsSignal, Fits
  <2>2. /\ be32(q, 26) = be32(p, 26) /\ be32(q, 30) = be32(p, 30)
        /\ be16(q, 34) = be16(p, 34) /\ be16(q, 36) = be16(p, 36)
        /\ q.at[23] = p.at[23]
    BY <2>1 DEF be16, be32
  <2>3. [i \in 0..19 |-> q.at[14 + i]] = [i \in 0..19 |-> p.at[14 + i]]
    BY <2>1
  <2> QED
    BY <2>2, <2>3 DEF Extract
<1> QED
  BY <1>1, <1>2 DEF inspect

(***************************************************************************)
(* The layout of the encoding.                                             *)
(***************************************************************************)

\* A block of n bytes is a sequence of that length, and a sequence of bytes is
\* a block.
LEMMA BlockFacts ==
    ASSUME NEW n \in Nat, NEW b \in Bytes(n)
    PROVE  b \in Seq(Byte) /\ Len(b) = n
<1>1. b \in [1..n -> Byte]
  BY DEF Bytes
<1>2. b \in Seq(Byte)
  BY <1>1, SeqDef
<1>3. Len(b) \in Nat /\ 1..Len(b) = 1..n
  BY <1>1, <1>2, LenProperties
<1> QED
  BY <1>2, <1>3

LEMMA SequenceIsBlock ==
    ASSUME NEW s \in Seq(Byte) PROVE Len(s) \in Nat /\ s \in Bytes(Len(s))
  BY LenProperties DEF Bytes

\* One byte, two bytes: a 16-bit field, and be16 of it is the field.
LEMMA ByteRange ==
    ASSUME NEW b \in Byte PROVE b \in Nat /\ b <= 255
  BY SMTT(30) DEF Byte

LEMMA ByteFacts ==
    ASSUME NEW b \in Byte PROVE <<b>> \in Bytes(1) /\ <<b>>[1] = b
  BY DEF Bytes

LEMMA Wire16Facts ==
    ASSUME NEW n \in U16
    PROVE  /\ Wire16(n) \in Bytes(2)
           /\ Wire16(n)[1] * 256 + Wire16(n)[2] = n
<1>1. n \in Nat /\ n <= 65535
  <2>1. U16Max \in Nat
    BY DEF U16Max
  <2>2. n \in Nat /\ n <= U16Max
    BY <2>1 DEF U16
  <2> QED
    BY <2>2 DEF U16Max
<1>2. n \div 256 \in Nat /\ n % 256 \in 0..255
  BY <1>1
<1>3. n \div 256 <= 255
  BY <1>1
<1>4. (n \div 256) * 256 + (n % 256) = n
  BY <1>1
<1> DEFINE high == n \div 256
           low == n % 256
<1>5. high \in Byte /\ low \in Byte /\ high * 256 + low = n
  BY <1>2, <1>3, <1>4 DEF Byte
<1>6. Wire16(n) = <<high, low>>
  BY DEF Wire16
<1> HIDE DEF high, low
<1> QED
  BY <1>5, <1>6 DEF Bytes

\* The block b of n bytes stands in h behind its first k bytes.
Stands(b, n, h, k) == \A i \in 1..n : h[k + i] = b[i]

\* Two blocks in a row are a block, and the second stands behind the first.
LEMMA Joined ==
    ASSUME NEW m \in Nat, NEW s \in Bytes(m), NEW n \in Nat, NEW t \in Bytes(n)
    PROVE  /\ s \o t \in Bytes(m + n)
           /\ Stands(s, m, s \o t, 0)
           /\ Stands(t, n, s \o t, m)
<1>1. s \in Seq(Byte) /\ Len(s) = m /\ t \in Seq(Byte) /\ Len(t) = n
  BY BlockFacts
<1>2. /\ s \o t \in Seq(Byte) /\ Len(s \o t) = m + n
      /\ \A i \in 1..(m + n) :
             (s \o t)[i] = IF i <= m THEN s[i] ELSE t[i - m]
  BY <1>1, ConcatProperties
<1>3. s \o t \in Bytes(m + n)
  BY <1>2, SequenceIsBlock
<1>4. ASSUME NEW i \in 1..n PROVE (s \o t)[m + i] = t[i]
  <2>1. m + i \in 1..(m + n) /\ ~(m + i <= m) /\ (m + i) - m = i
    OBVIOUS
  <2> QED
    BY <1>2, <2>1
<1> QED
  BY <1>2, <1>3, <1>4 DEF Stands

\* What stands in the first of two blocks stands in both.
LEMMA StillStands ==
    ASSUME NEW m \in Nat, NEW s \in Bytes(m), NEW l \in Nat, NEW t \in Bytes(l),
           NEW n \in Nat, NEW k \in Nat, k + n <= m,
           NEW b, Stands(b, n, s, k)
    PROVE  Stands(b, n, s \o t, k)
<1> SUFFICES ASSUME NEW i \in 1..n PROVE (s \o t)[k + i] = b[i]
  BY DEF Stands
<1>1. k + i \in 1..m /\ 0 + (k + i) = k + i
  OBVIOUS
<1>2. (s \o t)[0 + (k + i)] = s[k + i]
  BY <1>1, Joined DEF Stands
<1> QED
  BY <1>1, <1>2 DEF Stands

\* The fixed IPv4 header is 20 bytes; protocol and addresses are where RFC 791
\* puts them.
LEMMA HeaderLayout ==
    ASSUME NEW a \in Bytes(1), NEW b \in Bytes(8), NEW p \in Bytes(1),
           NEW k \in Bytes(2), NEW src \in Bytes(4), NEW dst \in Bytes(4),
           NEW h, h = a \o b \o p \o k \o src \o dst
    PROVE  /\ h \in Bytes(20)
           /\ Stands(p, 1, h, 9)
           /\ Stands(src, 4, h, 12)
           /\ Stands(dst, 4, h, 16)
<1> DEFINE s1 == a \o b
           s2 == s1 \o p
           s3 == s2 \o k
           s4 == s3 \o src
<1>1. s1 \in Bytes(9)
  BY Joined
<1> HIDE DEF s1
<1>2. s2 \in Bytes(10) /\ Stands(p, 1, s2, 9)
  BY <1>1, Joined
<1> HIDE DEF s2
<1>3. s3 \in Bytes(12) /\ Stands(p, 1, s3, 9)
  <2>1. s3 \in Bytes(12)
    BY <1>2, Joined
  <2>2. Stands(p, 1, s3, 9)
    BY <1>2, StillStands
  <2> QED
    BY <2>1, <2>2
<1> HIDE DEF s3
<1>4. s4 \in Bytes(16) /\ Stands(p, 1, s4, 9) /\ Stands(src, 4, s4, 12)
  <2>1. s4 \in Bytes(16) /\ Stands(src, 4, s4, 12)
    BY <1>3, Joined
  <2>2. Stands(p, 1, s4, 9)
    BY <1>3, StillStands
  <2> QED
    BY <2>1, <2>2
<1>5. h = s4 \o dst
  BY DEF s1, s2, s3
<1> HIDE DEF s4
<1>6. h \in Bytes(20) /\ Stands(dst, 4, h, 16)
  BY <1>4, <1>5, Joined
<1>7. Stands(p, 1, h, 9)
  BY <1>4, <1>5, StillStands
<1>8. Stands(src, 4, h, 12)
  BY <1>4, <1>5, StillStands
<1> QED
  BY <1>6, <1>7, <1>8

\* The fields of a description.
LEMMA FieldFacts ==
    ASSUME NEW d, IsDescription(d)
    PROVE  /\ d.macs \in Bytes(12) /\ d.head \in Bytes(8)
           /\ d.checksum \in Bytes(2)
           /\ d.flow.src \in Bytes(4) /\ d.flow.dst \in Bytes(4)
           /\ d.payload \in Seq(Byte)
           /\ d.proto \in Byte /\ d.ether \in U16
           /\ d.flow.sport \in U16 /\ d.flow.dport \in U16
<1>1. d.flow \in Flows
  BY DEF IsDescription
<1>2. /\ d.flow.src \in Bytes(4) /\ d.flow.dst \in Bytes(4)
      /\ d.flow.sport \in U16 /\ d.flow.dport \in U16
  BY <1>1 DEF Flows
<1> QED
  BY <1>2 DEF IsDescription

\* Its options, and what the header says of them.
LEMMA OptionFacts ==
    ASSUME NEW d, IsDescription(d)
    PROVE  /\ d.options \in Seq(Byte)
           /\ 64 + 5 + Len(d.options) \div 4 \in Byte
<1>1. PICK w \in 0..10 : d.options \in Bytes(4 * w)
  BY DEF IsDescription
<1>2. 4 * w \in Nat /\ w \in Nat /\ w <= 10
  OBVIOUS
<1>3. d.options \in Seq(Byte) /\ Len(d.options) = 4 * w
  BY <1>1, <1>2, BlockFacts
<1>4. (4 * w) \div 4 = w
  BY <1>2
<1> QED
  BY <1>2, <1>3, <1>4 DEF Byte

\* The header of a description.
LEMMA HeaderFacts ==
    ASSUME NEW d, IsDescription(d)
    PROVE  /\ IpHeader(d) \in Bytes(20)
           /\ Stands(<<d.proto>>, 1, IpHeader(d), 9)
           /\ Stands(d.flow.src, 4, IpHeader(d), 12)
           /\ Stands(d.flow.dst, 4, IpHeader(d), 16)
<1> DEFINE a == <<64 + 5 + Len(d.options) \div 4>>
           p == <<d.proto>>
<1>1. a \in Bytes(1) /\ p \in Bytes(1)
  BY OptionFacts, FieldFacts, ByteFacts
<1>2. IpHeader(d) = a \o d.head \o p \o d.checksum \o d.flow.src \o d.flow.dst
  BY DEF IpHeader
<1> HIDE DEF a, p
<1>3. /\ IpHeader(d) \in Bytes(20) /\ Stands(p, 1, IpHeader(d), 9)
      /\ Stands(d.flow.src, 4, IpHeader(d), 12)
      /\ Stands(d.flow.dst, 4, IpHeader(d), 16)
  BY <1>1, <1>2, FieldFacts, HeaderLayout
<1> QED
  BY <1>3 DEF p

\* The packet: each field stands behind the fields before it.
LEMMA PacketLayout ==
    ASSUME NEW m \in Bytes(12), NEW e \in Bytes(2), NEW h \in Bytes(20),
           NEW n \in Nat, NEW o \in Bytes(n),
           NEW sp \in Bytes(2), NEW dp \in Bytes(2),
           NEW l \in Nat, NEW z \in Bytes(l),
           NEW w, w = m \o e \o h \o o \o sp \o dp \o z
    PROVE  /\ w \in Bytes(38 + n + l)
           /\ Stands(e, 2, w, 12)
           /\ Stands(h, 20, w, 14)
           /\ Stands(sp, 2, w, 34 + n)
           /\ Stands(dp, 2, w, 36 + n)
<1> DEFINE s1 == m \o e
           s2 == s1 \o h
           s3 == s2 \o o
           s4 == s3 \o sp
           s5 == s4 \o dp
<1>1. s1 \in Bytes(14) /\ Stands(e, 2, s1, 12)
  BY Joined
<1> HIDE DEF s1
<1>2. s2 \in Bytes(34) /\ Stands(e, 2, s2, 12) /\ Stands(h, 20, s2, 14)
  <2>1. s2 \in Bytes(34) /\ Stands(h, 20, s2, 14)
    BY <1>1, Joined
  <2>2. Stands(e, 2, s2, 12)
    BY <1>1, StillStands
  <2> QED
    BY <2>1, <2>2
<1> HIDE DEF s2
<1>3. s3 \in Bytes(34 + n) /\ Stands(e, 2, s3, 12) /\ Stands(h, 20, s3, 14)
  <2>1. s3 \in Bytes(34 + n)
    BY <1>2, Joined
  <2>2. Stands(e, 2, s3, 12)
    BY <1>2, StillStands
  <2>3. Stands(h, 20, s3, 14)
    BY <1>2, StillStands
  <2> QED
    BY <2>1, <2>2, <2>3
<1> HIDE DEF s3
<1> DEFINE k == 34 + n
<1>4. k \in Nat /\ k >= 34
  OBVIOUS
<1>5. s3 \in Bytes(k)
  BY <1>3
<1> HIDE DEF k
<1>6. /\ s4 \in Bytes(k + 2) /\ Stands(e, 2, s4, 12) /\ Stands(h, 20, s4, 14)
      /\ Stands(sp, 2, s4, k)
  <2>1. s4 \in Bytes(k + 2) /\ Stands(sp, 2, s4, k)
    BY <1>4, <1>5, Joined
  <2>2. Stands(e, 2, s4, 12)
    BY <1>3, <1>4, <1>5, StillStands
  <2>3. Stands(h, 20, s4, 14)
    BY <1>3, <1>4, <1>5, StillStands
  <2> QED
    BY <2>1, <2>2, <2>3
<1> HIDE DEF s4
<1>7. /\ s5 \in Bytes((k + 2) + 2)
      /\ Stands(e, 2, s5, 12) /\ Stands(h, 20, s5, 14)
      /\ Stands(sp, 2, s5, k) /\ Stands(dp, 2, s5, k + 2)
  <2>1. s5 \in Bytes((k + 2) + 2) /\ Stands(dp, 2, s5, k + 2)
    BY <1>4, <1>6, Joined
  <2>2. Stands(e, 2, s5, 12)
    BY <1>4, <1>6, StillStands
  <2>3. Stands(h, 20, s5, 14)
    BY <1>4, <1>6, StillStands
  <2>4. Stands(sp, 2, s5, k)
    BY <1>4, <1>6, StillStands
  <2> QED
    BY <2>1, <2>2, <2>3, <2>4
<1>8. w = s5 \o z
  BY DEF s1, s2, s3, s4
<1> HIDE DEF s5
<1>9. (k + 2) + 2 \in Nat /\ (k + 2) + 2 >= 38
  BY <1>4
<1>10. w \in Bytes(((k + 2) + 2) + l)
  BY <1>7, <1>8, <1>9, Joined
<1>11. Stands(e, 2, w, 12)
  BY <1>7, <1>8, <1>9, StillStands
<1>12. Stands(h, 20, w, 14)
  BY <1>7, <1>8, <1>9, StillStands
<1>13. Stands(sp, 2, w, k)
  BY <1>4, <1>7, <1>8, <1>9, StillStands
<1>14. Stands(dp, 2, w, k + 2)
  BY <1>4, <1>7, <1>8, <1>9, StillStands
<1>15. /\ ((k + 2) + 2) + l = 38 + n + l /\ k = 34 + n /\ k + 2 = 36 + n
  BY DEF k
<1> QED
  BY <1>10, <1>11, <1>12, <1>13, <1>14, <1>15

\* The whole encoding.
LEMMA EncodingFacts ==
    ASSUME NEW d, IsDescription(d)
    PROVE  /\ \E l \in Nat : Headers(d) \in Bytes(l) /\ d.len \in 0..l
           /\ Stands(Wire16(d.ether), 2, Headers(d), 12)
           /\ Stands(IpHeader(d), 20, Headers(d), 14)
           /\ d.options = <<>> =>
                  /\ Stands(Wire16(d.flow.sport), 2, Headers(d), 34)
                  /\ Stands(Wire16(d.flow.dport), 2, Headers(d), 36)
<1> DEFINE n == Len(d.options)
           l == Len(d.payload)
           e == Wire16(d.ether)
           sp == Wire16(d.flow.sport)
           dp == Wire16(d.flow.dport)
<1>1. /\ n \in Nat /\ d.options \in Bytes(n)
      /\ l \in Nat /\ d.payload \in Bytes(l)
  BY FieldFacts, OptionFacts, SequenceIsBlock
<1>2. /\ e \in Bytes(2) /\ sp \in Bytes(2) /\ dp \in Bytes(2)
      /\ d.macs \in Bytes(12) /\ IpHeader(d) \in Bytes(20)
  BY FieldFacts, HeaderFacts, Wire16Facts
<1>3. Headers(d) = d.macs \o e \o IpHeader(d) \o d.options \o sp \o dp
                       \o d.payload
  BY DEF Headers
<1>4. d.options = <<>> => n = 0
  OBVIOUS
<1>5. d.len \in 0..Len(Headers(d))
  BY DEF IsDescription
<1> HIDE DEF n, l, e, sp, dp
<1>6. /\ Headers(d) \in Bytes(38 + n + l)
      /\ Stands(e, 2, Headers(d), 12)
      /\ Stands(IpHeader(d), 20, Headers(d), 14)
      /\ Stands(sp, 2, Headers(d), 34 + n)
      /\ Stands(dp, 2, Headers(d), 36 + n)
  BY <1>1, <1>2, <1>3, PacketLayout, ZenonT(30)
<1>7. 38 + n + l \in Nat /\ Len(Headers(d)) = 38 + n + l
  BY <1>1, <1>6, BlockFacts
<1>8. \E t \in Nat : Headers(d) \in Bytes(t) /\ d.len \in 0..t
  BY <1>5, <1>6, <1>7
<1>9. d.options = <<>> => Stands(sp, 2, Headers(d), 34)
                          /\ Stands(dp, 2, Headers(d), 36)
  BY <1>4, <1>6
<1> QED
  BY <1>6, <1>8, <1>9 DEF e, sp, dp

(***************************************************************************)
(* What the parser makes of it.                                            *)
(***************************************************************************)

\* The window holds the first bytes of the encoding.
LEMMA WindowFacts ==
    ASSUME NEW d, IsDescription(d)
    PROVE  /\ d.len \in Nat /\ Encode(d).data_end = d.len
           /\ \A i \in 1..d.len : /\ Encode(d).at[i - 1] = Headers(d)[i]
                                  /\ Encode(d).at[i - 1] \in Byte
<1>1. PICK l \in Nat : Headers(d) \in Bytes(l) /\ d.len \in 0..l
  BY EncodingFacts
<1>2. d.len \in Nat /\ d.len <= l
  BY <1>1
<1>3. ASSUME NEW i \in 1..d.len PROVE Headers(d)[i] \in Byte
  BY <1>1, <1>2, <1>3 DEF Bytes
<1>4. /\ Encode(d).data_end = d.len
      /\ Encode(d).at = [o \in 0..(d.len - 1) |-> Headers(d)[o + 1]]
  BY DEF Encode
<1>5. ASSUME NEW i \in 1..d.len PROVE Encode(d).at[i - 1] = Headers(d)[i]
  <2>1. i - 1 \in 0..(d.len - 1) /\ (i - 1) + 1 = i
    BY <1>2
  <2> QED
    BY <1>4, <2>1
<1> QED
  BY <1>2, <1>3, <1>4, <1>5

\* A field that stands in the encoding is read at its offset.
LEMMA FieldRead ==
    ASSUME NEW d, IsDescription(d), NEW n \in Nat, NEW k \in Nat,
           k + n <= d.len, NEW b, Stands(b, n, Headers(d), k),
           NEW i \in 1..n
    PROVE  Encode(d).at[k + i - 1] = b[i] /\ b[i] \in Byte
<1>1. k + i \in 1..d.len
  BY WindowFacts
<1>2. /\ Encode(d).at[k + i - 1] = Headers(d)[k + i]
      /\ Encode(d).at[k + i - 1] \in Byte
  BY <1>1, WindowFacts
<1>3. Headers(d)[k + i] = b[i]
  BY DEF Stands
<1> QED
  BY <1>2, <1>3

\* The two bytes of a 16-bit field are read as the field.
LEMMA Read16 ==
    ASSUME NEW d, IsDescription(d), NEW n \in U16, NEW k \in Nat,
           k + 2 <= d.len, Stands(Wire16(n), 2, Headers(d), k)
    PROVE  be16(Encode(d), k) = n
<1>1. /\ Encode(d).at[k + 1 - 1] = Wire16(n)[1]
      /\ Encode(d).at[k + 2 - 1] = Wire16(n)[2]
  BY FieldRead
<1>2. k + 1 - 1 = k /\ k + 2 - 1 = k + 1
  OBVIOUS
<1>3. Encode(d).at[k] = Wire16(n)[1] /\ Encode(d).at[k + 1] = Wire16(n)[2]
  BY <1>1, <1>2
<1> QED
  BY <1>3, Wire16Facts DEF be16

\* The bytes of the fixed IPv4 header.
LEMMA ReadHeader ==
    ASSUME NEW d, IsDescription(d), d.len >= 34, NEW i \in 0..19
    PROVE  /\ Encode(d).at[14 + i] = IpHeader(d)[i + 1]
           /\ Encode(d).at[14 + i] \in Byte
<1>1. d.len \in Nat /\ 14 + 20 <= d.len
  BY WindowFacts
<1>2. Stands(IpHeader(d), 20, Headers(d), 14)
  BY EncodingFacts
<1>3. i + 1 \in 1..20 /\ 14 + (i + 1) - 1 = 14 + i
  OBVIOUS
<1>4. /\ Encode(d).at[14 + (i + 1) - 1] = IpHeader(d)[i + 1]
      /\ IpHeader(d)[i + 1] \in Byte
  BY <1>1, <1>2, <1>3, FieldRead
<1> QED
  BY <1>3, <1>4

\* The tests of inspect() are the tests of the description.
LEMMA SignalIff ==
    ASSUME NEW d, IsDescription(d)
    PROVE  IsSignal(Encode(d)) <=>
               /\ d.ether = ETH_P_IP
               /\ d.proto \in {IPPROTO_TCP, IPPROTO_UDP}
               /\ d.len >= 54
<1>1. d.len \in Nat /\ Encode(d).data_end = d.len
  BY WindowFacts
<1>2. CASE d.len < 34
  BY <1>1, <1>2 DEF IsSignal, Fits
<1>3. CASE d.len >= 34
  <2>1. be16(Encode(d), 12) = d.ether
    <3>1. 12 + 2 <= d.len /\ d.ether \in U16
      BY <1>1, <1>3, FieldFacts
    <3> QED
      BY <3>1, EncodingFacts, Read16
  <2>2. Encode(d).at[23] = d.proto
    <3>1. Encode(d).at[14 + 9] = IpHeader(d)[9 + 1]
      BY <1>3, ReadHeader
    <3>2. Stands(<<d.proto>>, 1, IpHeader(d), 9)
      BY HeaderFacts
    <3>3. IpHeader(d)[9 + 1] = d.proto
      BY <3>2 DEF Stands
    <3> QED
      BY <3>1, <3>3
  <2> QED
    BY <1>1, <1>3, <2>1, <2>2 DEF IsSignal, Fits
<1> QED
  BY <1>1, <1>2, <1>3

\* An address is read with its bytes in the order of a little-endian u32.
LEMMA ReadAddress ==
    ASSUME NEW d, IsDescription(d), d.len >= 34,
           NEW a, NEW k \in 0..16, Stands(a, 4, IpHeader(d), k),
           NEW o \in Nat, o = 14 + k
    PROVE  be32(Encode(d), o) = Ip(a) /\ Ip(a) \in Bytes(4)
<1>1. ASSUME NEW i \in 1..4
      PROVE  Encode(d).at[o + (i - 1)] = a[i] /\ a[i] \in Byte
  <2>1. k + (i - 1) \in 0..19 /\ (k + (i - 1)) + 1 = k + i
        /\ 14 + (k + (i - 1)) = o + (i - 1)
    OBVIOUS
  <2>2. /\ Encode(d).at[14 + (k + (i - 1))] = IpHeader(d)[(k + (i - 1)) + 1]
        /\ Encode(d).at[14 + (k + (i - 1))] \in Byte
    BY <2>1, ReadHeader
  <2>3. IpHeader(d)[k + i] = a[i]
    BY DEF Stands
  <2> QED
    BY <2>1, <2>2, <2>3
<1>2. /\ o + (1 - 1) = o /\ o + (2 - 1) = o + 1
      /\ o + (3 - 1) = o + 2 /\ o + (4 - 1) = o + 3
      /\ 1 \in 1..4 /\ 2 \in 1..4 /\ 3 \in 1..4 /\ 4 \in 1..4
  OBVIOUS
<1>3. /\ Encode(d).at[o] = a[1] /\ Encode(d).at[o + 1] = a[2]
      /\ Encode(d).at[o + 2] = a[3] /\ Encode(d).at[o + 3] = a[4]
      /\ a[1] \in Byte /\ a[2] \in Byte /\ a[3] \in Byte /\ a[4] \in Byte
  BY <1>1, <1>2
<1> QED
  BY <1>3 DEF be32, Ip, Bytes

\* Two bytes of the window make a u16.
LEMMA PortWidth ==
    ASSUME NEW d, IsDescription(d), NEW k \in Nat, k + 2 <= d.len
    PROVE  be16(Encode(d), k) \in U16
<1>1. k + 1 \in 1..d.len /\ k + 2 \in 1..d.len
      /\ (k + 1) - 1 = k /\ (k + 2) - 1 = k + 1
  BY WindowFacts
<1>2. Encode(d).at[k] \in Byte /\ Encode(d).at[k + 1] \in Byte
  BY <1>1, WindowFacts
<1> DEFINE a == Encode(d).at[k]
           b == Encode(d).at[k + 1]
<1>3. a \in Nat /\ a <= 255 /\ b \in Nat /\ b <= 255
  BY <1>2, ByteRange
<1>4. be16(Encode(d), k) = a * 256 + b
  BY DEF be16
<1> DEFINE n == a * 256 + b
<1> HIDE DEF a, b
<1>5. n \in Nat /\ n <= 65535
  BY <1>3
<1> HIDE DEF n
<1>6. U16Max \in Nat /\ n <= U16Max
  BY <1>5 DEF U16Max
<1>7. n \in U16
  BY <1>5, <1>6 DEF U16
<1> QED
  BY <1>4, <1>7 DEF n

\* What is extracted from a packet that passes the tests.
LEMMA ViewFacts ==
    ASSUME NEW d, IsDescription(d), d.len >= 54,
           NEW v, v = Extract(Encode(d))
    PROVE  /\ v \in ProtoViews
           /\ v.src_ip = Ip(d.flow.src) /\ v.dst_ip = Ip(d.flow.dst)
           /\ v.proto = d.proto
           /\ \A i \in 0..19 : v.l3_hdr[i] = IpHeader(d)[i + 1]
           /\ d.options = <<>> => /\ v.src_port = d.flow.sport
                                  /\ v.dst_port = d.flow.dport
<1> DEFINE p == Encode(d)
           hdr == [i \in 0..19 |-> p.at[14 + i]]
<1>1. d.len \in Nat /\ d.len >= 34 /\ 34 + 2 <= d.len /\ 36 + 2 <= d.len
  BY WindowFacts
<1>2. /\ be32(p, 26) = Ip(d.flow.src) /\ be32(p, 26) \in Bytes(4)
      /\ be32(p, 30) = Ip(d.flow.dst) /\ be32(p, 30) \in Bytes(4)
  <2>1. Stands(d.flow.src, 4, IpHeader(d), 12)
    BY HeaderFacts
  <2>2. Stands(d.flow.dst, 4, IpHeader(d), 16)
    BY HeaderFacts
  <2>3. be32(p, 26) = Ip(d.flow.src) /\ Ip(d.flow.src) \in Bytes(4)
    BY <1>1, <2>1, ReadAddress
  <2>4. be32(p, 30) = Ip(d.flow.dst) /\ Ip(d.flow.dst) \in Bytes(4)
    BY <1>1, <2>2, ReadAddress
  <2> QED
    BY <2>3, <2>4
<1>3. hdr \in [0..19 -> Byte] /\ \A i \in 0..19 : hdr[i] = IpHeader(d)[i + 1]
  BY <1>1, ReadHeader
<1>4. p.at[23] = d.proto /\ d.proto \in Byte
  <2>1. p.at[14 + 9] = IpHeader(d)[9 + 1]
    BY <1>1, ReadHeader
  <2>2. Stands(<<d.proto>>, 1, IpHeader(d), 9)
    BY HeaderFacts
  <2>3. IpHeader(d)[9 + 1] = d.proto
    BY <2>2 DEF Stands
  <2> QED
    BY <2>1, <2>3, FieldFacts
<1>5. be16(p, 34) \in U16 /\ be16(p, 36) \in U16
  BY <1>1, PortWidth
<1>6. d.options = <<>> => /\ be16(p, 34) = d.flow.sport
                          /\ be16(p, 36) = d.flow.dport
  BY <1>1, FieldFacts, EncodingFacts, Read16
<1>7. v = [src_ip |-> be32(p, 26), dst_ip |-> be32(p, 30),
           src_port |-> be16(p, 34), dst_port |-> be16(p, 36),
           proto |-> p.at[23], l3_hdr |-> hdr]
  BY DEF Extract
<1> HIDE DEF p, hdr
<1>8. v \in ProtoViews
  BY <1>2, <1>3, <1>4, <1>5, <1>7 DEF ProtoViews
<1>9. /\ v.src_ip = be32(p, 26) /\ v.dst_ip = be32(p, 30)
      /\ v.src_port = be16(p, 34) /\ v.dst_port = be16(p, 36)
      /\ v.proto = p.at[23] /\ v.l3_hdr = hdr
  BY <1>7
<1> QED
  BY <1>2, <1>3, <1>4, <1>6, <1>8, <1>9

(***************************************************************************)
(* The theorem.                                                            *)
(***************************************************************************)

\* desc stays the description of a packet, and ParsesPacket holds of it.
IInv == IsDescription(desc) /\ (stage = "arrived" => view = None) /\ ParsesPacket

\* inspect() recovers the addresses, the protocol and the IPv4 header of every
\* TCP or UDP packet over IPv4 that is long enough, and its ports if it has no
\* options; it rejects every other packet.
THEOREM ParsesPacketHolds == Spec => []ParsesPacket
<1>1. Init => IInv
  BY InspectionAssumption DEF Init, IInv, ParsesPacket
<1>2. ASSUME IInv, Inspect PROVE IInv'
  <2> DEFINE v == inspect(Encode(desc))
  <2>1. /\ desc' = desc /\ view' = v /\ stage' = "inspected"
        /\ IsDescription(desc)
    BY <1>2 DEF IInv, Inspect
  <2>2. CASE IsSignalPacket
    <3>1. v = Extract(Encode(desc)) /\ desc.len >= 54
      BY <2>1, <2>2, SignalIff DEF inspect, IsSignalPacket
    <3> HIDE DEF v
    <3>2. /\ v \in ProtoViews
          /\ v.src_ip = Ip(desc.flow.src) /\ v.dst_ip = Ip(desc.flow.dst)
          /\ v.proto = desc.proto
          /\ \A i \in 0..19 : v.l3_hdr[i] = IpHeader(desc)[i + 1]
          /\ desc.options = <<>> => /\ v.src_port = desc.flow.sport
                                    /\ v.dst_port = desc.flow.dport
      BY <2>1, <3>1, ViewFacts
    <3>3. IsSignalPacket' <=> IsSignalPacket
      BY <2>1 DEF IsSignalPacket
    <3>4. ParsesPacket'
      BY <2>1, <2>2, <3>2, <3>3 DEF ParsesPacket
    <3> QED
      BY <2>1, <3>4 DEF IInv
  <2>3. CASE ~IsSignalPacket
    <3>1. v = None
      BY <2>1, <2>3, SignalIff DEF inspect, IsSignalPacket
    <3>2. ~IsSignalPacket'
      BY <2>1, <2>3 DEF IsSignalPacket
    <3> HIDE DEF v
    <3> QED
      BY <2>1, <3>1, <3>2 DEF IInv, ParsesPacket
  <2> QED
    BY <2>2, <2>3
<1>3. IInv /\ UNCHANGED <<desc, stage, view>> => IInv'
  BY DEF IInv, ParsesPacket, IsSignalPacket
<1>4. IInv => ParsesPacket
  BY DEF IInv
<1> QED
  BY <1>1, <1>2, <1>3, <1>4, PTL DEF Spec
=============================================================================
