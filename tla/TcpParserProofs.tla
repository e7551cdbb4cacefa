----------------------------- MODULE TcpParserProofs -----------------------------
(***************************************************************************)
(* The parser, for every pair of markers, any payloads and any number of   *)
(* packets and broken connections: the types and the order; and, for as    *)
(* long as no connection broke and no read let the parser into a payload   *)
(* it could mistake, that the parser keeps step with the packets.          *)
(***************************************************************************)
EXTENDS TcpParser, SequenceTheorems, FiniteSetTheorems, TLAPS

(* Positions in the stream: where the buffer begins, where the parser is, and the end of *)
(* what was written.                                                                     *)
gone == arrived - size
here == gone + m_indexPos
total == arrived + Len(wire)
Stream(n) == IF n <= arrived THEN m_buffer[n - gone] ELSE wire[n - arrived]

(* The types, and what the later cases know of the earlier ones. *)
ParserTypes ==
    /\ TypeOK
    /\ sent \subseteq [at : Nat, type : {type_video}, data : Payloads]
    /\ m_state \in {"SIZE", "DATA", "END_CHECK"} => m_type \in 1 .. type_end - 1
    /\ m_state = "TYPE" => m_indexPos >= Len(begin_packet)
    /\ m_state = "SIZE" => m_indexPos >= Len(begin_packet) + 1
    /\ m_state \in {"DATA", "END_CHECK"} => m_dataBegin >= Len(begin_packet) + 5
    /\ m_state = "DATA" => m_indexPos = m_dataBegin
    /\ m_state = "END_CHECK" => m_indexPos = m_dataBegin + m_dataSize

(* What was delivered is no longer in the buffer, and the packets follow each other. *)
OrderInv ==
    /\ \A i \in DOMAIN delivered : delivered[i].at + Len(delivered[i].data) <= gone
    /\ InOrder

(* The packets written fill the stream, each behind another or at its start, and what is *)
(* left of them in the buffer and on the wire are their bytes.                           *)
Tiled ==
    /\ \A p \in sent : Ends(p) <= total
    /\ \A p \in sent : Ends(p) = total \/ \E q \in sent : q.at = Ends(p)
    /\ \A p, q \in sent : p # q => Ends(p) <= q.at \/ Ends(q) <= p.at
    /\ total > 0 => \E p \in sent : p.at = 0
Carried ==
    \A p \in sent : \A k \in 1 .. PacketLen(p.data) :
        p.at + k > gone => Stream(p.at + k) = Format(p.data)[k]
StreamInv == breaks = {} => Tiled /\ Carried

(* Packet q was delivered, or it is one that M_BEGIN may have missed. *)
Done(q) == Delivered(q) \/ q.at \in splits

(* The parser is in packet p, and is done with those before it; or it is in the end     *)
(* marker of p, or right behind it, or anywhere in p if it missed its beginning, and is *)
(* done with p too.                                                                     *)
Within(p) ==
    /\ \A q \in sent : q.at < p.at => Done(q)
    /\ \/ m_state = "BEGIN_CHECK" /\ here = p.at
       \/ m_state = "TYPE" /\ here = p.at + Len(begin_packet)
       \/ m_state = "SIZE" /\ here = p.at + Len(begin_packet) + 1 /\ m_type = p.type
       \/ /\ m_state \in {"DATA", "END_CHECK"} /\ gone + m_dataBegin = p.at + HeaderLen
          /\ m_dataSize = Len(p.data) /\ m_type = p.type
Behind(p) ==
    /\ \A q \in sent : q.at <= p.at => Done(q)
    /\ m_state = "BEGIN" /\ here <= Ends(p)
    /\ Ends(p) - Len(end_packet) <= here \/ (p.at < here /\ p.at \in splits)
InStep ==
    \/ m_state = "BEGIN" /\ here = 0
    \/ \E p \in sent : Within(p) \/ Behind(p)

(* What is owed was delivered, or there is a packet for it that this call comes to. *)
Paid ==
    \/ owed <= Len(delivered)
    \/ parsing /\ owed = Len(delivered) + 1 /\ \E p \in sent : Due(p, arrived) /\ ~Done(p)

FromSent(d) == [at |-> First(d), type |-> d.type, data |-> d.data] \in sent
AsSent == \A i \in DOMAIN delivered : FromSent(delivered[i])
CutsAreSplits == \A p \in sent : arrived - p.at \in 1 .. 2 => p.at \in splits

Uncut == ~Documented /\ Steady
StepInv == Uncut => InStep /\ CutsAreSplits /\ AsSent /\ Paid

-----------------------------------------------------------------------------
(* The bytes of a packet *)

LEMMA Slice ==
    ASSUME NEW S, NEW s \in Seq(S), NEW m \in Nat, NEW n \in Nat, 1 <= m, m <= n + 1, n <= Len(s)
    PROVE  /\ SubSeq(s, m, n) \in Seq(S) /\ Len(SubSeq(s, m, n)) = n - m + 1
           /\ \A i \in 1 .. n - m + 1 : SubSeq(s, m, n)[i] = s[m + i - 1]
<1>1. \A i \in m .. n : s[i] \in S
  BY ElementOfSeq
<1>. QED
  BY <1>1, SubSeqProperties

LEMMA Constants ==
    /\ Len(begin_packet) \in Nat /\ Len(begin_packet) >= 3
    /\ Len(end_packet) \in Nat /\ Len(end_packet) >= 2
    /\ begin_packet \in Seq(Byte) /\ end_packet \in Seq(Byte)
    /\ \A data \in Payloads : data \in Seq(Byte) /\ Len(data) \in 0 .. 127
<1>1. 0 .. 127 \subseteq Byte
  BY DEF Byte
<1>2. begin_packet \in Seq(Byte) /\ end_packet \in Seq(Byte)
  BY <1>1, ParserAssumption, SeqMonotonic
<1>3. Len(begin_packet) \in Nat /\ Len(end_packet) \in Nat
  BY <1>2, LenProperties
<1>4. ASSUME NEW data \in Payloads PROVE data \in Seq(Byte) /\ Len(data) \in 0 .. 127
  <2>1. data \in Seq(0 .. 127) /\ Len(data) < 128
    BY ParserAssumption
  <2>2. data \in Seq(Byte) /\ Len(data) \in Nat
    BY <1>1, <2>1, SeqMonotonic, LenProperties
  <2>3. Len(data) \in 0 .. 127
    <3>. DEFINE n == Len(data)
    <3>1. n \in Nat /\ n < 128
      BY <2>1, <2>2
    <3>. HIDE DEF n
    <3>2. n \in 0 .. 127
      BY <3>1
    <3>. QED
      BY <3>2 DEF n
  <2>. QED
    BY <2>2, <2>3
<1>. QED
  BY <1>2, <1>3, <1>4, ParserAssumption

(* A literal's own bytes are no more than writeNextPacket takes of it. *)
LEMMA MarkerFacts ==
    ASSUME NEW bytes \in Seq(Byte)
    PROVE  /\ Marker(bytes) \in Seq(Byte)
           /\ Len(Marker(bytes)) \in Nat /\ Len(Marker(bytes)) <= Len(bytes)
           /\ ~Documented => Marker(bytes) = bytes
<1>. DEFINE own == {n \in 1 .. Len(bytes) : \A k \in 1 .. n : bytes[k] # 0}
<1>1. Len(bytes) \in Nat
  BY LenProperties
<1>2. IsFiniteSet(1 .. Len(bytes)) /\ Cardinality(1 .. Len(bytes)) = Len(bytes)
  BY <1>1, FS_Interval
<1>3. IsFiniteSet(own) /\ Cardinality(own) <= Len(bytes)
  BY <1>2, FS_Subset
<1>4. Cardinality(own) \in Nat
  BY <1>3, FS_CardinalityType
<1>5. /\ SubSeq(bytes, 1, Cardinality(own)) \in Seq(Byte)
      /\ Len(SubSeq(bytes, 1, Cardinality(own))) = Cardinality(own)
  <2>. DEFINE c == Cardinality(own)
  <2>1. c \in Nat /\ c <= Len(bytes)
    BY <1>3, <1>4
  <2>. HIDE DEF c
  <2>2. 1 \in Nat /\ 1 <= 1 /\ 1 <= c + 1 /\ c - 1 + 1 = c
    BY <2>1
  <2>3. SubSeq(bytes, 1, c) \in Seq(Byte) /\ Len(SubSeq(bytes, 1, c)) = c - 1 + 1
    BY <2>1, <2>2, Slice
  <2>. QED
    BY <2>2, <2>3 DEF c
<1>6. UpToNul(bytes) = SubSeq(bytes, 1, Cardinality(own))
  BY DEF UpToNul
<1>. QED
  BY <1>1, <1>3, <1>4, <1>5, <1>6 DEF Marker

LEMMA UintFacts ==
    ASSUME NEW n \in 0 .. 127
    PROVE  Uint(n) = <<n, 0, 0, 0>> /\ Uint(n) \in Seq(Byte) /\ Len(Uint(n)) = 4
<1>1. n % 256 = n /\ n \div 256 = 0 /\ n \div 65536 = 0 /\ n \div 16777216 = 0 /\ 0 % 256 = 0
  OBVIOUS
<1>2. Uint(n) = <<n, 0, 0, 0>>
  BY <1>1 DEF Uint
<1>. QED
  BY <1>2 DEF Byte

(* Where the parts of a packet are in it. *)
LEMMA HeaderFacts ==
    ASSUME NEW data \in Payloads
    PROVE  /\ Header(data) \in Seq(Byte) /\ Len(Header(data)) = HeaderLen
           /\ \A k \in 1 .. Len(Marker(begin_packet)) : Header(data)[k] = Marker(begin_packet)[k]
           /\ Header(data)[Len(Marker(begin_packet)) + 1] = type_video
           /\ \A k \in 1 .. 4 : Header(data)[Len(Marker(begin_packet)) + 1 + k] = Uint(Len(data))[k]
<1>. DEFINE b == Marker(begin_packet)
            bt == b \o <<type_video>>
            n == Uint(Len(data))
<1>1. b \in Seq(Byte) /\ Len(b) \in Nat /\ <<type_video>> \in Seq(Byte) /\ Len(<<type_video>>) = 1
  BY Constants, MarkerFacts DEF type_video, Byte
<1>2. n \in Seq(Byte) /\ Len(n) = 4
  BY Constants, UintFacts
<1>3. /\ bt \in Seq(Byte) /\ Len(bt) = Len(b) + 1
      /\ \A k \in 1 .. Len(b) : bt[k] = b[k]
      /\ bt[Len(b) + 1] = type_video
  <2>1. /\ bt \in Seq(Byte) /\ Len(bt) = Len(b) + 1
        /\ \A i \in 1 .. Len(b) + 1 : bt[i] = IF i <= Len(b) THEN b[i] ELSE <<type_video>>[i - Len(b)]
    BY <1>1, ConcatProperties
  <2>. QED
    BY <1>1, <2>1
<1>4. /\ bt \o n \in Seq(Byte) /\ Len(bt \o n) = Len(b) + 5
      /\ \A i \in 1 .. Len(b) + 5 : (bt \o n)[i] = IF i <= Len(b) + 1 THEN bt[i] ELSE n[i - (Len(b) + 1)]
  <2>. HIDE DEF bt, n
  <2>1. /\ bt \o n \in Seq(Byte) /\ Len(bt \o n) = Len(bt) + Len(n)
        /\ \A i \in 1 .. Len(bt) + Len(n) : (bt \o n)[i] = IF i <= Len(bt) THEN bt[i] ELSE n[i - Len(bt)]
    BY <1>2, <1>3, ConcatProperties
  <2>2. Len(bt) = Len(b) + 1 /\ Len(bt) + Len(n) = Len(b) + 5
    BY <1>1, <1>2, <1>3
  <2>. QED
    BY <2>1, <2>2
<1>5. Header(data) = bt \o n
  BY DEF Header
<1>6. \A k \in 1 .. 4 : Header(data)[Len(b) + 1 + k] = n[k]
  BY <1>1, <1>4, <1>5
<1>. QED
  BY <1>1, <1>3, <1>4, <1>5, <1>6 DEF HeaderLen

LEMMA FormatFacts ==
    ASSUME NEW data \in Payloads
    PROVE  /\ Format(data) \in Seq(Byte)
           /\ HeaderLen \in Nat /\ HeaderLen >= 5 /\ HeaderLen <= Len(begin_packet) + 5
           /\ Len(Marker(end_packet)) \in Nat
           /\ Len(Format(data)) = HeaderLen + Len(data) + Len(Marker(end_packet))
           /\ PacketLen(data) \in Nat /\ PacketLen(data) >= 5
           /\ \A k \in 1 .. HeaderLen : Format(data)[k] = Header(data)[k]
           /\ \A k \in 1 .. Len(data) : Format(data)[HeaderLen + k] = data[k]
           /\ \A k \in 1 .. Len(Marker(end_packet)) :
                  Format(data)[HeaderLen + Len(data) + k] = Marker(end_packet)[k]
<1>. DEFINE h == Header(data)
            hd == h \o data
            e == Marker(end_packet)
<1>1. h \in Seq(Byte) /\ Len(h) = HeaderLen /\ data \in Seq(Byte) /\ Len(data) \in Nat
  BY HeaderFacts, Constants
<1>2. e \in Seq(Byte) /\ Len(e) \in Nat
  BY Constants, MarkerFacts
<1>3. HeaderLen \in Nat /\ HeaderLen >= 5 /\ HeaderLen <= Len(begin_packet) + 5
  BY Constants, MarkerFacts DEF HeaderLen
<1>4. /\ hd \in Seq(Byte) /\ Len(hd) = HeaderLen + Len(data)
      /\ \A i \in 1 .. HeaderLen + Len(data) : hd[i] = IF i <= HeaderLen THEN h[i] ELSE data[i - HeaderLen]
  BY <1>1, ConcatProperties
<1>5. /\ hd \o e \in Seq(Byte) /\ Len(hd \o e) = Len(hd) + Len(e)
      /\ \A i \in 1 .. Len(hd) + Len(e) : (hd \o e)[i] = IF i <= Len(hd) THEN hd[i] ELSE e[i - Len(hd)]
  BY <1>2, <1>4, ConcatProperties
<1>6. Format(data) = hd \o e
  BY DEF Format
<1>7. \A k \in 1 .. HeaderLen : (hd \o e)[k] = h[k]
  BY <1>1, <1>2, <1>3, <1>4, <1>5
<1>8. \A k \in 1 .. Len(data) : (hd \o e)[HeaderLen + k] = data[k]
  <2>. TAKE k \in 1 .. Len(data)
  <2>. DEFINE i == HeaderLen + k
  <2>1. i \in 1 .. HeaderLen + Len(data) /\ ~(i <= HeaderLen) /\ i - HeaderLen = k
    BY <1>1, <1>3
  <2>2. hd[i] = data[k]
    <3>. HIDE DEF i, hd
    <3>1. hd[i] = data[i - HeaderLen]
      BY <1>4, <2>1
    <3>. QED
      BY <2>1, <3>1
  <2>. QED
    BY <1>1, <1>2, <1>3, <1>4, <1>5, <2>1, <2>2
<1>9. \A k \in 1 .. Len(e) : (hd \o e)[HeaderLen + Len(data) + k] = e[k]
  <2>. TAKE k \in 1 .. Len(e)
  <2>. DEFINE i == HeaderLen + Len(data) + k
  <2>1. i \in 1 .. Len(hd) + Len(e) /\ ~(i <= Len(hd)) /\ i - Len(hd) = k
    BY <1>1, <1>2, <1>3, <1>4
  <2>. HIDE DEF i, hd, e
  <2>2. (hd \o e)[i] = e[i - Len(hd)]
    BY <1>5, <2>1
  <2>. QED
    BY <2>1, <2>2 DEF i
<1>. QED
  BY <1>1, <1>2, <1>3, <1>4, <1>5, <1>6, <1>7, <1>8, <1>9 DEF PacketLen

-----------------------------------------------------------------------------
(* The types *)

LEMMA Numbers ==
    ASSUME ParserTypes
    PROVE  /\ size \in Nat /\ m_buffer \in Seq(Byte) /\ DOMAIN m_buffer = 1 .. size
           /\ Len(wire) \in Nat /\ wire \in Seq(Byte)
           /\ arrived \in Nat /\ gone \in Nat /\ total \in Nat
           /\ m_indexPos \in Nat /\ m_indexPos <= size
           /\ m_dataSize \in Nat /\ m_dataBegin \in Nat
  BY LenProperties DEF ParserTypes, TypeOK, size, gone, total

(* Those of them that are about numbers only. *)
LEMMA Counts ==
    ASSUME ParserTypes
    PROVE  /\ size \in Nat /\ Len(wire) \in Nat /\ arrived \in Nat /\ gone \in Nat /\ total \in Nat
           /\ gone + size = arrived /\ arrived + Len(wire) = total
           /\ m_indexPos \in Nat /\ m_indexPos <= size /\ m_dataSize \in Nat /\ m_dataBegin \in Nat
<1>1. size \in Nat /\ arrived \in Nat /\ gone = arrived - size /\ total = arrived + Len(wire)
  BY Numbers DEF gone, total
<1>. QED
  BY <1>1, Numbers

LEMMA DeliveredLen ==
    ASSUME ParserTypes
    PROVE  Len(delivered) \in Nat /\ owed \in Nat /\ owed <= Len(delivered) + 1
<1>. DEFINE R == [at : Nat, type : 1 .. type_end - 1, data : Seq(Byte)]
<1>1. delivered \in Seq(R) /\ owed \in 0 .. Len(delivered) + 1
  BY DEF ParserTypes, TypeOK
<1>. HIDE DEF R
<1>2. Len(delivered) \in Nat
  BY <1>1, LenProperties
<1>. QED
  BY <1>1, <1>2

LEMMA WantedValues ==
    /\ m_state \in {"BEGIN", "TYPE", "ERROR"} => Wanted = 0
    /\ m_state = "BEGIN_CHECK" => Wanted = Len(begin_packet)
    /\ m_state = "SIZE" => Wanted = 4
    /\ m_state = "DATA" => Wanted = m_dataSize
    /\ m_state = "END_CHECK" => Wanted = Len(end_packet)
  BY DEF Wanted

LEMMA InitTypes == Init => ParserTypes
<1>1. <<>> \in Seq(Byte) /\ Len(<<>>) = 0 /\ <<>> \in Seq([at : Nat, type : 1 .. type_end - 1, data : Seq(Byte)])
  OBVIOUS
<1>. SUFFICES ASSUME Init PROVE ParserTypes
  OBVIOUS
<1>2. size = 0 /\ m_buffer \in Seq(Byte) /\ wire \in Seq(Byte)
  BY <1>1 DEF Init, size
<1>3. TypeOK
  <2>1. written \in 0 .. MaxPackets /\ arrived \in Nat /\ m_indexPos \in 0 .. size /\ size <= arrived
    BY <1>2, ParserAssumption DEF Init
  <2>2. m_type \in Byte
    BY DEF Init, Byte
  <2>3. breaks \subseteq 0 .. arrived /\ splits \subseteq 0 .. arrived
    BY DEF Init
  <2>4. /\ delivered \in Seq([at : Nat, type : 1 .. type_end - 1, data : Seq(Byte)])
        /\ owed \in 0 .. Len(delivered) + 1
    BY <1>1 DEF Init
  <2>. QED
    BY <1>2, <2>1, <2>2, <2>3, <2>4 DEF Init, TypeOK
<1>. QED
  BY <1>3 DEF Init, ParserTypes

LEMMA WriteTypes ==
    ASSUME ParserTypes, NEW data \in Payloads, writeNextPacket(data),
           UNCHANGED <<m_indexPos, m_state, packetVars, delivered>>
    PROVE  ParserTypes'
<1>. USE DEF writeNextPacket, packetVars
<1>1. wire' \in Seq(Byte)
  BY Numbers, FormatFacts, ConcatProperties
<1>2. size' = size
  BY DEF size
<1>3. [at |-> arrived + Len(wire), type |-> type_video, data |-> data] \in [at : Nat, type : {type_video}, data : Payloads]
  BY Numbers
<1>. QED
  BY <1>1, <1>2, <1>3, ParserAssumption DEF ParserTypes, TypeOK

LEMMA ReadTypes ==
    ASSUME ParserTypes, NEW n \in 1 .. Len(wire), onReadyRead(n),
           UNCHANGED <<m_indexPos, m_state, packetVars, delivered>>
    PROVE  ParserTypes'
<1>. USE DEF onReadyRead, packetVars
<1>1. n \in Nat /\ 1 <= n /\ n <= Len(wire)
  BY Numbers
<1>2. SubSeq(wire, 1, n) \in Seq(Byte) /\ Len(SubSeq(wire, 1, n)) = n
  <2>1. 1 \in Nat /\ 1 <= 1 /\ 1 <= n + 1 /\ n - 1 + 1 = n
    BY <1>1
  <2>2. SubSeq(wire, 1, n) \in Seq(Byte) /\ Len(SubSeq(wire, 1, n)) = n - 1 + 1
    BY <1>1, <2>1, Numbers, Slice
  <2>. QED
    BY <2>1, <2>2
<1>3. wire' \in Seq(Byte)
  <2>1. n + 1 \in Nat /\ 1 <= n + 1 /\ n + 1 <= Len(wire) + 1 /\ Len(wire) \in Nat /\ Len(wire) <= Len(wire)
    BY <1>1, Numbers
  <2>. QED
    BY <2>1, Numbers, Slice
<1>4. m_buffer' \in Seq(Byte) /\ size' = size + n
  BY <1>2, Numbers, ConcatProperties DEF size
<1>5. splits' \subseteq 0 .. arrived'
  <2>1. \A p \in sent : p.at \in Nat
    BY DEF ParserTypes
  <2>2. splits \subseteq 0 .. arrived
    BY DEF ParserTypes, TypeOK
  <2>3. ASSUME NEW x \in splits' PROVE x \in 0 .. arrived'
    <3>1. CASE x \in splits
      BY <1>1, <2>2, <3>1, Numbers
    <3>2. ASSUME NEW p \in sent, arrived + n - p.at \in 1 .. 2, x = p.at
          PROVE  x \in 0 .. arrived'
      <4>1. p.at \in Nat /\ arrived \in Nat /\ n \in Nat /\ arrived' = arrived + n
        BY <1>1, <2>1, Numbers
      <4>. QED
        BY <3>2, <4>1
    <3>3. x \in splits \/ \E p \in sent : arrived + n - p.at \in 1 .. 2 /\ x = p.at
      OBVIOUS
    <3>. QED
      BY <3>1, <3>2, <3>3
  <2>. QED
    BY <2>3
<1>6. breaks' \subseteq 0 .. arrived'
  BY <1>1, Numbers DEF ParserTypes, TypeOK
<1>7. m_indexPos' \in 0 .. size' /\ arrived' \in Nat /\ size' <= arrived'
  <2>1. arrived' = arrived + n /\ m_indexPos' = m_indexPos /\ size <= arrived
    BY DEF ParserTypes, TypeOK
  <2>. HIDE DEF onReadyRead
  <2>. QED
    BY <1>1, <1>4, <2>1, Numbers
<1>8. owed' \in 0 .. Len(delivered') + 1
  <2>1. Len(delivered) \in Nat /\ delivered' = delivered
    BY DeliveredLen
  <2>2. owed' = Len(delivered) + 0 \/ owed' = Len(delivered) + 1
    OBVIOUS
  <2>. QED
    BY <2>1, <2>2
<1>. QED
  BY <1>3, <1>4, <1>5, <1>6, <1>7, <1>8 DEF ParserTypes, TypeOK

LEMMA ReconnectTypes ==
    ASSUME ParserTypes, Reconnect,
           UNCHANGED <<m_indexPos, m_state, packetVars, delivered>>
    PROVE  ParserTypes'
<1>. USE DEF Reconnect, packetVars
<1>1. wire' \in Seq(Byte)
  OBVIOUS
<1>2. size' = size
  BY DEF size
<1>3. breaks' \subseteq 0 .. arrived'
  <2>1. breaks \subseteq 0 .. arrived
    BY DEF ParserTypes, TypeOK
  <2>2. breaks' = breaks \cup {arrived} /\ arrived' = arrived
    OBVIOUS
  <2>3. arrived \in 0 .. arrived
    BY Numbers
  <2>. QED
    BY <2>1, <2>2, <2>3
<1>. QED
  BY <1>1, <1>2, <1>3 DEF ParserTypes, TypeOK

(* What a case finds at m_indexPos. *)
LEMMA Ahead ==
    ASSUME ParserTypes, NEW k \in Nat, 1 <= k, m_indexPos + k <= size
    PROVE  m_buffer[m_indexPos + k] \in Byte
<1>1. m_indexPos + k \in 1 .. size
  BY Numbers
<1>. QED
  BY <1>1, Numbers, ElementOfSeq DEF size

LEMMA GetUintType ==
    ASSUME ParserTypes, m_indexPos + 4 <= size
    PROVE  getUint(m_indexPos) \in Nat
<1>1. /\ m_buffer[m_indexPos + 1] \in Byte /\ m_buffer[m_indexPos + 2] \in Byte
      /\ m_buffer[m_indexPos + 3] \in Byte /\ m_buffer[m_indexPos + 4] \in Byte
  BY Numbers, Ahead, SMTT(20)
<1>. DEFINE b(k) == m_buffer[m_indexPos + k]
<1>2. b(1) \in Nat /\ b(2) \in Nat /\ b(3) \in Nat /\ b(4) \in Nat
  BY <1>1 DEF Byte
<1>3. getUint(m_indexPos) = b(1) + 256 * (b(2) + 256 * (b(3) + 256 * b(4)))
  BY DEF getUint
<1>. HIDE DEF b
<1>. QED
  BY <1>2, <1>3

LEMMA RemoveFacts ==
    ASSUME ParserTypes, Remove(m_indexPos)
    PROVE  /\ m_buffer' \in Seq(Byte) /\ size' = size - m_indexPos
           /\ \A k \in 1 .. size - m_indexPos : m_buffer'[k] = m_buffer[m_indexPos + k]
<1>. DEFINE m == m_indexPos + 1
<1>1. m \in Nat /\ 1 <= m /\ m <= size + 1 /\ size \in Nat /\ size <= Len(m_buffer) /\ size - m + 1 = size - m_indexPos
  BY Numbers DEF size
<1>2. m_buffer' = SubSeq(m_buffer, m, size)
  BY DEF Remove
<1>. HIDE DEF m
<1>3. /\ m_buffer' \in Seq(Byte) /\ Len(m_buffer') = size - m + 1
      /\ \A k \in 1 .. size - m + 1 : m_buffer'[k] = m_buffer[m + k - 1]
  BY <1>1, <1>2, Numbers, Slice
<1>4. \A k \in 1 .. size - m_indexPos : m + k - 1 = m_indexPos + k
  BY Numbers DEF m
<1>. QED
  BY <1>1, <1>3, <1>4 DEF size

LEMMA StartAgainTypes ==
    ASSUME ParserTypes, StartAgain, UNCHANGED peerVars,
           delivered' \in Seq([at : Nat, type : 1 .. type_end - 1, data : Seq(Byte)]),
           Len(delivered') >= Len(delivered)
    PROVE  ParserTypes'
<1>1. m_buffer' \in Seq(Byte) /\ size' \in Nat /\ size' <= arrived'
  BY RemoveFacts, Numbers DEF StartAgain, peerVars, gone
<1>2. m_indexPos' \in 0 .. size' /\ m_state' = "BEGIN" /\ parsing' = FALSE
  BY <1>1 DEF StartAgain
<1>owed. owed' \in 0 .. Len(delivered') + 1
  <2>. DEFINE R == [at : Nat, type : 1 .. type_end - 1, data : Seq(Byte)]
  <2>1. Len(delivered') \in Nat
    <3>1. delivered' \in Seq(R)
      OBVIOUS
    <3>. HIDE DEF R
    <3>. QED
      BY <3>1, LenProperties
  <2>2. owed' = owed
    BY DEF StartAgain
  <2>. QED
    BY <2>1, <2>2, DeliveredLen
<1>3. TypeOK'
  BY <1>1, <1>2, <1>owed DEF StartAgain, ParserTypes, TypeOK, peerVars, packetVars
<1>. QED
  BY <1>2, <1>3 DEF ParserTypes, peerVars

LEMMA GoToTypes ==
    ASSUME ParserTypes, UNCHANGED peerVars, NEW at \in Nat, at <= size,
           NEW state \in {"BEGIN", "BEGIN_CHECK", "TYPE", "SIZE", "DATA", "END_CHECK", "ERROR"},
           GoTo(state, at), m_type' \in Byte, m_dataSize' \in Nat, m_dataBegin' \in Nat
    PROVE  /\ TypeOK' /\ size' = size /\ sent' = sent /\ m_state' = state /\ m_indexPos' = at
           /\ sent' \subseteq [at : Nat, type : {type_video}, data : Payloads]
<1>1. size' = size
  BY DEF GoTo, size
<1>2. m_indexPos' \in 0 .. size'
  BY <1>1, Numbers DEF GoTo
<1>3. TypeOK'
  BY <1>1, <1>2 DEF GoTo, ParserTypes, TypeOK, peerVars
<1>. QED
  BY <1>1, <1>3 DEF GoTo, ParserTypes, peerVars

(* What is sent to the owner: the bytes behind m_dataBegin. *)
LEMMA PacketFacts ==
    ASSUME ParserTypes, m_state = "END_CHECK"
    PROVE  /\ Packet \in [at : Nat, type : 1 .. type_end - 1, data : Seq(Byte)]
           /\ Packet.at = gone + m_dataBegin /\ Packet.type = m_type
           /\ Len(Packet.data) = m_dataSize
           /\ \A k \in 1 .. m_dataSize : Packet.data[k] = m_buffer[m_dataBegin + k]
<1>. DEFINE m == m_dataBegin + 1
            n == m_dataBegin + m_dataSize
            d == SubSeq(m_buffer, m, n)
<1>1. /\ m_indexPos = m_dataBegin + m_dataSize /\ m_dataBegin \in Nat /\ m_dataSize \in Nat
      /\ m_type \in 1 .. type_end - 1
  BY Numbers DEF ParserTypes
<1>2. m \in Nat /\ n \in Nat /\ 1 <= m /\ m <= n + 1 /\ n <= Len(m_buffer) /\ n - m + 1 = m_dataSize
  BY <1>1, Numbers DEF size
<1>3. Packet = [at |-> gone + m_dataBegin, type |-> m_type, data |-> d]
  BY DEF Packet, gone
<1>4. gone + m_dataBegin \in Nat
  BY <1>1, Numbers
<1>. HIDE DEF m, n
<1>5. /\ d \in Seq(Byte) /\ Len(d) = n - m + 1
      /\ \A k \in 1 .. n - m + 1 : d[k] = m_buffer[m + k - 1]
  BY <1>2, Numbers, Slice, SMTT(20)
<1>6. \A k \in 1 .. m_dataSize : m + k - 1 = m_dataBegin + k
  BY <1>1 DEF m
<1>. HIDE DEF d
<1>. QED
  BY <1>1, <1>2, <1>3, <1>4, <1>5, <1>6

LEMMA CaseTypes ==
    ASSUME ParserTypes, parsePacket
    PROVE  ParserTypes'
<1>. USE DEF packetVars
<1>1. UNCHANGED peerVars
  BY DEF parsePacket
<1>2. m_type \in Byte /\ m_dataSize \in Nat /\ m_dataBegin \in Nat
  BY DEF ParserTypes, TypeOK
<1>3. CASE Begin
  <2>1. m_state = "BEGIN" /\ m_indexPos + 1 <= size /\ m_indexPos + 1 \in Nat
    BY <1>3, WantedValues, Numbers DEF Begin, Case
  <2>2. GoTo("BEGIN_CHECK", m_indexPos) \/ GoTo("BEGIN", m_indexPos + 1)
    BY <1>3 DEF Begin
  <2>3. m_type' \in Byte /\ m_dataSize' \in Nat /\ m_dataBegin' \in Nat
    BY <1>2, <1>3 DEF Begin
  <2>4. TypeOK' /\ m_state' \in {"BEGIN", "BEGIN_CHECK"} /\ sent' \subseteq [at : Nat, type : {type_video}, data : Payloads]
    BY <1>1, <2>1, <2>2, <2>3, Numbers, GoToTypes
  <2>. QED
    BY <2>4 DEF ParserTypes
<1>4. CASE BeginCheck
  <2>. DEFINE n == Len(begin_packet)
  <2>1. m_state = "BEGIN_CHECK" /\ m_indexPos + n <= size /\ m_indexPos + n \in Nat /\ m_indexPos + 1 <= size /\ m_indexPos + 1 \in Nat
    BY <1>4, WantedValues, Numbers, Constants DEF BeginCheck, Case
  <2>2. GoTo("TYPE", m_indexPos + n) \/ GoTo("ERROR", m_indexPos + 1)
    BY <1>4 DEF BeginCheck
  <2>3. m_type' \in Byte /\ m_dataSize' \in Nat /\ m_dataBegin' \in Nat
    BY <1>2, <1>4 DEF BeginCheck
  <2>. HIDE DEF n
  <2>4. TypeOK' /\ sent' \subseteq [at : Nat, type : {type_video}, data : Payloads]
    BY <1>1, <2>1, <2>2, <2>3, GoToTypes
  <2>5. \/ m_state' = "ERROR"
        \/ m_state' = "TYPE" /\ m_indexPos' = m_indexPos + n
    BY <2>2 DEF GoTo
  <2>. QED
    BY <2>4, <2>5, Numbers, Constants DEF ParserTypes, n
<1>5. CASE Type
  <2>1. m_state = "TYPE" /\ m_indexPos + 1 <= size /\ m_indexPos + 1 \in Nat /\ m_indexPos >= Len(begin_packet)
    BY <1>5, WantedValues, Numbers DEF Type, Case, ParserTypes
  <2>2. m_type' \in Byte /\ m_dataSize' \in Nat /\ m_dataBegin' \in Nat
    <3>1. 1 \in Nat /\ 1 <= 1
      OBVIOUS
    <3>. QED
      BY <1>2, <1>5, <2>1, <3>1, Ahead DEF Type
  <2>3. \/ GoTo("ERROR", m_indexPos)
        \/ GoTo("SIZE", m_indexPos + 1) /\ m_type' # 0 /\ m_type' < type_end
    BY <1>5, <2>2, ParserAssumption DEF Type, Byte
  <2>4. TypeOK' /\ sent' \subseteq [at : Nat, type : {type_video}, data : Payloads]
    BY <1>1, <2>1, <2>2, <2>3, Numbers, GoToTypes
  <2>5. \/ m_state' = "ERROR"
        \/ m_state' = "SIZE" /\ m_indexPos' = m_indexPos + 1 /\ m_type' # 0 /\ m_type' < type_end
    BY <2>3 DEF GoTo
  <2>6. m_type' # 0 /\ m_type' < type_end => m_type' \in 1 .. type_end - 1
    BY <2>2, ParserAssumption DEF Byte
  <2>7. m_state' = "SIZE" => m_type' \in 1 .. type_end - 1 /\ m_indexPos' >= Len(begin_packet) + 1
    BY <2>1, <2>5, <2>6, Numbers, Constants
  <2>8. m_state' \in {"ERROR", "SIZE"}
    BY <2>5
  <2>. QED
    BY <2>4, <2>7, <2>8 DEF ParserTypes
<1>6. CASE Size
  <2>1. m_state = "SIZE" /\ m_indexPos + 4 <= size /\ m_indexPos + 4 \in Nat /\ m_indexPos >= Len(begin_packet) + 1
    BY <1>6, WantedValues, Numbers DEF Size, Case, ParserTypes
  <2>2. m_dataSize' \in Nat /\ m_type' \in Byte /\ m_type' = m_type
    BY <1>2, <1>6, <2>1, GetUintType DEF Size
  <2>3. \/ GoTo("ERROR", m_indexPos) /\ m_dataBegin' = m_dataBegin
        \/ GoTo("DATA", m_indexPos + 4) /\ m_dataBegin' = m_indexPos + 4
    BY <1>6 DEF Size, GoTo
  <2>4. TypeOK' /\ sent' \subseteq [at : Nat, type : {type_video}, data : Payloads]
    BY <1>1, <1>2, <2>1, <2>2, <2>3, Numbers, GoToTypes
  <2>5. \/ m_state' = "ERROR"
        \/ m_state' = "DATA" /\ m_indexPos' = m_indexPos + 4 /\ m_dataBegin' = m_indexPos + 4
    BY <2>3 DEF GoTo
  <2>6. m_type \in 1 .. type_end - 1
    BY <2>1 DEF ParserTypes
  <2>7. m_state' = "DATA" => m_indexPos' = m_dataBegin' /\ m_dataBegin' >= Len(begin_packet) + 5
    BY <2>1, <2>5, Numbers, Constants
  <2>8. m_state' \in {"ERROR", "DATA"} /\ m_type' \in 1 .. type_end - 1
    BY <2>2, <2>5, <2>6
  <2>. QED
    BY <2>4, <2>7, <2>8 DEF ParserTypes
<1>7. CASE Data
  <2>. DEFINE at == m_indexPos + m_dataSize
  <2>1. m_state = "DATA" /\ at <= size /\ at \in Nat
    BY <1>7, WantedValues, Numbers DEF Data, Case
  <2>2. /\ GoTo("END_CHECK", at) /\ m_type' = m_type /\ m_dataSize' = m_dataSize
        /\ m_dataBegin' = m_dataBegin
    BY <1>7 DEF Data
  <2>3. m_indexPos = m_dataBegin /\ m_dataBegin >= Len(begin_packet) + 5 /\ m_type \in 1 .. type_end - 1
    BY <2>1 DEF ParserTypes
  <2>4. at = m_dataBegin + m_dataSize
    BY <2>3
  <2>. HIDE DEF at
  <2>5. TypeOK' /\ sent' \subseteq [at : Nat, type : {type_video}, data : Payloads] /\ m_state' = "END_CHECK" /\ m_indexPos' = at
    BY <1>1, <1>2, <2>1, <2>2, GoToTypes
  <2>. QED
    BY <2>2, <2>3, <2>4, <2>5 DEF ParserTypes
<1>8. CASE EndCheck
  <2>1. m_state = "END_CHECK"
    BY <1>8 DEF EndCheck, Case
  <2>2. CASE delivered' = Append(delivered, Packet) /\ StartAgain
    <3>1. /\ delivered' \in Seq([at : Nat, type : 1 .. type_end - 1, data : Seq(Byte)])
          /\ Len(delivered') >= Len(delivered)
      <4>. DEFINE R == [at : Nat, type : 1 .. type_end - 1, data : Seq(Byte)]
      <4>1. delivered \in Seq(R) /\ Packet \in R
        BY <2>1, PacketFacts DEF ParserTypes, TypeOK
      <4>. HIDE DEF R
      <4>2. delivered' \in Seq(R) /\ Len(delivered') = Len(delivered) + 1
        BY <2>2, <4>1
      <4>. QED
        BY <4>2, DeliveredLen DEF R
    <3>. QED
      BY <1>1, <2>2, <3>1, StartAgainTypes
  <2>3. CASE GoTo("ERROR", LookAgainAt) /\ UNCHANGED packetVars
    <3>1. LookAgainAt \in Nat /\ LookAgainAt <= size
      BY <2>1, Numbers DEF ParserTypes, LookAgainAt
    <3>2. TypeOK' /\ m_state' = "ERROR" /\ sent' \subseteq [at : Nat, type : {type_video}, data : Payloads]
      BY <1>1, <1>2, <2>3, <3>1, GoToTypes
    <3>. QED
      BY <3>2 DEF ParserTypes
  <2>. QED
    BY <1>8, <2>2, <2>3 DEF EndCheck
<1>9. CASE Error
  <2>1. delivered' = delivered /\ StartAgain
    BY <1>9 DEF Error
  <2>2. delivered \in Seq([at : Nat, type : 1 .. type_end - 1, data : Seq(Byte)])
    BY DEF ParserTypes, TypeOK
  <2>3. Len(delivered') >= Len(delivered)
    BY <2>1, DeliveredLen
  <2>. QED
    BY <1>1, <2>1, <2>2, <2>3, StartAgainTypes
<1>10. CASE WaitForBytes
  <2>1. size' = size
    BY <1>10 DEF WaitForBytes, size
  <2>. QED
    BY <1>1, <1>10, <2>1 DEF WaitForBytes, peerVars, ParserTypes, TypeOK
<1>. QED
  BY <1>3, <1>4, <1>5, <1>6, <1>7, <1>8, <1>9, <1>10 DEF parsePacket

LEMMA StutterTypes ==
    ASSUME ParserTypes, UNCHANGED vars
    PROVE  ParserTypes'
<1>1. size' = size
  BY DEF vars, size
<1>. QED
  BY <1>1 DEF vars, peerVars, packetVars, ParserTypes, TypeOK

LEMMA NextTypes ==
    ASSUME ParserTypes, [Next]_vars
    PROVE  ParserTypes'
<1>1. CASE Peer
  BY <1>1, WriteTypes, ReadTypes, ReconnectTypes DEF Peer
<1>2. CASE parsePacket
  BY <1>2, CaseTypes
<1>3. CASE UNCHANGED vars
  BY <1>3, StutterTypes
<1>. QED
  BY <1>1, <1>2, <1>3 DEF Next

(* The types of the parser, its peer and their stream, for any payloads and markers: it *)
(* never stands behind the bytes it has, nor hands out bytes it has not.                 *)
THEOREM ParserTypeOK == Spec => []TypeOK
<1>1. Init => ParserTypes
  BY InitTypes
<1>2. ParserTypes /\ [Next]_vars => ParserTypes'
  BY NextTypes
<1>3. ParserTypes => TypeOK
  BY DEF ParserTypes
<1>. QED
  BY <1>1, <1>2, <1>3, PTL DEF Spec

-----------------------------------------------------------------------------
(* The order *)

LEMMA Lengths ==
    /\ HeaderLen \in Nat /\ HeaderLen >= 5 /\ HeaderLen <= Len(begin_packet) + 5
    /\ Len(Marker(end_packet)) \in Nat /\ Len(Marker(end_packet)) <= Len(end_packet)
    /\ ~Documented => /\ HeaderLen = Len(begin_packet) + 5
                      /\ Marker(begin_packet) = begin_packet /\ Marker(end_packet) = end_packet
  BY Constants, MarkerFacts DEF HeaderLen

(* The peer and the connection leave the parser where it is, and the stream in front of it. *)
LEMMA PeerKeeps ==
    ASSUME ParserTypes, Peer
    PROVE  /\ gone' = gone /\ here' = here /\ size' \in Nat /\ size' >= size
           /\ m_indexPos' = m_indexPos /\ m_state' = m_state /\ delivered' = delivered
           /\ m_dataBegin' = m_dataBegin /\ m_dataSize' = m_dataSize /\ m_type' = m_type
<1>1. /\ m_indexPos' = m_indexPos /\ m_state' = m_state /\ delivered' = delivered
      /\ m_dataBegin' = m_dataBegin /\ m_dataSize' = m_dataSize /\ m_type' = m_type
  BY DEF Peer, packetVars
<1>2. CASE \E data \in Payloads : writeNextPacket(data)
  <2>1. size' = size /\ arrived' = arrived
    BY <1>2 DEF writeNextPacket, size
  <2>. QED
    BY <1>1, <2>1, Numbers DEF gone, here
<1>3. CASE \E n \in 1 .. Len(wire) : onReadyRead(n)
  <2>1. PICK n \in 1 .. Len(wire) : onReadyRead(n)
    BY <1>3
  <2>2. n \in Nat /\ 1 <= n /\ n <= Len(wire) /\ 1 <= 1 /\ 1 \in Nat /\ 1 <= n + 1 /\ n - 1 + 1 = n
    BY Numbers
  <2>3. SubSeq(wire, 1, n) \in Seq(Byte) /\ Len(SubSeq(wire, 1, n)) = n
    BY <2>2, Numbers, Slice
  <2>4. size' = size + n /\ arrived' = arrived + n
    BY <2>1, <2>3, Numbers, ConcatProperties DEF onReadyRead, size
  <2>. QED
    BY <1>1, <2>2, <2>4, Numbers DEF gone, here
<1>4. CASE Reconnect
  <2>1. size' = size /\ arrived' = arrived
    BY <1>4 DEF Reconnect, size
  <2>. QED
    BY <1>1, <2>1, Numbers DEF gone, here
<1>. QED
  BY <1>2, <1>3, <1>4 DEF Peer

(* A case of the switch leaves the buffer alone, or starts again with what is left of it. *)
LEMMA CaseKeeps ==
    ASSUME ParserTypes, parsePacket
    PROVE  /\ UNCHANGED peerVars
           /\ \/ /\ size' = size /\ gone' = gone /\ m_buffer' = m_buffer /\ delivered' = delivered
              \/ /\ StartAgain /\ size' = size - m_indexPos /\ gone' = here /\ here' = here
                 /\ \/ delivered' = delivered /\ Error
                    \/ delivered' = Append(delivered, Packet) /\ EndCheck /\ m_state = "END_CHECK"
<1>1. UNCHANGED peerVars
  BY DEF parsePacket
<1>2. CASE UNCHANGED <<m_buffer, delivered>>
  <2>1. size' = size /\ gone' = gone
    BY <1>1, <1>2 DEF size, gone, peerVars
  <2>. QED
    BY <1>1, <1>2, <2>1
<1>3. CASE StartAgain
  <2>1. size' = size - m_indexPos /\ arrived' = arrived /\ m_indexPos' = 0
    BY <1>1, <1>3, RemoveFacts DEF StartAgain, peerVars
  <2>2. gone' = here /\ here' = here
    BY <2>1, Numbers DEF gone, here
  <2>3. m_state' = "BEGIN"
    BY <1>3 DEF StartAgain
  <2>4. CASE EndCheck
    <3>1. m_state = "END_CHECK"
      BY <2>4 DEF EndCheck, Case
    <3>2. delivered' = Append(delivered, Packet)
      BY <2>3, <2>4 DEF EndCheck, GoTo
    <3>. QED
      BY <1>1, <1>3, <2>1, <2>2, <2>4, <3>1, <3>2
  <2>5. CASE Error
    BY <1>1, <1>3, <2>1, <2>2, <2>5 DEF Error
  <2>6. CASE Begin \/ BeginCheck \/ Type \/ Size \/ Data \/ WaitForBytes
    BY <1>2, <2>6 DEF Begin, BeginCheck, Type, Size, Data, WaitForBytes, GoTo
  <2>. QED
    BY <2>4, <2>5, <2>6 DEF parsePacket
<1>. QED
  BY <1>2, <1>3 DEF parsePacket, Begin, BeginCheck, Type, Size, Data, EndCheck, Error, WaitForBytes, GoTo

LEMMA DeliveredTypes ==
    ASSUME ParserTypes, NEW i \in DOMAIN delivered
    PROVE  /\ delivered[i].at \in Nat /\ Len(delivered[i].data) \in Nat
           /\ delivered[i].at + Len(delivered[i].data) \in Nat
<1>. DEFINE R == [at : Nat, type : 1 .. type_end - 1, data : Seq(Byte)]
<1>1. delivered \in Seq(R)
  BY DEF ParserTypes, TypeOK
<1>2. delivered[i] \in R
  <2>. HIDE DEF R
  <2>. QED
    BY <1>1, LenProperties, ElementOfSeq
<1>3. delivered[i].at \in Nat /\ delivered[i].data \in Seq(Byte)
  BY <1>2
<1>4. Len(delivered[i].data) \in Nat
  BY <1>3, LenProperties
<1>. QED
  BY <1>3, <1>4

LEMMA NextOrder ==
    ASSUME ParserTypes, OrderInv, [Next]_vars
    PROVE  OrderInv'
<1>1. CASE delivered' = delivered /\ gone' \in Nat /\ gone' >= gone
  <2>1. \A i \in DOMAIN delivered : delivered[i].at + Len(delivered[i].data) \in Nat
    BY DeliveredTypes
  <2>. QED
    BY <1>1, <2>1, Numbers DEF OrderInv, InOrder, First
<1>2. CASE parsePacket /\ m_state = "END_CHECK" /\ delivered' = Append(delivered, Packet) /\ gone' = here
  <2>. DEFINE R == [at : Nat, type : 1 .. type_end - 1, data : Seq(Byte)]
  <2>1. delivered \in Seq(R) /\ Packet \in R
    BY <1>2, PacketFacts DEF ParserTypes, TypeOK
  <2>2. /\ DOMAIN delivered' = 1 .. Len(delivered) + 1 /\ Len(delivered) \in Nat
        /\ DOMAIN delivered = 1 .. Len(delivered)
        /\ \A i \in 1 .. Len(delivered) : delivered'[i] = delivered[i]
        /\ delivered'[Len(delivered) + 1] = Packet
    <3>. HIDE DEF R
    <3>. QED
      BY <1>2, <2>1
  <2>3. /\ Packet.at + Len(Packet.data) = gone' /\ First(Packet) >= gone /\ gone' >= gone
        /\ First(Packet) \in Int /\ gone' \in Nat
    <3>1. m_dataBegin >= HeaderLen /\ m_indexPos = m_dataBegin + m_dataSize
      BY <1>2, Numbers, Lengths, Constants DEF ParserTypes
    <3>2. Packet.at = gone + m_dataBegin /\ Len(Packet.data) = m_dataSize
      BY <1>2, PacketFacts
    <3>3. First(Packet) = Packet.at - HeaderLen
      BY DEF First
    <3>4. gone' = gone + m_dataBegin + m_dataSize
      BY <1>2, <3>1, Counts DEF here
    <3>5. HeaderLen \in Nat
      BY Lengths, Constants
    <3>. QED
      BY <3>1, <3>2, <3>3, <3>4, <3>5, Counts, SMTT(20)
  <2>4. \A i \in DOMAIN delivered : delivered[i].at + Len(delivered[i].data) \in Nat
    BY DeliveredTypes
  <2>5. \A i \in 1 .. Len(delivered) : /\ delivered[i].at + Len(delivered[i].data) <= gone
                                       /\ delivered[i].at + Len(delivered[i].data) \in Nat
    BY <2>2, <2>4 DEF OrderInv
  <2>6. ASSUME NEW i \in DOMAIN delivered' PROVE delivered'[i].at + Len(delivered'[i].data) <= gone'
    <3>1. CASE i \in 1 .. Len(delivered)
      BY <2>2, <2>3, <2>5, <3>1, Counts, SMTT(20)
    <3>2. CASE i = Len(delivered) + 1
      BY <2>2, <2>3, <3>2, Counts
    <3>. QED
      BY <2>2, <3>1, <3>2
  <2>7. ASSUME NEW i \in DOMAIN delivered', NEW j \in DOMAIN delivered', i < j
        PROVE  delivered'[i].at + Len(delivered'[i].data) <= First(delivered'[j])
    <3>1. CASE j \in 1 .. Len(delivered)
      <4>1. i \in 1 .. Len(delivered)
        BY <2>2, <2>7, <3>1
      <4>. QED
        BY <2>2, <2>7, <3>1, <4>1 DEF OrderInv, InOrder
    <3>2. CASE j = Len(delivered) + 1
      <4>1. i \in 1 .. Len(delivered)
        BY <2>2, <2>7, <3>2
      <4>. QED
        BY <2>2, <2>3, <2>5, <3>2, <4>1, Counts, SMTT(20)
    <3>. QED
      BY <2>2, <3>1, <3>2
  <2>8. ASSUME NEW d PROVE First(d)' = First(d)
    BY DEF First, HeaderLen, Marker, UpToNul
  <2>. QED
    BY <2>6, <2>7 DEF OrderInv, InOrder, First
<1>3. CASE Peer
  BY <1>1, <1>3, PeerKeeps, Numbers
<1>4. CASE parsePacket
  <2>1. here \in Nat /\ here >= gone
    BY Numbers DEF here
  <2>. QED
    BY <1>1, <1>2, <1>4, <2>1, CaseKeeps, Numbers
<1>5. CASE UNCHANGED vars
  <2>1. gone' = gone /\ delivered' = delivered
    BY <1>5 DEF vars, peerVars, gone, size
  <2>. QED
    BY <1>1, <2>1, Numbers
<1>. QED
  BY <1>3, <1>4, <1>5 DEF Next

(* No byte is delivered twice, and the packets come in the order of the stream, whatever *)
(* the payloads hold, however the reads cut it and wherever connections break.           *)
THEOREM ParserInOrder == Spec => []InOrder
<1>1. Init => ParserTypes /\ OrderInv
  <2>1. Init => DOMAIN delivered = {}
    BY DEF Init
  <2>. QED
    BY <2>1, InitTypes DEF OrderInv, InOrder
<1>2. ParserTypes /\ OrderInv /\ [Next]_vars => (ParserTypes /\ OrderInv)'
  BY NextTypes, NextOrder
<1>3. OrderInv => InOrder
  BY DEF OrderInv
<1>. QED
  BY <1>1, <1>2, <1>3, PTL DEF Spec

-----------------------------------------------------------------------------
(* The bytes of the stream *)

LEMMA SentTypes ==
    ASSUME ParserTypes, NEW p \in sent
    PROVE  /\ p.at \in Nat /\ p.type = type_video /\ p.data \in Payloads
           /\ p = [at |-> p.at, type |-> p.type, data |-> p.data]
           /\ PacketLen(p.data) \in Nat /\ PacketLen(p.data) >= 5
           /\ Ends(p) \in Nat /\ Ends(p) = p.at + PacketLen(p.data)
<1>1. p \in [at : Nat, type : {type_video}, data : Payloads]
  BY DEF ParserTypes
<1>2. p.data \in Payloads /\ p.at \in Nat
  BY <1>1
<1>3. PacketLen(p.data) \in Nat /\ PacketLen(p.data) >= 5
  BY <1>2, FormatFacts
<1>. QED
  BY <1>1, <1>2, <1>3 DEF Ends

LEMMA StreamKept ==
    ASSUME ParserTypes, Tiled, Carried, sent' = sent, total' = total, gone' \in Nat, gone' >= gone,
           \A n \in Nat : gone' < n /\ n <= total => Stream(n)' = Stream(n)
    PROVE  Tiled' /\ Carried'
<1>1. Tiled'
  BY DEF Tiled, Ends
<1>2. ASSUME NEW p \in sent, NEW k \in 1 .. PacketLen(p.data), p.at + k > gone'
      PROVE  Stream(p.at + k)' = Format(p.data)[k]
  <2>. DEFINE n == p.at + k
  <2>1. k \in Nat /\ n \in Nat /\ gone' < n /\ n > gone /\ n <= Ends(p)
    BY <1>2, SentTypes, Numbers
  <2>2. n <= total
    BY <2>1, SentTypes, Numbers DEF Tiled
  <2>3. Stream(n) = Format(p.data)[k]
    BY <1>2, <2>1 DEF Carried
  <2>. HIDE DEF n
  <2>4. Stream(n)' = Stream(n)
    BY <2>1, <2>2
  <2>. QED
    BY <2>3, <2>4 DEF n
<1>3. Carried'
  BY <1>2 DEF Carried
<1>. QED
  BY <1>1, <1>3

LEMMA WriteStream ==
    ASSUME ParserTypes, Tiled, Carried, NEW data \in Payloads, writeNextPacket(data)
    PROVE  Tiled' /\ Carried'
<1>. DEFINE new == [at |-> total, type |-> type_video, data |-> data]
<1>1. sent' = sent \cup {new} /\ arrived' = arrived /\ m_buffer' = m_buffer /\ wire' = wire \o Format(data)
  BY DEF writeNextPacket, total
<1>2. PacketLen(data) \in Nat /\ PacketLen(data) >= 5 /\ Format(data) \in Seq(Byte) /\ Len(Format(data)) = PacketLen(data)
  BY FormatFacts DEF PacketLen
<1>3. /\ Len(wire') = Len(wire) + PacketLen(data)
      /\ \A i \in 1 .. Len(wire) + PacketLen(data) :
             wire'[i] = IF i <= Len(wire) THEN wire[i] ELSE Format(data)[i - Len(wire)]
  BY <1>1, <1>2, Numbers, ConcatProperties
<1>4. total' = total + PacketLen(data) /\ gone' = gone
  BY <1>1, <1>2, <1>3, Numbers DEF total, gone, size
<1>5. new.at = total /\ Ends(new) = total' /\ new.data = data
  BY <1>4 DEF Ends
<1>6. Tiled'
  <2>1. ASSUME NEW p \in sent' PROVE Ends(p) <= total'
    BY <1>1, <1>2, <1>4, <1>5, <2>1, Numbers, SentTypes DEF Tiled
  <2>2. ASSUME NEW p \in sent' PROVE Ends(p) = total' \/ \E q \in sent' : q.at = Ends(p)
    BY <1>1, <1>5 DEF Tiled
  <2>3. ASSUME NEW p \in sent', NEW q \in sent', p # q PROVE Ends(p) <= q.at \/ Ends(q) <= p.at
    BY <1>1, <1>5, <2>3 DEF Tiled
  <2>4. total' > 0 => \E p \in sent' : p.at = 0
    <3>1. CASE total > 0
      BY <1>1, <3>1 DEF Tiled
    <3>2. CASE total = 0
      BY <1>1, <1>5, <3>2
    <3>. QED
      BY <3>1, <3>2, Numbers
  <2>5. \A p : Ends(p)' = Ends(p)
    BY DEF Ends
  <2>. QED
    BY <2>1, <2>2, <2>3, <2>4 DEF Tiled, Ends
<1>7. ASSUME NEW n \in Nat, gone < n, n <= total PROVE Stream(n)' = Stream(n)
  <2>1. CASE n <= arrived
    BY <1>1, <1>4, <2>1 DEF Stream
  <2>2. CASE n > arrived
    <3>. DEFINE i == n - arrived
    <3>1. i \in 1 .. Len(wire) + PacketLen(data) /\ i <= Len(wire)
      BY <1>2, <1>7, <2>2, Numbers DEF total
    <3>2. ~(n <= arrived)
      BY <2>2, Numbers
    <3>. HIDE DEF i
    <3>3. wire'[i] = wire[i]
      BY <1>3, <3>1
    <3>. QED
      BY <1>1, <3>2, <3>3 DEF Stream, i
  <2>. QED
    BY <2>1, <2>2, Numbers
<1>8. ASSUME NEW p \in sent', NEW k \in 1 .. PacketLen(p.data), p.at + k > gone'
      PROVE  Stream(p.at + k)' = Format(p.data)[k]
  <2>. DEFINE n == p.at + k
  <2>1. CASE p \in sent
    <3>1. k \in Nat /\ n \in Nat /\ gone < n /\ n > gone /\ n <= Ends(p)
      BY <1>4, <1>8, <2>1, SentTypes, Numbers
    <3>2. n <= total
      BY <2>1, <3>1, SentTypes, Numbers DEF Tiled
    <3>3. Stream(n) = Format(p.data)[k]
      BY <1>8, <2>1, <3>1 DEF Carried
    <3>. HIDE DEF n
    <3>4. Stream(n)' = Stream(n)
      BY <1>7, <3>1, <3>2
    <3>. QED
      BY <3>3, <3>4 DEF n
  <2>2. CASE p = new
    <3>. DEFINE i == n - arrived
    <3>1. p.at = total /\ p.data = data
      BY <1>5, <2>2
    <3>2. k \in 1 .. PacketLen(data) /\ k \in Nat
      BY <1>2, <1>8, <3>1
    <3>3. /\ i \in 1 .. Len(wire) + PacketLen(data) /\ ~(i <= Len(wire)) /\ i - Len(wire) = k
          /\ ~(n <= arrived)
      <4>1. n = (arrived + Len(wire)) + k
        BY <3>1 DEF total
      <4>. HIDE DEF n
      <4>2. i = Len(wire) + k
        BY <3>2, <4>1, Counts, SMTT(20)
      <4>3. k >= 1 /\ k <= PacketLen(data)
        BY <1>2, <3>2
      <4>. HIDE DEF i
      <4>. QED
        BY <1>2, <3>2, <4>1, <4>2, <4>3, Counts, SMTT(20)
    <3>. HIDE DEF i, n
    <3>4. wire'[i] = Format(data)[i - Len(wire)]
      BY <1>3, <3>3
    <3>5. Stream(n)' = wire'[i]
      BY <1>1, <3>3 DEF Stream, i
    <3>. QED
      BY <3>1, <3>3, <3>4, <3>5 DEF n
  <2>. QED
    BY <1>1, <2>1, <2>2
<1>. QED
  BY <1>6, <1>8 DEF Carried

LEMMA ReadStream ==
    ASSUME ParserTypes, Tiled, Carried, NEW m \in 1 .. Len(wire), onReadyRead(m)
    PROVE  Tiled' /\ Carried'
<1>. DEFINE s == SubSeq(wire, 1, m)
<1>1. m \in Nat /\ 1 <= m /\ m <= Len(wire) /\ 1 \in Nat /\ 1 <= 1 /\ 1 <= m + 1 /\ m - 1 + 1 = m
  BY Numbers
<1>2. s \in Seq(Byte) /\ Len(s) = m /\ \A i \in 1 .. m : s[i] = wire[1 + i - 1]
  BY <1>1, Numbers, Slice
<1>3. \A i \in 1 .. m : s[i] = wire[i]
  <2>. TAKE i \in 1 .. m
  <2>1. 1 + i - 1 = i
    BY <1>1
  <2>. QED
    BY <1>2, <2>1
<1>4. /\ size' = size + m
      /\ \A i \in 1 .. size + m : m_buffer'[i] = IF i <= size THEN m_buffer[i] ELSE s[i - size]
  <2>. HIDE DEF s
  <2>1. m_buffer' = m_buffer \o s
    BY DEF onReadyRead, s
  <2>. QED
    BY <1>2, <2>1, Numbers, ConcatProperties DEF size
<1>5. /\ Len(wire') = Len(wire) - m
      /\ \A i \in 1 .. Len(wire) - m : wire'[i] = wire[m + i]
  <2>. DEFINE b == m + 1
              e == Len(wire)
  <2>1. /\ b \in Nat /\ e \in Nat /\ 1 <= b /\ b <= e + 1 /\ e <= Len(wire) /\ e - b + 1 = Len(wire) - m
        /\ \A i \in 1 .. Len(wire) - m : b + i - 1 = m + i
    BY <1>1, Numbers
  <2>2. wire' = SubSeq(wire, b, e)
    BY DEF onReadyRead
  <2>. HIDE DEF b, e
  <2>3. /\ Len(wire') = e - b + 1
        /\ \A i \in 1 .. e - b + 1 : wire'[i] = wire[b + i - 1]
    BY <2>1, <2>2, Numbers, Slice
  <2>. QED
    BY <2>1, <2>3
<1>6. arrived' = arrived + m /\ sent' = sent
  BY DEF onReadyRead
<1>7. total' = total /\ gone' = gone
  <2>1. size' = size + m /\ Len(wire') = Len(wire) - m /\ arrived' = arrived + m
    BY <1>4, <1>5, <1>6
  <2>. QED
    BY <1>1, <2>1, Counts, SMTT(20) DEF total, gone
<1>8. ASSUME NEW n \in Nat, gone < n, n <= total PROVE Stream(n)' = Stream(n)
  <2>1. CASE n <= arrived
    <3>. DEFINE i == n - gone
    <3>1. i \in 1 .. size + m /\ i <= size /\ n <= arrived + m
      BY <1>1, <1>8, <2>1, Counts
    <3>. HIDE DEF i
    <3>2. m_buffer'[i] = m_buffer[i]
      BY <1>4, <3>1
    <3>. QED
      BY <1>6, <1>7, <2>1, <3>1, <3>2 DEF Stream, i
  <2>2. CASE n > arrived /\ n <= arrived + m
    <3>. DEFINE i == n - gone
                j == n - arrived
    <3>1. i \in 1 .. size + m /\ ~(i <= size) /\ i - size = j /\ j \in 1 .. m /\ ~(n <= arrived)
      BY <1>1, <1>8, <2>2, Counts, SMTT(20)
    <3>. HIDE DEF i, j, s
    <3>2. m_buffer'[i] = wire[j]
      BY <1>3, <1>4, <3>1
    <3>. QED
      BY <1>6, <1>7, <2>2, <3>1, <3>2 DEF Stream, i, j
  <2>3. CASE n > arrived + m
    <3>. DEFINE i == n - (arrived + m)
                j == n - arrived
    <3>1. i \in 1 .. Len(wire) - m /\ m + i = j /\ ~(n <= arrived) /\ ~(n <= arrived + m)
      BY <1>1, <1>8, <2>3, Numbers DEF total
    <3>. HIDE DEF i, j
    <3>2. wire'[i] = wire[j]
      BY <1>5, <3>1
    <3>. QED
      BY <1>6, <3>1, <3>2 DEF Stream, i, j
  <2>. QED
    BY <1>1, <2>1, <2>2, <2>3, Numbers
<1>. QED
  BY <1>6, <1>7, <1>8, Numbers, StreamKept

LEMMA CaseStream ==
    ASSUME ParserTypes, Tiled, Carried, parsePacket
    PROVE  Tiled' /\ Carried'
<1>1. sent' = sent /\ wire' = wire /\ arrived' = arrived /\ total' = total
  BY CaseKeeps DEF peerVars, total
<1>2. CASE size' = size /\ gone' = gone /\ m_buffer' = m_buffer
  <2>1. \A n \in Nat : Stream(n)' = Stream(n)
    BY <1>1, <1>2 DEF Stream
  <2>. QED
    BY <1>1, <1>2, <2>1, Numbers, StreamKept
<1>3. CASE StartAgain /\ gone' = here
  <2>1. \A k \in 1 .. size - m_indexPos : m_buffer'[k] = m_buffer[m_indexPos + k]
    BY <1>3, RemoveFacts DEF StartAgain
  <2>2. here = gone + m_indexPos /\ here \in Nat /\ here >= gone
    BY Numbers DEF here
  <2>3. ASSUME NEW n \in Nat, gone' < n, n <= total PROVE Stream(n)' = Stream(n)
    <3>1. CASE n <= arrived
      <4>. DEFINE k == n - here
                  i == n - gone
      <4>1. k \in 1 .. size - m_indexPos /\ m_indexPos + k = i
        BY <1>3, <2>2, <2>3, <3>1, Counts
      <4>. HIDE DEF k, i
      <4>2. m_buffer'[k] = m_buffer[i]
        BY <2>1, <4>1
      <4>. QED
        BY <1>1, <1>3, <3>1, <4>2 DEF Stream, k, i
    <3>2. CASE ~(n <= arrived)
      BY <1>1, <3>2 DEF Stream
    <3>. QED
      BY <3>1, <3>2
  <2>. QED
    BY <1>1, <1>3, <2>2, <2>3, StreamKept
<1>. QED
  BY <1>2, <1>3, CaseKeeps

LEMMA NextStream ==
    ASSUME ParserTypes, StreamInv, [Next]_vars
    PROVE  StreamInv'
<1>. SUFFICES ASSUME breaks' = {} PROVE Tiled' /\ Carried'
  BY DEF StreamInv
<1>1. CASE Peer
  <2>1. ~Reconnect
    BY DEF Reconnect
  <2>2. breaks = {}
    BY <1>1, <2>1 DEF Peer, writeNextPacket, onReadyRead
  <2>. QED
    BY <1>1, <2>1, <2>2, WriteStream, ReadStream DEF Peer, StreamInv
<1>2. CASE parsePacket
  <2>1. breaks = {}
    BY <1>2, CaseKeeps DEF peerVars
  <2>. QED
    BY <1>2, <2>1, CaseStream DEF StreamInv
<1>3. CASE UNCHANGED vars
  <2>1. breaks = {} /\ sent' = sent /\ total' = total /\ gone' = gone
    BY <1>3 DEF vars, peerVars, total, gone, size
  <2>2. \A n \in Nat : Stream(n)' = Stream(n)
    BY <1>3 DEF vars, peerVars, Stream, gone, size
  <2>. QED
    BY <2>1, <2>2, Numbers, StreamKept DEF StreamInv
<1>. QED
  BY <1>1, <1>2, <1>3 DEF Next

-----------------------------------------------------------------------------
(* In step with the packets *)

LEMMA BytesHere ==
    ASSUME ParserTypes, Carried, NEW p \in sent, NEW k \in 1 .. PacketLen(p.data),
           NEW j \in Nat, 1 <= j, j <= size, gone + j = p.at + k
    PROVE  m_buffer[j] = Format(p.data)[k]
<1>. DEFINE n == p.at + k
<1>1. n = gone + j /\ n > gone /\ n <= arrived /\ n - gone = j
  <2>1. n = gone + j
    OBVIOUS
  <2>2. gone + size = arrived
    BY Numbers DEF gone
  <2>. HIDE DEF n
  <2>. QED
    BY <2>1, <2>2, Numbers
<1>2. Stream(n) = Format(p.data)[k]
  BY <1>1 DEF Carried
<1>. HIDE DEF n
<1>3. Stream(n) = m_buffer[j]
  BY <1>1 DEF Stream
<1>. QED
  BY <1>2, <1>3

(* A packet of a peer that frames with the literals' bytes and those behind them. *)
LEMMA PacketParts ==
    ASSUME ParserTypes, ~Documented, NEW p \in sent
    PROVE  /\ PacketLen(p.data) = HeaderLen + Len(p.data) + Len(end_packet)
           /\ PacketLen(p.data) \in Nat /\ Len(p.data) \in 0 .. 127 /\ p.data \in Seq(Byte)
           /\ HeaderLen = Len(begin_packet) + 5
           /\ \A k \in 1 .. Len(begin_packet) : Format(p.data)[k] = begin_packet[k]
           /\ Format(p.data)[Len(begin_packet) + 1] = type_video
           /\ \A k \in 1 .. 4 : Format(p.data)[Len(begin_packet) + 1 + k] = Uint(Len(p.data))[k]
           /\ \A k \in 1 .. Len(p.data) : Format(p.data)[HeaderLen + k] = p.data[k]
           /\ \A k \in 1 .. Len(end_packet) :
                  Format(p.data)[HeaderLen + Len(p.data) + k] = end_packet[k]
<1>1. p.data \in Payloads
  BY SentTypes
<1>2. HeaderLen = Len(begin_packet) + 5 /\ Marker(begin_packet) = begin_packet /\ Marker(end_packet) = end_packet
  BY Lengths
<1>3. \A k \in 1 .. Len(begin_packet) + 5 : Format(p.data)[k] = Header(p.data)[k]
  BY <1>1, <1>2, FormatFacts
<1>4. \A k \in 1 .. Len(begin_packet) : Format(p.data)[k] = begin_packet[k]
  BY <1>1, <1>2, <1>3, Constants, HeaderFacts
<1>5. Format(p.data)[Len(begin_packet) + 1] = type_video
  <2>1. Len(begin_packet) \in Nat /\ Len(begin_packet) + 1 \in 1 .. Len(begin_packet) + 5
    BY Constants
  <2>. QED
    BY <1>1, <1>2, <1>3, <2>1, HeaderFacts
<1>6. \A k \in 1 .. 4 : Format(p.data)[Len(begin_packet) + 1 + k] = Uint(Len(p.data))[k]
  <2>. TAKE k \in 1 .. 4
  <2>1. Len(begin_packet) + 1 + k \in 1 .. Len(begin_packet) + 5
    BY Constants
  <2>2. Header(p.data)[Len(begin_packet) + 1 + k] = Uint(Len(p.data))[k]
    BY <1>1, <1>2, HeaderFacts
  <2>. QED
    BY <1>3, <2>1, <2>2
<1>7. PacketLen(p.data) = HeaderLen + Len(p.data) + Len(end_packet) /\ PacketLen(p.data) \in Nat
  BY <1>1, <1>2, FormatFacts DEF PacketLen
<1>8. /\ \A k \in 1 .. Len(p.data) : Format(p.data)[HeaderLen + k] = p.data[k]
      /\ \A k \in 1 .. Len(end_packet) : Format(p.data)[HeaderLen + Len(p.data) + k] = end_packet[k]
  BY <1>1, <1>2, FormatFacts
<1>. QED
  BY <1>1, <1>2, <1>4, <1>5, <1>6, <1>7, <1>8, Constants

Aligned ==
    /\ ParserTypes /\ Tiled /\ Carried /\ Uncut /\ InStep
    /\ CutsAreSplits

(* In M_BEGIN there is a packet at m_indexPos, or the rest of one. *)
LEMMA BeginAt ==
    ASSUME Aligned, m_state = "BEGIN", m_indexPos < size
    PROVE  \/ \E q \in sent : here = q.at /\ \A r \in sent : r.at < q.at => Done(r)
           \/ \E p \in sent : Behind(p) /\ here < Ends(p)
<1>. USE DEF Aligned
<1>1. here \in Nat /\ here < arrived /\ arrived <= total
  BY Numbers DEF here, gone, total
<1>2. CASE here = 0
  <2>1. total > 0
    BY <1>1, <1>2, Numbers
  <2>2. PICK q \in sent : q.at = 0
    BY <2>1 DEF Tiled
  <2>3. \A r \in sent : ~(r.at < q.at)
    BY <2>2, SentTypes
  <2>. QED
    BY <1>2, <2>2, <2>3
<1>3. ASSUME NEW p \in sent, Behind(p), ~(here < Ends(p))
      PROVE  \E q \in sent : here = q.at /\ \A r \in sent : r.at < q.at => Done(r)
  <2>1. here = Ends(p)
    BY <1>1, <1>3, SentTypes DEF Behind
  <2>2. Ends(p) # total
    BY <1>1, <2>1, Numbers
  <2>3. PICK q \in sent : q.at = Ends(p)
    BY <2>2 DEF Tiled
  <2>4. ASSUME NEW r \in sent, r.at < q.at PROVE Done(r)
    <3>1. r = p \/ Ends(p) <= r.at \/ Ends(r) <= p.at
      BY DEF Tiled
    <3>2. r.at <= p.at
      BY <2>3, <2>4, <3>1, SentTypes
    <3>. QED
      BY <1>3, <3>2 DEF Behind
  <2>. QED
    BY <2>1, <2>3, <2>4
<1>4. \A p : ~Within(p)
  BY DEF Within
<1>. QED
  BY <1>2, <1>3, <1>4 DEF InStep

LEMMA CheckBegin ==
    ASSUME Aligned, NEW p \in sent, here = p.at, NEW n \in Nat, n <= Len(begin_packet), m_indexPos + n <= size
    PROVE  \A k \in 1 .. n : m_buffer[m_indexPos + k] = begin_packet[k]
<1>. USE DEF Aligned, Uncut
<1>. TAKE k \in 1 .. n
<1>. DEFINE j == m_indexPos + k
<1>1. k \in 1 .. Len(begin_packet) /\ k \in 1 .. PacketLen(p.data)
  BY PacketParts, Constants
<1>2. j \in Nat /\ 1 <= j /\ j <= size /\ gone + j = p.at + k
  <2>1. gone + m_indexPos = p.at
    BY DEF here
  <2>2. k \in Nat /\ 1 <= k /\ k <= n
    OBVIOUS
  <2>. QED
    BY <2>1, <2>2, Counts, SMTT(20)
<1>. HIDE DEF j
<1>3. m_buffer[j] = Format(p.data)[k]
  BY <1>1, <1>2, BytesHere
<1>4. Format(p.data)[k] = begin_packet[k]
  BY <1>1, PacketParts
<1>. QED
  BY <1>3, <1>4 DEF j

(* What M_BEGIN looks for is nowhere inside a packet whose data cannot mislead it. *)
LEMMA NoOpening ==
    ASSUME Aligned, NEW p \in sent, p.at < here, here < Ends(p) - Len(end_packet), p.at \in splits,
           m_indexPos + 2 < size, \A j \in 1 .. 3 : m_buffer[m_indexPos + j] = begin_packet[j]
    PROVE  FALSE
<1>. USE DEF Aligned, Uncut
<1>. DEFINE k == here - p.at + 1
            e == Len(end_packet)
<1>1. /\ p.at \in Nat /\ PacketLen(p.data) \in Nat /\ Ends(p) = p.at + PacketLen(p.data)
      /\ p.data \in Payloads /\ e \in Nat /\ e >= 2
  BY SentTypes, Constants
<1>2. here = gone + m_indexPos /\ gone \in Nat /\ m_indexPos \in Nat /\ size \in Nat
  BY Numbers DEF here
<1>3. k \in Nat /\ k >= 2 /\ k + 2 <= PacketLen(p.data) /\ gone + m_indexPos + 1 = p.at + k
  <2>. HIDE DEF e, Aligned, Uncut
  <2>. DEFINE a == p.at
              l == PacketLen(p.data)
  <2>1. here < a + l - e /\ a < here /\ a \in Nat /\ l \in Nat /\ here \in Nat
    BY <1>1, <1>2 DEF e
  <2>. HIDE DEF a, l
  <2>2. here - a + 1 \in Nat /\ here - a + 1 >= 2 /\ here - a + 1 + 2 <= l
    BY <1>1, <2>1
  <2>3. here + 1 = a + (here - a + 1)
    BY <2>1
  <2>. QED
    BY <1>2, <2>2, <2>3 DEF a, l
<1>. HIDE DEF k
<1>4. ASSUME NEW j \in 1 .. 3 PROVE Format(p.data)[k + j - 1] = begin_packet[j]
  <2>. DEFINE x == k + j - 1
              m == m_indexPos + j
  <2>1. x \in 1 .. PacketLen(p.data) /\ m \in Nat /\ 1 <= m /\ m <= size /\ gone + m = p.at + x
    BY <1>1, <1>2, <1>3
  <2>. HIDE DEF x, m
  <2>2. m_buffer[m] = Format(p.data)[x]
    BY <2>1, BytesHere
  <2>. QED
    BY <2>2 DEF x, m
<1>5. k \in Openings[p.data]
  <2>1. k \in 1 .. PacketLen(p.data) - 2
    BY <1>1, <1>3
  <2>. QED
    BY <1>1, <1>4, <2>1 DEF Openings
<1>6. Misleading(p)
  BY <1>3, <1>5 DEF Misleading
<1>. QED
  BY <1>6 DEF Steady

(* What M_BEGIN looks for is not in the rest of an end marker. *)
LEMMA NoBegin ==
    ASSUME Aligned, NEW p \in sent, Ends(p) - Len(end_packet) <= here, here < Ends(p), m_indexPos + 2 < size,
           \A j \in 1 .. 3 : m_buffer[m_indexPos + j] = begin_packet[j]
    PROVE  FALSE
<1>. USE DEF Aligned, Uncut
<1>. DEFINE e == Len(end_packet)
            k == here - (Ends(p) - e) + 1
<1>1. e \in Nat /\ e > 0 /\ Ends(p) \in Nat /\ here \in Nat /\ Ends(p) - e <= here
  <2>1. Ends(p) - e <= here /\ Ends(p) \in Nat
    BY SentTypes
  <2>2. here \in Nat
    BY Numbers DEF here
  <2>. QED
    BY <2>1, <2>2, Constants
<1>2. k \in 1 .. e /\ here = Ends(p) - e + k - 1
  BY <1>1
<1>3. PICK j \in 1 .. 3 : (end_packet \o begin_packet)[k + j - 1] # begin_packet[j]
  <2>. HIDE DEF k
  <2>. QED
    BY <1>2, MarkerAssumption
<1>. DEFINE i == k + j - 1
            m == m_indexPos + j
<1>. HIDE DEF k
<1>4. m \in Nat /\ 1 <= m /\ m <= size /\ gone + m = here + j
  <2>1. j \in Nat /\ 1 <= j /\ j <= 3
    OBVIOUS
  <2>2. here = gone + m_indexPos
    BY DEF here
  <2>3. m_indexPos \in Nat /\ gone \in Nat /\ size \in Nat
    BY Numbers
  <2>4. m_indexPos + j \in Nat /\ 1 <= m_indexPos + j /\ m_indexPos + j <= size
    BY <2>1, <2>3
  <2>5. gone + (m_indexPos + j) = (gone + m_indexPos) + j
    BY <2>1, <2>3
  <2>. QED
    BY <2>2, <2>4, <2>5
<1>5. i \in Nat /\ 1 <= i /\ gone + m = Ends(p) - e + i
  BY <1>1, <1>2, <1>4
<1>6. Ends(p) - e = p.at + HeaderLen + Len(p.data) /\ HeaderLen \in Nat /\ Len(p.data) \in Nat
  <2>1. HeaderLen \in Nat /\ Len(p.data) \in Nat /\ PacketLen(p.data) = HeaderLen + Len(p.data) + e
    BY PacketParts, Constants
  <2>2. Ends(p) = p.at + PacketLen(p.data) /\ p.at \in Nat
    BY SentTypes
  <2>. QED
    BY <1>1, <2>1, <2>2
<1>7. \A x \in 1 .. e + Len(begin_packet) :
          (end_packet \o begin_packet)[x] = IF x <= e THEN end_packet[x] ELSE begin_packet[x - e]
  BY Constants, ConcatProperties
<1>8. CASE i <= e
  <2>. DEFINE x == HeaderLen + Len(p.data) + i
  <2>1. x \in 1 .. PacketLen(p.data) /\ gone + m = p.at + x
    <3>1. PacketLen(p.data) = HeaderLen + Len(p.data) + e /\ p.at \in Nat
      BY PacketParts, SentTypes
    <3>2. gone + m = (p.at + HeaderLen + Len(p.data)) + i
      BY <1>5, <1>6
    <3>3. i \in Nat
      BY <1>5
    <3>4. e \in Nat /\ HeaderLen \in Nat /\ Len(p.data) \in Nat /\ 1 <= i
      BY <1>1, <1>5, <1>6
    <3>. HIDE DEF i, m, e
    <3>5. x \in 1 .. PacketLen(p.data)
      <4>1. x \in Nat /\ 1 <= x /\ x <= HeaderLen + Len(p.data) + e
        BY <1>8, <3>3, <3>4
      <4>. HIDE DEF x
      <4>. QED
        BY <3>1, <3>4, <4>1
    <3>6. (p.at + HeaderLen + Len(p.data)) + i = p.at + x
      BY <3>1, <3>3, <3>4
    <3>. QED
      BY <3>2, <3>5, <3>6
  <2>2. Format(p.data)[x] = end_packet[i]
    BY <1>1, <1>5, <1>8, PacketParts
  <2>. HIDE DEF x, m, i
  <2>3. m_buffer[m] = end_packet[i]
    BY <1>4, <2>1, <2>2, BytesHere
  <2>4. (end_packet \o begin_packet)[i] = end_packet[i]
    BY <1>1, <1>5, <1>7, <1>8, Constants
  <2>. QED
    BY <1>3, <2>3, <2>4 DEF m, i
<1>9. CASE i > e
  <2>. DEFINE l == i - e
  <2>1. l \in 1 .. 2 /\ l <= Len(begin_packet) /\ i \in 1 .. e + Len(begin_packet) /\ ~(i <= e) /\ gone + m = Ends(p) + l
    BY <1>1, <1>2, <1>5, <1>9, Constants, SMTT(20)
  <2>2. Ends(p) # total
    <3>1. gone + size = arrived /\ arrived <= total
      BY Counts
    <3>2. l \in Nat /\ l >= 1
      BY <2>1
    <3>3. gone + m = Ends(p) + l /\ m <= size /\ m \in Nat
      BY <1>4, <2>1
    <3>4. gone \in Nat /\ size \in Nat /\ total \in Nat /\ arrived \in Nat
      BY Numbers
    <3>. HIDE DEF l, m
    <3>5. Ends(p) < total
      BY <1>1, <3>1, <3>2, <3>3, <3>4
    <3>. QED
      BY <1>1, <3>4, <3>5
  <2>3. PICK q \in sent : q.at = Ends(p)
    BY <2>2 DEF Tiled
  <2>4. l \in 1 .. PacketLen(q.data) /\ l \in 1 .. Len(begin_packet)
    <3>1. PacketLen(q.data) \in Nat /\ PacketLen(q.data) >= 5
      BY SentTypes
    <3>. HIDE DEF l
    <3>. QED
      BY <2>1, <3>1, Constants
  <2>. HIDE DEF l, m, i
  <2>5. m_buffer[m] = Format(q.data)[l]
    BY <1>4, <2>1, <2>3, <2>4, BytesHere
  <2>6. Format(q.data)[l] = begin_packet[l]
    BY <2>4, PacketParts
  <2>7. (end_packet \o begin_packet)[i] = begin_packet[l]
    BY <1>7, <2>1 DEF l
  <2>. QED
    BY <1>3, <2>5, <2>6, <2>7 DEF m, i
<1>. QED
  BY <1>1, <1>5, <1>8, <1>9

Before(p) == \A q \in sent : q.at < p.at => Done(q)
InPart(p) ==
    \/ m_state = "BEGIN_CHECK" /\ here = p.at
    \/ m_state = "TYPE" /\ here = p.at + Len(begin_packet)
    \/ m_state = "SIZE" /\ here = p.at + Len(begin_packet) + 1 /\ m_type = p.type
    \/ /\ m_state \in {"DATA", "END_CHECK"} /\ gone + m_dataBegin = p.at + HeaderLen
       /\ m_dataSize = Len(p.data) /\ m_type = p.type

LEMMA WithinParts == \A p : Within(p) <=> Before(p) /\ InPart(p)
  BY DEF Within, Before, InPart

(* The packet that the parser is in, when it is in none of the end markers. *)
LEMMA InPacket ==
    ASSUME InStep, m_state # "BEGIN"
    PROVE  \E p \in sent : Before(p) /\ InPart(p)
  BY WithinParts DEF InStep, Behind

(* A case that leaves the buffer alone moves within the packet. *)
LEMMA MovesWithin ==
    ASSUME NEW p \in sent, Before(p), UNCHANGED peerVars, delivered' = delivered, InPart(p)'
    PROVE  InStep'
<1>1. Before(p)' /\ sent' = sent
  BY DEF Before, Done, Delivered, First, peerVars
<1>2. Within(p)' /\ p \in sent'
  BY <1>1 DEF Within, Before, InPart
<1>. QED
  BY <1>2 DEF InStep

LEMMA GoToKeeps ==
    ASSUME UNCHANGED peerVars, NEW state, NEW at, GoTo(state, at)
    PROVE  /\ sent' = sent /\ delivered' = delivered /\ gone' = gone /\ size' = size
           /\ m_state' = state /\ m_indexPos' = at /\ here' = gone + at
           /\ parsing' = parsing /\ owed' = owed
<1>1. size' = size /\ gone' = gone
  BY DEF GoTo, size, gone, peerVars
<1>. QED
  BY <1>1 DEF GoTo, here, peerVars

LEMMA StepBegin ==
    ASSUME Aligned, UNCHANGED peerVars, Begin
    PROVE  InStep'
<1>1. ParserTypes /\ Tiled /\ Carried /\ Uncut
  BY DEF Aligned
<1>2. m_state = "BEGIN" /\ m_indexPos < size
  BY <1>1, WantedValues, Numbers DEF Begin, Case
<1>3. /\ here = gone + m_indexPos /\ gone \in Nat /\ m_indexPos \in Nat /\ size \in Nat
      /\ gone + size = arrived /\ arrived \in Nat
  BY <1>1, Numbers DEF here, gone
<1>4. ASSUME NEW q \in sent, here = q.at, \A r \in sent : r.at < q.at => Done(r),
             m_indexPos + 2 < size
      PROVE  InStep'
  <2>1. m_indexPos + 3 <= size
    BY <1>3, <1>4
  <2>2. \A k \in 1 .. 3 : m_buffer[m_indexPos + k] = begin_packet[k]
    BY <1>4, <2>1, CheckBegin, Constants
  <2>3. GoTo("BEGIN_CHECK", m_indexPos)
    BY <1>4, <2>2 DEF Begin
  <2>4. InPart(q)' /\ delivered' = delivered
    BY <1>3, <1>4, <2>3, GoToKeeps DEF InPart
  <2>. QED
    BY <1>4, <2>4, MovesWithin DEF Before
<1>moves. ASSUME GoTo("BEGIN", m_indexPos + 1), NEW p \in sent, \A q \in sent : q.at <= p.at => Done(q),
                 Ends(p) - Len(end_packet) <= here \/ (p.at <= here /\ p.at \in splits), here < Ends(p)
          PROVE  InStep'
  <2>1. /\ m_state' = "BEGIN" /\ here' = gone + (m_indexPos + 1) /\ sent' = sent /\ delivered' = delivered
    BY <1>moves, GoToKeeps
  <2>2. /\ Ends(p) \in Nat /\ Len(end_packet) \in Nat /\ p.at \in Nat
    BY <1>1, SentTypes, Constants
  <2>3. here' = here + 1 /\ here \in Nat /\ splits' = splits
    BY <1>3, <2>1 DEF peerVars
  <2>4. here' <= Ends(p) /\ (Ends(p) - Len(end_packet) <= here' \/ (p.at < here' /\ p.at \in splits'))
    BY <1>moves, <2>2, <2>3
  <2>5. \A q \in sent' : q.at <= p.at => Done(q)'
    BY <1>moves, <2>1, <2>3 DEF Done, Delivered, First
  <2>6. Behind(p)'
    BY <2>1, <2>4, <2>5 DEF Behind, Ends
  <2>. QED
    BY <2>1, <2>6 DEF InStep
<1>split. ASSUME NEW q \in sent, here = q.at, \A r \in sent : r.at < q.at => Done(r),
                 ~(m_indexPos + 2 < size)
          PROVE  InStep'
  <2>1. GoTo("BEGIN", m_indexPos + 1)
    BY <1>split DEF Begin
  <2>2. q.at \in splits
    <3>1. arrived - q.at \in 1 .. 2
      BY <1>2, <1>3, <1>split
    <3>. QED
      BY <3>1 DEF Aligned, CutsAreSplits
  <2>3. \A r \in sent : r.at <= q.at => Done(r)
    <3>1. \A r \in sent : r.at \in Nat
      BY <1>1, SentTypes
    <3>. QED
      BY <1>split, <2>2, <3>1 DEF Done
  <2>4. here < Ends(q) /\ q.at <= here
    BY <1>1, <1>split, SentTypes
  <2>. QED
    BY <1>moves, <2>1, <2>2, <2>3, <2>4
<1>5. ASSUME NEW p \in sent, Behind(p), here < Ends(p) PROVE InStep'
  <2>1. ~(m_indexPos + 2 < size /\ \A k \in 1 .. 3 : m_buffer[m_indexPos + k] = begin_packet[k])
    <3>1. CASE Ends(p) - Len(end_packet) <= here
      BY <1>5, <3>1, NoBegin
    <3>2. CASE ~(Ends(p) - Len(end_packet) <= here)
      <4>1. here < Ends(p) - Len(end_packet)
        BY <1>1, <1>3, <3>2, SentTypes, Constants
      <4>2. p.at < here /\ p.at \in splits
        BY <1>5, <3>2 DEF Behind
      <4>. QED
        BY <4>1, <4>2, NoOpening
    <3>. QED
      BY <3>1, <3>2
  <2>2. GoTo("BEGIN", m_indexPos + 1)
    BY <2>1 DEF Begin
  <2>3. Ends(p) - Len(end_packet) <= here \/ (p.at <= here /\ p.at \in splits)
    <3>1. p.at \in Nat /\ here \in Nat
      BY <1>1, <1>3, SentTypes
    <3>. QED
      BY <1>5, <3>1 DEF Behind
  <2>4. \A q \in sent : q.at <= p.at => Done(q)
    BY <1>5 DEF Behind
  <2>. QED
    BY <1>5, <1>moves, <2>2, <2>3, <2>4
<1>. QED
  BY <1>2, <1>4, <1>split, <1>5, BeginAt

LEMMA StepBeginCheck ==
    ASSUME Aligned, UNCHANGED peerVars, BeginCheck
    PROVE  InStep'
<1>1. ParserTypes /\ InStep
  BY DEF Aligned
<1>2. m_state = "BEGIN_CHECK" /\ m_indexPos + Len(begin_packet) <= size
  BY <1>1, WantedValues, Numbers, Constants DEF BeginCheck, Case
<1>3. PICK p \in sent : Before(p) /\ here = p.at
  BY <1>1, <1>2, InPacket DEF InPart
<1>4. \A k \in 1 .. Len(begin_packet) : m_buffer[m_indexPos + k] = begin_packet[k]
  BY <1>2, <1>3, CheckBegin, Constants
<1>5. DOMAIN begin_packet = 1 .. Len(begin_packet)
  BY Constants, LenProperties
<1>6. check_string(begin_packet)
  BY <1>4, <1>5 DEF check_string
<1>7. GoTo("TYPE", m_indexPos + Len(begin_packet))
  BY <1>6 DEF BeginCheck
<1>8. gone + (m_indexPos + Len(begin_packet)) = p.at + Len(begin_packet)
  BY <1>1, <1>3, Numbers, Constants DEF here
<1>9. InPart(p)' /\ delivered' = delivered
  BY <1>7, <1>8, GoToKeeps DEF InPart
<1>. QED
  BY <1>3, <1>9, MovesWithin

LEMMA StepType ==
    ASSUME Aligned, UNCHANGED peerVars, Type
    PROVE  InStep'
<1>1. ParserTypes /\ InStep /\ Carried /\ ~Documented
  BY DEF Aligned, Uncut
<1>2. m_state = "TYPE" /\ m_indexPos + 1 <= size
  BY <1>1, WantedValues, Numbers DEF Type, Case
<1>3. PICK p \in sent : Before(p) /\ here = p.at + Len(begin_packet)
  BY <1>1, <1>2, InPacket DEF InPart
<1>. DEFINE b == Len(begin_packet)
<1>4. b \in Nat /\ p.at \in Nat /\ PacketLen(p.data) \in Nat /\ b + 1 <= PacketLen(p.data)
  BY <1>1, Constants, SentTypes, PacketParts, SMTT(20)
<1>5. m_buffer[m_indexPos + 1] = Format(p.data)[b + 1]
  <2>1. b + 1 \in 1 .. PacketLen(p.data)
    BY <1>4
  <2>2. m_indexPos + 1 \in Nat /\ 1 <= m_indexPos + 1 /\ gone + (m_indexPos + 1) = p.at + (b + 1)
    <3>1. m_indexPos \in Nat /\ gone \in Nat
      BY <1>1, Numbers
    <3>2. gone + m_indexPos = p.at + b
      BY <1>3 DEF here
    <3>. HIDE DEF b
    <3>. QED
      BY <1>4, <3>1, <3>2
  <2>. HIDE DEF b
  <2>. QED
    BY <1>1, <1>2, <2>1, <2>2, BytesHere
<1>6. m_type' = 1 /\ p.type = 1
  BY <1>1, <1>5, PacketParts, SentTypes DEF Type, type_video
<1>7. GoTo("SIZE", m_indexPos + 1)
  BY <1>6, ParserAssumption DEF Type
<1>8. gone + (m_indexPos + 1) = p.at + b + 1
  BY <1>1, <1>3, <1>4, Numbers DEF here
<1>9. InPart(p)' /\ delivered' = delivered
  BY <1>6, <1>7, <1>8, GoToKeeps DEF InPart
<1>. QED
  BY <1>3, <1>9, MovesWithin

(* The buffer is within the limit that M_SIZE compares it with. *)
Roomy == size <= MAX_SIZE

LEMMA StepSize ==
    ASSUME Aligned, Roomy, UNCHANGED peerVars, Size
    PROVE  InStep'
<1>1. ParserTypes /\ InStep /\ Carried /\ ~Documented
  BY DEF Aligned, Uncut
<1>2. m_state = "SIZE" /\ m_indexPos + 4 <= size
  BY <1>1, WantedValues, Numbers DEF Size, Case
<1>. DEFINE b == Len(begin_packet)
<1>3. PICK p \in sent : Before(p) /\ here = p.at + b + 1 /\ m_type = p.type
  BY <1>1, <1>2, InPacket DEF InPart
<1>4. /\ b \in Nat /\ p.at \in Nat /\ PacketLen(p.data) \in Nat /\ b + 5 <= PacketLen(p.data)
      /\ HeaderLen = b + 5 /\ Len(p.data) \in 0 .. 127
  BY <1>1, Constants, SentTypes, PacketParts, SMTT(20)
<1>numbers. m_indexPos \in Nat /\ gone \in Nat /\ size \in Nat /\ gone + m_indexPos = p.at + b + 1
  BY <1>1, <1>3, Numbers DEF here
<1>5. ASSUME NEW k \in 1 .. 4 PROVE m_buffer[m_indexPos + k] = Uint(Len(p.data))[k]
  <2>. DEFINE j == m_indexPos + k
              x == b + 1 + k
  <2>1. x \in 1 .. PacketLen(p.data)
    BY <1>4
  <2>2. j \in Nat /\ 1 <= j /\ j <= size /\ gone + j = p.at + x
    <3>1. k \in Nat /\ 1 <= k /\ k <= 4
      OBVIOUS
    <3>. HIDE DEF b
    <3>. QED
      BY <1>2, <1>4, <1>numbers, <3>1
  <2>3. Format(p.data)[x] = Uint(Len(p.data))[k]
    BY <1>1, PacketParts
  <2>. HIDE DEF j, x
  <2>4. m_buffer[j] = Format(p.data)[x]
    BY <1>1, <2>1, <2>2, BytesHere
  <2>. QED
    BY <2>3, <2>4 DEF j
<1>6. Uint(Len(p.data)) = <<Len(p.data), 0, 0, 0>>
  BY <1>4, UintFacts
<1>7. getUint(m_indexPos) = Len(p.data)
  <2>1. /\ m_buffer[m_indexPos + 1] = Len(p.data) /\ m_buffer[m_indexPos + 2] = 0
        /\ m_buffer[m_indexPos + 3] = 0 /\ m_buffer[m_indexPos + 4] = 0
    BY <1>5, <1>6
  <2>. QED
    BY <1>4, <2>1 DEF getUint
<1>8. GoTo("DATA", m_indexPos + 4) /\ m_dataBegin' = m_indexPos + 4
  <2>1. ~(size > MAX_SIZE)
    BY <1>1, Numbers, ParserAssumption DEF Roomy
  <2>. QED
    BY <2>1 DEF Size, GoTo
<1>9. m_dataSize' = Len(p.data) /\ m_type' = p.type
  BY <1>3, <1>7 DEF Size
<1>10. gone + (m_indexPos + 4) = p.at + HeaderLen
  <2>. HIDE DEF b
  <2>. QED
    BY <1>4, <1>numbers
<1>11. InPart(p)' /\ delivered' = delivered
  <2>1. gone' = gone /\ m_state' = "DATA" /\ delivered' = delivered
    BY <1>8, GoToKeeps
  <2>2. gone' + m_dataBegin' = p.at + HeaderLen
    BY <1>8, <1>10, <2>1
  <2>. QED
    BY <1>9, <2>1, <2>2 DEF InPart
<1>. QED
  BY <1>3, <1>11, MovesWithin

LEMMA StepData ==
    ASSUME Aligned, UNCHANGED peerVars, Data
    PROVE  InStep'
<1>1. m_state = "DATA" /\ InStep
  BY DEF Data, Case, Aligned
<1>2. PICK p \in sent : /\ Before(p) /\ gone + m_dataBegin = p.at + HeaderLen
                        /\ m_dataSize = Len(p.data) /\ m_type = p.type
  BY <1>1, InPacket DEF InPart
<1>3. m_state' = "END_CHECK" /\ gone' = gone /\ UNCHANGED <<delivered, m_type, m_dataSize, m_dataBegin>>
  BY GoToKeeps DEF Data, packetVars
<1>4. InPart(p)'
  BY <1>2, <1>3 DEF InPart
<1>. QED
  BY <1>2, <1>3, <1>4, MovesWithin

LEMMA StepEndCheck ==
    ASSUME Aligned, UNCHANGED peerVars, EndCheck
    PROVE  InStep' /\ delivered' = Append(delivered, Packet) /\ FromSent(Packet) /\ StartAgain
<1>1. ParserTypes /\ InStep /\ Tiled /\ Carried /\ ~Documented
  BY DEF Aligned, Uncut
<1>2. m_state = "END_CHECK" /\ m_indexPos + Len(end_packet) < size
  BY <1>1, WantedValues DEF EndCheck, Case
<1>3. m_indexPos = m_dataBegin + m_dataSize
  BY <1>1, <1>2 DEF ParserTypes
<1>. DEFINE h == HeaderLen
            e == Len(end_packet)
<1>4. PICK p \in sent : /\ Before(p) /\ gone + m_dataBegin = p.at + h
                        /\ m_dataSize = Len(p.data) /\ m_type = p.type
  BY <1>1, <1>2, InPacket DEF InPart
<1>5. /\ h \in Nat /\ h >= 5 /\ e \in Nat /\ e > 0 /\ p.at \in Nat
      /\ Len(p.data) \in Nat /\ p.data \in Seq(Byte)
      /\ PacketLen(p.data) \in Nat /\ PacketLen(p.data) = h + Len(p.data) + e
      /\ Ends(p) = p.at + PacketLen(p.data)
  BY <1>1, Lengths, Constants, SentTypes, PacketParts
<1>6. /\ m_dataBegin \in Nat /\ m_dataSize \in Nat /\ gone \in Nat /\ size \in Nat /\ m_indexPos \in Nat
      /\ here = gone + m_indexPos /\ m_indexPos <= size
  BY <1>1, Numbers DEF here
<1>7. ASSUME NEW k \in 1 .. Len(p.data) + e PROVE m_buffer[m_dataBegin + k] = Format(p.data)[h + k]
  <2>. DEFINE j == m_dataBegin + k
              x == h + k
  <2>. HIDE DEF h, e
  <2>1. k \in Nat /\ 1 <= k /\ k <= Len(p.data) + e
    BY <1>5
  <2>2. x \in 1 .. PacketLen(p.data)
    BY <1>5, <2>1
  <2>3. j \in Nat /\ 1 <= j /\ gone + j = p.at + x
    BY <1>4, <1>5, <1>6, <2>1
  <2>4. j <= size
    BY <1>2, <1>3, <1>4, <1>5, <1>6, <2>1 DEF e
  <2>. HIDE DEF j, x
  <2>5. m_buffer[j] = Format(p.data)[x]
    BY <1>1, <2>2, <2>3, <2>4, BytesHere
  <2>. QED
    BY <2>5 DEF j, x
<1>8. check_string(end_packet)
  <2>1. ASSUME NEW k \in 1 .. e PROVE m_buffer[m_indexPos + k] = end_packet[k]
    <3>. DEFINE i == Len(p.data) + k
    <3>1. i \in 1 .. Len(p.data) + e /\ m_indexPos + k = m_dataBegin + i /\ h + Len(p.data) + k = h + i
      <4>. HIDE DEF h, e
      <4>. QED
        BY <1>3, <1>4, <1>5, <1>6
    <3>2. Format(p.data)[h + Len(p.data) + k] = end_packet[k]
      BY <1>1, PacketParts
    <3>. HIDE DEF i, h, e
    <3>. QED
      BY <1>7, <3>1, <3>2
  <2>2. DOMAIN end_packet = 1 .. e
    BY Constants, LenProperties
  <2>. QED
    BY <2>1, <2>2 DEF check_string
<1>9. delivered' = Append(delivered, Packet) /\ StartAgain
  BY <1>8 DEF EndCheck
<1>10. Packet.at = p.at + h /\ First(Packet) = p.at
  <2>1. Packet.at = p.at + h
    BY <1>1, <1>2, <1>4, PacketFacts
  <2>2. First(Packet) = Packet.at - h
    BY DEF First
  <2>. HIDE DEF h
  <2>. QED
    BY <1>5, <2>1, <2>2
<1>11. Packet.data = p.data /\ Packet.type = p.type
  <2>. DEFINE d == Packet.data
  <2>1. /\ d \in Seq(Byte) /\ Len(d) = Len(p.data) /\ Packet.type = p.type
        /\ \A k \in 1 .. Len(p.data) : d[k] = m_buffer[m_dataBegin + k]
    BY <1>1, <1>2, <1>4, PacketFacts
  <2>2. ASSUME NEW k \in 1 .. Len(p.data) PROVE d[k] = p.data[k]
    <3>1. k \in 1 .. Len(p.data) + e
      <4>. HIDE DEF e
      <4>. QED
        BY <1>5
    <3>2. Format(p.data)[h + k] = p.data[k]
      BY <1>1, PacketParts
    <3>. HIDE DEF d, h, e
    <3>. QED
      BY <1>7, <2>1, <3>1, <3>2
  <2>. HIDE DEF d
  <2>3. d = p.data
    BY <1>5, <2>1, <2>2, SeqEqual
  <2>. QED
    BY <2>1, <2>3 DEF d
<1>12. FromSent(Packet)
  BY <1>1, <1>10, <1>11, SentTypes DEF FromSent
<1>13. sent' = sent /\ here' = here /\ m_state' = "BEGIN"
  <2>1. gone' = here /\ m_indexPos' = 0
    <3>1. size' = size - m_indexPos /\ arrived' = arrived /\ m_indexPos' = 0
      BY <1>1, <1>9, RemoveFacts DEF StartAgain, peerVars
    <3>2. gone = arrived - size /\ gone' = arrived' - size' /\ arrived \in Nat
      BY <1>1, Numbers DEF gone
    <3>. QED
      BY <1>6, <3>1, <3>2
  <2>2. here' = here
    BY <1>6, <2>1 DEF here
  <2>. QED
    BY <1>9, <2>2 DEF StartAgain, peerVars
<1>14. here = Ends(p) - e
  <2>. HIDE DEF h, e
  <2>. DEFINE l == Len(p.data)
              a == p.at
  <2>1. h \in Nat /\ e \in Nat /\ l \in Nat /\ a \in Nat /\ m_dataBegin \in Nat /\ gone \in Nat
    BY <1>5, <1>6
  <2>2. here = gone + (m_dataBegin + l) /\ gone + m_dataBegin = a + h /\ Ends(p) = a + (h + l + e)
    BY <1>3, <1>4, <1>5, <1>6
  <2>. HIDE DEF l, a
  <2>. QED
    BY <2>1, <2>2
<1>15. ASSUME NEW q \in sent, q.at <= p.at PROVE Done(q)'
  <2>1. /\ DOMAIN delivered' = 1 .. Len(delivered) + 1 /\ Len(delivered) \in Nat
        /\ DOMAIN delivered = 1 .. Len(delivered)
        /\ \A i \in 1 .. Len(delivered) : delivered'[i] = delivered[i]
        /\ delivered'[Len(delivered) + 1] = Packet
    <3>. DEFINE R == [at : Nat, type : 1 .. type_end - 1, data : Seq(Byte)]
    <3>1. delivered \in Seq(R) /\ Packet \in R
      BY <1>1, <1>2, PacketFacts DEF ParserTypes, TypeOK
    <3>. HIDE DEF R
    <3>. QED
      BY <1>9, <3>1
  <2>2. CASE q.at < p.at
    <3>1. CASE q.at \in splits
      BY <3>1 DEF Done, peerVars
    <3>2. CASE Delivered(q)
      <4>1. PICK i \in DOMAIN delivered : First(delivered[i]) = q.at
        BY <3>2 DEF Delivered
      <4>2. i \in DOMAIN delivered' /\ delivered'[i] = delivered[i]
        BY <2>1
      <4>. QED
        BY <4>1, <4>2 DEF Done, Delivered, First
    <3>. QED
      BY <1>4, <2>2, <3>1, <3>2 DEF Before, Done
  <2>3. CASE q.at = p.at
    <3>1. Len(delivered) + 1 \in DOMAIN delivered'
      BY <2>1
    <3>. QED
      BY <1>10, <2>1, <2>3, <3>1 DEF Done, Delivered, First
  <2>. QED
    BY <1>1, <1>5, <1>15, <2>2, <2>3, SentTypes
<1>16. Behind(p)'
  <2>1. Ends(p) - e <= here /\ here <= Ends(p)
    <3>. HIDE DEF h, e
    <3>. QED
      BY <1>5, <1>6, <1>14
  <2>2. here' = here /\ m_state' = "BEGIN" /\ \A q \in sent' : q.at <= p.at => Done(q)'
    BY <1>13, <1>15
  <2>3. Ends(p)' = Ends(p)
    BY DEF Ends
  <2>. HIDE DEF h, Ends
  <2>. QED
    BY <2>1, <2>2, <2>3 DEF Behind
<1>. QED
  BY <1>9, <1>12, <1>13, <1>16 DEF InStep

(* A packet that ends where the parser is, or in front of it, is done with. *)
LEMMA PastIsDone ==
    ASSUME ParserTypes, Tiled, NEW c \in sent, NEW p \in sent, NEW n \in Int, Ends(p) <= n
    PROVE  /\ Before(c) /\ n < Ends(c) => Done(p)
           /\ Behind(c) /\ n <= Ends(c) => Done(p)
<1>1. /\ p.at \in Nat /\ c.at \in Nat /\ Ends(p) \in Nat /\ Ends(c) \in Nat
      /\ p.at < Ends(p) /\ c.at < Ends(c)
  BY SentTypes
<1>2. p = c \/ Ends(p) <= c.at \/ Ends(c) <= p.at
  BY DEF Tiled
<1>3. CASE n < Ends(c)
  <2>1. Ends(p) <= c.at
    BY <1>1, <1>2, <1>3
  <2>2. p.at < c.at
    BY <1>1, <2>1
  <2>. QED
    BY <1>1, <2>2 DEF Before, Behind
<1>4. CASE n = Ends(c)
  <2>1. p.at <= c.at
    BY <1>1, <1>2, <1>4
  <2>. QED
    BY <1>1, <1>4, <2>1 DEF Behind
<1>. QED
  BY <1>1, <1>3, <1>4

LEMMA EndsAt ==
    ASSUME ParserTypes, ~Documented, NEW p \in sent
    PROVE  /\ HeaderLen = Len(begin_packet) + 5
           /\ Ends(p) = p.at + (Len(begin_packet) + 5 + Len(p.data) + Len(end_packet))
           /\ p.at \in Nat /\ Len(p.data) \in Nat
           /\ Len(begin_packet) \in Nat /\ Len(end_packet) \in Nat /\ Len(end_packet) > 0
<1>1. /\ HeaderLen = Len(begin_packet) + 5
      /\ PacketLen(p.data) = HeaderLen + Len(p.data) + Len(end_packet)
      /\ Len(p.data) \in Nat
  BY PacketParts
<1>2. Ends(p) = p.at + PacketLen(p.data) /\ p.at \in Nat
  BY SentTypes
<1>3. PacketLen(p.data) = Len(begin_packet) + 5 + Len(p.data) + Len(end_packet)
  BY <1>1
<1>. QED
  BY <1>1, <1>2, <1>3, Constants

LEMMA AlignedPasses ==
    ASSUME Aligned, NEW p \in sent, Ends(p) <= Position
    PROVE  Done(p)
<1>1. ParserTypes /\ Tiled /\ InStep /\ ~Documented
  BY DEF Aligned, Uncut
<1>2. Position = IF m_state \in {"DATA", "END_CHECK"} THEN gone + m_dataBegin ELSE here
  BY DEF Position, gone, here
<1>3. here \in Int /\ gone + m_dataBegin \in Int /\ Position \in Int
  BY <1>1, <1>2, Numbers DEF here
<1>4. CASE m_state = "BEGIN" /\ here = 0
  <2>1. Ends(p) > 0 /\ Position = 0
    BY <1>1, <1>2, <1>4, SentTypes
  <2>. QED
    BY <1>1, <2>1, SentTypes
<1>5. ASSUME NEW c \in sent, Before(c), InPart(c) PROVE Done(p)
  <2>. DEFINE a == c.at
              b == Len(begin_packet)
              l == Len(c.data)
              e == Len(end_packet)
  <2>1. /\ HeaderLen = b + 5 /\ Ends(c) = a + (b + 5 + l + e)
        /\ a \in Nat /\ b \in Nat /\ l \in Nat /\ e \in Nat /\ e > 0
    BY <1>1, EndsAt
  <2>2. Position \in {a, a + b, a + b + 1, a + HeaderLen}
    BY <1>2, <1>5 DEF InPart
  <2>3. Position < Ends(c)
    <3>. HIDE DEF a, b, l, e
    <3>. QED
      BY <2>1, <2>2
  <2>. QED
    BY <1>1, <1>3, <1>5, <2>3, PastIsDone
<1>6. ASSUME NEW c \in sent, Behind(c) PROVE Done(p)
  <2>1. Position <= Ends(c)
    BY <1>2, <1>6 DEF Behind
  <2>. QED
    BY <1>1, <1>3, <1>6, <2>1, PastIsDone
<1>. QED
  BY <1>1, <1>4, <1>5, <1>6, WithinParts DEF InStep

(* A case that waits for bytes is done with the packets that are there. *)
LEMMA AlignedWaits ==
    ASSUME Aligned, m_indexPos + Wanted >= size, NEW p \in sent, Ends(p) < arrived
    PROVE  Done(p)
<1>1. ParserTypes /\ Tiled /\ InStep /\ ~Documented
  BY DEF Aligned, Uncut
<1>2. /\ here = gone + m_indexPos /\ gone + size = arrived /\ here \in Nat /\ arrived \in Nat
      /\ gone \in Nat /\ size \in Nat /\ m_indexPos \in Nat /\ m_dataSize \in Nat /\ m_dataBegin \in Nat
  BY <1>1, Numbers DEF here, gone
<1>3. /\ Ends(p) \in Nat /\ Ends(p) <= arrived - 1 /\ arrived - 1 \in Int
      /\ Len(begin_packet) \in Nat /\ Len(end_packet) \in Nat /\ Len(end_packet) > 0
  BY <1>1, <1>2, SentTypes, Constants, SMTT(20)
<1>4. CASE m_state = "BEGIN"
  <2>1. here >= arrived
    BY <1>2, <1>4, WantedValues
  <2>2. CASE here = 0
    BY <1>2, <1>3, <2>1, <2>2
  <2>3. ASSUME NEW c \in sent, Behind(c) PROVE Done(p)
    <3>1. Ends(c) \in Nat /\ here <= Ends(c)
      BY <1>1, <2>3, SentTypes DEF Behind
    <3>2. arrived - 1 <= Ends(c)
      BY <1>2, <2>1, <3>1
    <3>. QED
      BY <1>1, <1>3, <2>3, <3>2, PastIsDone
  <2>. QED
    BY <1>1, <1>4, <2>2, <2>3 DEF InStep, Within
<1>5. ASSUME NEW c \in sent, Before(c), InPart(c) PROVE Done(p)
  <2>. DEFINE a == c.at
              b == Len(begin_packet)
              l == Len(c.data)
              e == Len(end_packet)
  <2>1. /\ HeaderLen = b + 5 /\ Ends(c) = a + (b + 5 + l + e)
        /\ a \in Nat /\ b \in Nat /\ l \in Nat /\ e \in Nat /\ e > 0
    BY <1>1, EndsAt
  <2>2. \/ here = a /\ Wanted = b
        \/ here = a + b /\ Wanted = 0
        \/ here = a + b + 1 /\ Wanted = 4
        \/ here = a + HeaderLen /\ Wanted = l
        \/ here = a + HeaderLen + l /\ Wanted = e
    <3>1. CASE m_state \in {"BEGIN_CHECK", "TYPE", "SIZE"}
      BY <1>5, <3>1, WantedValues DEF InPart
    <3>2. CASE m_state \in {"DATA", "END_CHECK"}
      <4>1. gone + m_dataBegin = a + HeaderLen /\ m_dataSize = l
        BY <1>5, <3>2 DEF InPart
      <4>2. CASE m_state = "DATA"
        BY <1>1, <1>2, <4>1, <4>2, WantedValues DEF ParserTypes
      <4>3. CASE m_state = "END_CHECK"
        <5>1. m_indexPos = m_dataBegin + m_dataSize /\ Wanted = e
          BY <1>1, <4>3, WantedValues DEF ParserTypes
        <5>. HIDE DEF a, l, e
        <5>2. here = (gone + m_dataBegin) + l
          BY <1>2, <4>1, <5>1
        <5>. QED
          BY <4>1, <5>1, <5>2
      <4>. QED
        BY <3>2, <4>2, <4>3
    <3>. QED
      BY <1>5, <3>1, <3>2 DEF InPart
  <2>3. arrived - 1 < Ends(c)
    <3>. HIDE DEF a, b, l, e
    <3>1. Wanted \in Nat /\ here + Wanted <= Ends(c) /\ Ends(c) \in Nat
      BY <2>1, <2>2
    <3>2. here + Wanted >= arrived
      BY <1>2, <3>1
    <3>. QED
      BY <1>2, <3>1, <3>2
  <2>. QED
    BY <1>1, <1>3, <1>5, <2>3, PastIsDone
<1>6. CASE m_state # "BEGIN"
  BY <1>1, <1>5, <1>6, InPacket
<1>. QED
  BY <1>4, <1>6

LEMMA CaseStep ==
    ASSUME ParserTypes, StreamInv, StepInv, Roomy, parsePacket
    PROVE  StepInv'
<1>. SUFFICES ASSUME Uncut'
              PROVE  InStep' /\ CutsAreSplits' /\ AsSent' /\ Paid'
  BY DEF StepInv
<1>1. UNCHANGED peerVars /\ parsing
  BY DEF parsePacket
<1>2. Uncut /\ sent' = sent /\ arrived' = arrived /\ splits' = splits
  BY <1>1 DEF Uncut, Steady, peerVars
<1>3. Aligned /\ AsSent /\ Paid
  BY <1>2 DEF Aligned, StreamInv, StepInv, Uncut, Steady
<1>4. CutsAreSplits'
  BY <1>2, <1>3 DEF Aligned, CutsAreSplits
<1>keeps. ASSUME delivered' = delivered
          PROVE  AsSent' /\ \A p \in sent : Done(p)' <=> Done(p)
  BY <1>2, <1>3, <1>keeps DEF AsSent, FromSent, First, Done, Delivered
<1>5. CASE Begin \/ BeginCheck \/ Type \/ Size \/ Data
  <2>1. InStep'
    BY <1>1, <1>3, <1>5, StepBegin, StepBeginCheck, StepType, StepSize, StepData
  <2>2. delivered' = delivered /\ parsing' /\ owed' = owed
    BY <1>1, <1>5 DEF Begin, BeginCheck, Type, Size, Data, GoTo
  <2>3. Paid'
    BY <1>2, <1>3, <1>keeps, <2>2 DEF Paid, Due, Done, Delivered, First
  <2>. QED
    BY <1>4, <1>keeps, <2>1, <2>2, <2>3
<1>6. CASE EndCheck
  <2>1. InStep' /\ delivered' = Append(delivered, Packet) /\ FromSent(Packet) /\ owed' = owed
    BY <1>1, <1>3, <1>6, StepEndCheck DEF StartAgain
  <2>2. m_state = "END_CHECK"
    BY <1>6 DEF EndCheck, Case
  <2>3. /\ DOMAIN delivered' = 1 .. Len(delivered) + 1 /\ Len(delivered) \in Nat
        /\ Len(delivered') = Len(delivered) + 1
        /\ DOMAIN delivered = 1 .. Len(delivered)
        /\ \A i \in 1 .. Len(delivered) : delivered'[i] = delivered[i]
        /\ delivered'[Len(delivered) + 1] = Packet
    <3>. DEFINE R == [at : Nat, type : 1 .. type_end - 1, data : Seq(Byte)]
    <3>1. delivered \in Seq(R) /\ Packet \in R
      BY <2>2, PacketFacts DEF ParserTypes, TypeOK
    <3>. HIDE DEF R
    <3>. QED
      BY <2>1, <3>1
  <2>4. ASSUME NEW i \in DOMAIN delivered' PROVE FromSent(delivered[i])'
    <3>1. CASE i \in 1 .. Len(delivered)
      BY <1>2, <1>3, <2>3, <3>1 DEF AsSent, FromSent, First
    <3>2. CASE i = Len(delivered) + 1
      BY <1>2, <2>1, <2>3, <3>2 DEF FromSent, First
    <3>. QED
      BY <2>3, <3>1, <3>2
  <2>5. Paid'
    BY <2>1, <2>3, DeliveredLen DEF Paid
  <2>. QED
    BY <1>4, <2>1, <2>4, <2>5 DEF AsSent
<1>7. CASE Error
  <2>1. m_state = "ERROR"
    BY <1>7 DEF Error, Case
  <2>2. PICK p \in sent : InPart(p)
    BY <1>3, <2>1, InPacket DEF Aligned
  <2>. QED
    BY <2>1, <2>2 DEF InPart
<1>8. CASE WaitForBytes
  <2>1. size' = size /\ here' = here /\ gone' = gone /\ delivered' = delivered /\ owed' = owed
    BY <1>1, <1>8 DEF WaitForBytes, size, here, gone, packetVars, peerVars
  <2>2. \A p \in sent : (Within(p) => Within(p)') /\ (Behind(p) => Behind(p)')
    BY <1>2, <1>8, <1>keeps, <2>1 DEF Within, Behind, Ends, WaitForBytes, packetVars
  <2>3. InStep'
    BY <1>2, <1>3, <1>8, <2>1, <2>2 DEF Aligned, InStep, WaitForBytes
  <2>4. ASSUME NEW p \in sent, Due(p, arrived) PROVE Done(p)
    BY <1>3, <1>8, <2>4, AlignedWaits DEF WaitForBytes, Due
  <2>5. owed <= Len(delivered)
    BY <1>3, <2>4 DEF Paid
  <2>. QED
    BY <1>4, <1>keeps, <2>1, <2>3, <2>5 DEF Paid
<1>. QED
  BY <1>5, <1>6, <1>7, <1>8 DEF parsePacket

LEMMA PeerStep ==
    ASSUME ParserTypes, StreamInv, StepInv, Peer
    PROVE  StepInv'
<1>. SUFFICES ASSUME Uncut'
              PROVE  InStep' /\ CutsAreSplits' /\ AsSent' /\ Paid'
  BY DEF StepInv
<1>1. ~Reconnect
  BY DEF Reconnect, Uncut, Steady
<1>2. Uncut /\ sent \subseteq sent' /\ splits \subseteq splits'
  <2>1. breaks = {} /\ sent \subseteq sent' /\ splits \subseteq splits'
    BY <1>1 DEF Peer, Uncut, Steady, writeNextPacket, onReadyRead
  <2>. QED
    BY <2>1 DEF Uncut, Steady, Misleading, Openings
<1>3. Tiled /\ InStep /\ CutsAreSplits /\ AsSent /\ Paid
  BY <1>2 DEF StreamInv, StepInv, Uncut, Steady
<1>4. /\ gone' = gone /\ here' = here /\ m_indexPos' = m_indexPos /\ m_state' = m_state /\ delivered' = delivered
      /\ m_dataBegin' = m_dataBegin /\ m_dataSize' = m_dataSize /\ m_type' = m_type
  BY PeerKeeps
<1>done. \A q \in sent : Done(q) => Done(q)'
  BY <1>2, <1>4 DEF Done, Delivered, First
<1>sent. AsSent'
  BY <1>2, <1>3, <1>4 DEF AsSent, FromSent, First
<1>5. ASSUME NEW data \in Payloads, writeNextPacket(data)
      PROVE  InStep' /\ CutsAreSplits' /\ Paid'
  <2>. DEFINE new == [at |-> total, type |-> type_video, data |-> data]
  <2>1. /\ sent' = sent \cup {new} /\ arrived' = arrived /\ splits' = splits
        /\ parsing' = parsing /\ owed' = owed
    BY <1>5 DEF writeNextPacket, total
  <2>2. new.at = total /\ total >= arrived /\ total \in Nat
    BY Numbers DEF total
  <2>3. ASSUME NEW p \in sent PROVE ~(new.at <= p.at)
    BY <1>3, <2>2, SentTypes DEF Tiled
  <2>4. ASSUME NEW p \in sent, Within(p) PROVE Within(p)'
    <3>1. \A q \in sent' : q.at < p.at => Done(q)'
      <4>. TAKE q \in sent'
      <4>1. CASE q \in sent
        BY <1>done, <2>4, <4>1 DEF Within
      <4>2. CASE q = new
        <5>1. ~(new.at < p.at)
          BY <2>2, <2>3, SentTypes
        <5>. QED
          BY <4>2, <5>1
      <4>. QED
        BY <2>1, <4>1, <4>2
    <3>. QED
      BY <1>4, <2>4, <3>1 DEF Within
  <2>5. ASSUME NEW p \in sent, Behind(p) PROVE Behind(p)'
    <3>1. \A q \in sent' : q.at <= p.at => Done(q)'
      <4>. TAKE q \in sent'
      <4>1. CASE q \in sent
        BY <1>done, <2>5, <4>1 DEF Behind
      <4>2. CASE q = new
        BY <2>3, <4>2
      <4>. QED
        BY <2>1, <4>1, <4>2
    <3>. QED
      BY <1>4, <2>1, <2>5, <3>1 DEF Behind, Ends
  <2>6. InStep'
    BY <1>3, <1>4, <2>1, <2>4, <2>5 DEF InStep
  <2>7. CutsAreSplits'
    <3>1. ~(arrived - new.at \in 1 .. 2)
      BY <2>2, Numbers
    <3>. QED
      BY <1>3, <2>1, <3>1 DEF CutsAreSplits
  <2>8. Paid'
    BY <1>3, <1>4, <2>1 DEF Paid, Due, Done, Delivered, First, Ends
  <2>. QED
    BY <2>6, <2>7, <2>8
<1>6. ASSUME NEW n \in 1 .. Len(wire), onReadyRead(n)
      PROVE  InStep' /\ CutsAreSplits' /\ Paid'
  <2>1. sent' = sent /\ parsing' /\ arrived' = arrived + n
    BY <1>6 DEF onReadyRead
  <2>2. \A p \in sent : (Within(p) => Within(p)') /\ (Behind(p) => Behind(p)')
    BY <1>2, <1>4, <1>done, <2>1 DEF Within, Behind, Ends
  <2>3. InStep'
    BY <1>3, <1>4, <2>1, <2>2 DEF InStep
  <2>4. CutsAreSplits'
    <3>1. ASSUME NEW p \in sent, arrived' - p.at \in 1 .. 2 PROVE p.at \in splits'
      <4>1. arrived + n - p.at \in 1 .. 2
        <5>1. p.at \in Nat /\ arrived \in Nat /\ n \in Nat
          BY Numbers, SentTypes
        <5>. QED
          BY <2>1, <3>1, <5>1
      <4>2. p.at \in {q.at : q \in {r \in sent : arrived + n - r.at \in 1 .. 2}}
        BY <4>1
      <4>. QED
        BY <1>6, <4>2 DEF onReadyRead
    <3>. QED
      BY <2>1, <3>1 DEF CutsAreSplits
  <2>5. Paid'
    <3>1. Len(delivered) \in Nat /\ delivered' = delivered
      BY <1>4, DeliveredLen
    <3>2. CASE \E p \in sent : Due(p, arrived') /\ p.at \notin splits'
      <4>1. PICK p \in sent : Due(p, arrived') /\ p.at \notin splits'
        BY <3>2
      <4>2. owed' = Len(delivered) + 1
        BY <1>6, <3>2 DEF onReadyRead
      <4>3. Due(p, arrived)' /\ ~Done(p)'
        BY <3>1, <4>1 DEF Due, Done, Delivered, First, Ends
      <4>. QED
        BY <2>1, <3>1, <4>2, <4>3 DEF Paid
    <3>3. CASE ~\E p \in sent : Due(p, arrived') /\ p.at \notin splits'
      <4>1. owed' = Len(delivered) + 0
        BY <1>6, <3>3 DEF onReadyRead
      <4>. QED
        BY <3>1, <4>1 DEF Paid
    <3>. QED
      BY <3>2, <3>3
  <2>. QED
    BY <2>3, <2>4, <2>5
<1>. QED
  BY <1>1, <1>sent, <1>5, <1>6 DEF Peer

LEMMA NextStep ==
    ASSUME ParserTypes, StreamInv, StepInv, Roomy, [Next]_vars
    PROVE  StepInv'
<1>1. CASE UNCHANGED vars
  <2>1. size' = size /\ here' = here /\ gone' = gone
    BY <1>1 DEF vars, peerVars, packetVars, size, here, gone
  <2>2. (Uncut' <=> Uncut) /\ (InStep' <=> InStep)
    BY <1>1, <2>1 DEF vars, peerVars, packetVars, Uncut, Steady, InStep, Within, Behind, Done, Delivered, First, Ends
  <2>3. (CutsAreSplits' <=> CutsAreSplits) /\ (AsSent' <=> AsSent) /\ (Paid' <=> Paid)
    BY <1>1 DEF vars, peerVars, CutsAreSplits, AsSent, FromSent, Paid, Due, Done, Delivered, First, Ends
  <2>. QED
    BY <2>2, <2>3 DEF StepInv
<1>. QED
  BY <1>1, PeerStep, CaseStep DEF Next

(* A peer that frames as writeNextPacket does, one connection, and no read that ends    *)
(* behind the first or second byte of a packet with something like a begin marker       *)
(* inside: for any payloads, however else the reads cut the stream, the owner gets only *)
(* packets that were sent, byte for byte; the parser leaves none behind that was not    *)
(* cut there; and every call that finds whole packets delivers one of them.  The limit  *)
(* of M_SIZE must not be met: Roomy says that the buffer stays within it.               *)
THEOREM ParserKeepsStep ==
    Spec /\ []Roomy =>
        [](~Documented /\ Steady =>
               /\ AsSent /\ \A p \in sent : Ends(p) <= Position => Done(p)
               /\ Exact /\ PassesOnlySplit /\ EachCallTakesOne)
<1>. DEFINE I == ParserTypes /\ StreamInv /\ StepInv
            G == /\ AsSent /\ \A p \in sent : Ends(p) <= Position => Done(p)
                 /\ Exact /\ PassesOnlySplit /\ EachCallTakesOne
<1>1. Init => I
  <2>. SUFFICES ASSUME Init PROVE I
    OBVIOUS
  <2>1. ParserTypes
    BY InitTypes
  <2>2. size = 0 /\ Len(wire) = 0 /\ Len(delivered) = 0 /\ DOMAIN delivered = {}
    BY DEF Init, size
  <2>3. here = 0 /\ total = 0
    BY <2>2 DEF Init, here, gone, total
  <2>4. Tiled /\ Carried
    BY <2>3 DEF Init, Tiled, Carried
  <2>5. StepInv
    BY <2>2, <2>3 DEF Init, StepInv, InStep, CutsAreSplits, AsSent, Paid
  <2>. QED
    BY <2>1, <2>4, <2>5 DEF StreamInv
<1>2. I /\ Roomy /\ [Next]_vars => I'
  BY NextTypes, NextStream, NextStep
<1>3. I => (~Documented /\ Steady => G)
  <2>. SUFFICES ASSUME I, Uncut PROVE G
    BY DEF Uncut
  <2>1. Aligned /\ AsSent /\ Paid
    BY DEF Aligned, StreamInv, StepInv, Uncut, Steady
  <2>2. \A p \in sent : Ends(p) <= Position => Done(p)
    BY <2>1, AlignedPasses
  <2>3. Exact
    BY <2>1 DEF AsSent, FromSent, Exact, Wrong
  <2>4. PassesOnlySplit
    BY <2>2 DEF Done, PassesOnlySplit
  <2>5. EachCallTakesOne
    BY <2>1, DeliveredLen DEF Paid, EachCallTakesOne
  <2>. QED
    BY <2>1, <2>2, <2>3, <2>4, <2>5
<1>. HIDE DEF I, G
<1>4. Spec /\ []Roomy => [](~Documented /\ Steady => G)
  BY <1>1, <1>2, <1>3, PTL DEF Spec
<1>. QED
  BY <1>4 DEF G

=============================================================================
