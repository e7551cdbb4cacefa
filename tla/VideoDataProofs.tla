--------------------------- MODULE VideoDataProofs ---------------------------
(***************************************************************************)
(* What addData guarantees on every network, for images of every size:     *)
(* the bytes it collects are at their places (Placed), and while the       *)
(* sender's numbers differ it never mixes two images (Intact), so that the *)
(* application gets what FrameChannel promises.  Without copies it         *)
(* delivers no image twice, and those of an ordered network in order.      *)
(***************************************************************************)
EXTENDS VideoData, FragmentationProofs, SequenceTheorems

-----------------------------------------------------------------------------
(* Bytes and datagrams *)

LEMMA BytesFacts ==
    ASSUME NEW s \in Nat, NEW from \in Nat, NEW count \in Nat
    PROVE  /\ Bytes(s, from, count) \in Seq(Byte)
           /\ Len(Bytes(s, from, count)) = count
           /\ \A k \in 1 .. count : Bytes(s, from, count)[k] = [src |-> s, pos |-> from + k - 1]
<1>1. \A k \in 1 .. count : [src |-> s, pos |-> from + k - 1] \in Byte
  BY DEF Byte
<1>. QED
  BY <1>1 DEF Bytes

LEMMA BytesConcat ==
    ASSUME NEW s \in Nat, NEW a \in Nat, NEW b \in Nat
    PROVE  Bytes(s, 0, a) \o Bytes(s, a, b) = Bytes(s, 0, a + b)
<1>. DEFINE p == Bytes(s, 0, a)
            q == Bytes(s, a, b)
            r == Bytes(s, 0, a + b)
<1>0. 0 \in Nat /\ a + b \in Nat
  OBVIOUS
<1>p. /\ p \in Seq(Byte) /\ Len(p) = a
      /\ \A k \in 1 .. a : p[k] = [src |-> s, pos |-> 0 + k - 1]
  BY <1>0, BytesFacts
<1>q. /\ q \in Seq(Byte) /\ Len(q) = b
      /\ \A k \in 1 .. b : q[k] = [src |-> s, pos |-> a + k - 1]
  BY BytesFacts
<1>r. /\ r \in Seq(Byte) /\ Len(r) = a + b
      /\ \A k \in 1 .. a + b : r[k] = [src |-> s, pos |-> 0 + k - 1]
  BY <1>0, BytesFacts
<1>. HIDE DEF p, q, r
<1>2. /\ p \o q \in Seq(Byte) /\ Len(p \o q) = a + b
      /\ \A k \in 1 .. a + b : (p \o q)[k] = IF k <= a THEN p[k] ELSE q[k - a]
  BY <1>p, <1>q, ConcatProperties
<1>3. ASSUME NEW k \in 1 .. a + b PROVE (p \o q)[k] = r[k]
  <2>1. CASE k <= a
    <3>1. k \in 1 .. a
      BY <2>1
    <3>. QED
      BY <3>1, <2>1, <1>p, <1>r, <1>2
  <2>2. CASE ~(k <= a)
    <3>1. k - a \in 1 .. b /\ a + (k - a) - 1 = 0 + k - 1
      BY <2>2
    <3>2. q[k - a] = [src |-> s, pos |-> a + (k - a) - 1]
      BY <3>1, <1>q
    <3>. QED
      BY <3>1, <3>2, <2>2, <1>r, <1>2
  <2>. QED
    BY <2>1, <2>2
<1>4. p \o q = r
  BY <1>r, <1>2, <1>3, SeqEqual
<1>. QED
  BY <1>4 DEF p, q, r

LEMMA DatagramsFacts ==
    ASSUME NEW s, NEW number, NEW size \in Nat, NEW d \in Datagrams(s, number, size)
    PROVE  /\ d = [src |-> d.src, number |-> d.number, offset |-> d.offset, len |-> d.len,
                   frameSize |-> d.frameSize]
           /\ d.src = s /\ d.number = number /\ d.frameSize = size
           /\ d.offset \in Nat /\ d.len \in Nat /\ d.len > 0
           /\ d.offset + d.len <= size
<1>1. PICK f \in Fragments(size) :
           d = [src |-> s, number |-> number, offset |-> f.offset, len |-> f.len,
                frameSize |-> f.frameSize]
  BY DEF Datagrams
<1>2. /\ f.offset \in Nat /\ f.len \in Nat /\ f.len > 0
      /\ f.offset + f.len <= size /\ f.frameSize = size
  BY FragmentFacts
<1>. QED
  BY <1>1, <1>2

(* What the receiver may rely on of a datagram that arrives. *)
LEMMA ArrivalFacts ==
    ASSUME TypeOK, NetGenuine, NEW d \in net
    PROVE  /\ d.src \in DOMAIN sent /\ d.src \in Nat
           /\ d.number = sent[d.src].number /\ d.frameSize = sent[d.src].size
           /\ d.number \in Nat /\ d.frameSize \in Nat
           /\ d.offset \in Nat /\ d.len \in Nat /\ d.len > 0
           /\ d.offset + d.len <= d.frameSize
<1>1. d.src \in DOMAIN sent /\ d \in Datagrams(d.src, sent[d.src].number, sent[d.src].size)
  BY DEF NetGenuine
<1>2. sent[d.src].number \in Nat /\ sent[d.src].size \in Nat /\ d.src \in Nat
  <2>1. sent \in Seq([number : 0 .. UIntMod - 1, size : Nat \ {0}])
    BY DEF TypeOK
  <2>2. d.src \in 1 .. Len(sent) /\ Len(sent) \in Nat
    BY <1>1, <2>1
  <2>3. sent[d.src] \in [number : 0 .. UIntMod - 1, size : Nat \ {0}]
    BY <2>1, <2>2, ElementOfSeq
  <2>. QED
    BY <2>2, <2>3
<1>. QED
  BY <1>1, <1>2, DatagramsFacts

(* What is appended for a datagram that fits. *)
LEMMA AppendedFacts ==
    ASSUME TypeOK, IInv, NEW d \in net, Fits(d)
    PROVE  /\ sizeOf(d) = d.len
           /\ CollectedAt(d) = d.offset
           /\ Bytes(d.src, d.offset, d.len) \in Seq(Byte)
           /\ PacketAt(d) \in Seq(Byte)
           /\ Appended(d) = PacketAt(d) \o Bytes(d.src, d.offset, d.len)
           /\ Appended(d) \in Seq(Byte)
           /\ Len(Appended(d)) = d.offset + d.len
           /\ PlacedIn(Appended(d), d.frameSize)
<1>. DEFINE b == Bytes(d.src, d.offset, d.len)
            p == PacketAt(d)
<1>1. /\ d.src \in DOMAIN sent /\ d.src \in Nat /\ d.frameSize = sent[d.src].size
      /\ d.frameSize \in Nat /\ d.offset \in Nat /\ d.len \in Nat /\ d.len > 0
      /\ d.offset + d.len <= d.frameSize
  BY ArrivalFacts DEF IInv
<1>2. /\ p \in Seq(Byte) /\ Len(p) = d.offset /\ CollectedAt(d) = d.offset
      /\ PlacedIn(p, d.frameSize)
  <2>1. CASE d.offset = 0
    BY <2>1 DEF Fits, CollectedAt, PacketAt, Starts, PlacedIn
  <2>2. CASE d.offset # 0
    <3>1. PacketAt(d) = m_packet /\ m_packet \in Seq(Byte) /\ Len(m_packet) = d.offset
          /\ CollectedAt(d) = m_currentFrameSize /\ m_FrameSize = d.frameSize
      BY <2>2 DEF Fits, Expected, FrameSizeAt, CollectedAt, PacketAt, Starts, TypeOK
    <3>2. m_packet # <<>>
      BY <2>2, <3>1
    <3>. QED
      BY <3>1, <3>2 DEF IInv, Collecting
  <2>. QED
    BY <2>1, <2>2
<1>3. sizeOf(d) = d.len
  BY <1>1, <1>2 DEF sizeOf, MinOf
<1>4. /\ b \in Seq(Byte) /\ Len(b) = d.len
      /\ \A k \in 1 .. d.len : b[k] = [src |-> d.src, pos |-> d.offset + k - 1]
  BY <1>1, BytesFacts
<1>5. Appended(d) = p \o b
  BY <1>3 DEF Appended
<1>. HIDE DEF b, p
<1>6. /\ p \o b \in Seq(Byte) /\ Len(p \o b) = d.offset + d.len
      /\ \A k \in 1 .. d.offset + d.len :
            (p \o b)[k] = IF k <= d.offset THEN p[k] ELSE b[k - d.offset]
  <2>1. p \in Seq(Byte) /\ b \in Seq(Byte)
    BY <1>2, <1>4
  <2>2. /\ p \o b \in Seq(Byte) /\ Len(p \o b) = Len(p) + Len(b)
        /\ \A k \in 1 .. Len(p) + Len(b) :
              (p \o b)[k] = IF k <= Len(p) THEN p[k] ELSE b[k - Len(p)]
    BY <2>1, ConcatProperties
  <2>3. Len(p) = d.offset /\ Len(b) = d.len
    BY <1>2, <1>4
  <2>. QED
    BY <2>2, <2>3
<1>7. PlacedIn(p \o b, d.frameSize)
  <2>. SUFFICES ASSUME NEW k \in 1 .. d.offset + d.len
               PROVE  /\ (p \o b)[k].pos = k - 1
                      /\ (p \o b)[k].src \in DOMAIN sent
                      /\ sent[(p \o b)[k].src].size = d.frameSize
    BY <1>6 DEF PlacedIn
  <2>1. CASE k <= d.offset
    <3>1. k \in 1 .. Len(p) /\ (p \o b)[k] = p[k]
      BY <2>1, <1>1, <1>2, <1>6
    <3>. QED
      BY <3>1, <1>2 DEF PlacedIn
  <2>2. CASE ~(k <= d.offset)
    <3>1. k - d.offset \in 1 .. d.len /\ d.offset + (k - d.offset) - 1 = k - 1
      BY <2>2, <1>1
    <3>2. b[k - d.offset] = [src |-> d.src, pos |-> d.offset + (k - d.offset) - 1]
      BY <3>1, <1>4
    <3>3. (p \o b)[k] = [src |-> d.src, pos |-> k - 1]
      BY <3>1, <3>2, <2>2, <1>6
    <3>. QED
      BY <3>3, <1>1
  <2>. QED
    BY <2>1, <2>2
<1>. QED
  BY <1>1, <1>2, <1>3, <1>4, <1>5, <1>6, <1>7 DEF b, p

-----------------------------------------------------------------------------
(* Type correctness *)

LEMMA InitTypeOK == Init => TypeOK
  BY VideoAssumption DEF Init, TypeOK, Garbage, NoId

LEMMA SendTypeOK ==
    ASSUME TypeOK, NEW size \in FrameSizes, SendFrame(size)
    PROVE  TypeOK'
<1>. DEFINE s == Len(sent) + 1
<1>0. size \in Nat \ {0} /\ s \in Nat /\ m_frame_number \in 0 .. UIntMod - 1
      /\ m_frame_number \in Nat
  BY VideoAssumption DEF TypeOK
<1>1. sent' \in Seq([number : 0 .. UIntMod - 1, size : Nat \ {0}])
  BY <1>0 DEF TypeOK, SendFrame
<1>2. m_frame_number' \in 0 .. UIntMod - 1
  BY <1>0, VideoAssumption DEF SendFrame
<1>3. net' \subseteq DatagramType
  <2>1. ASSUME NEW d \in Datagrams(s, m_frame_number, size) PROVE d \in DatagramType
    BY <1>0, DatagramsFacts DEF DatagramType
  <2>. QED
    BY <2>1 DEF TypeOK, SendFrame
<1>. QED
  BY <1>1, <1>2, <1>3 DEF SendFrame, TypeOK, rcvVars

LEMMA AddDataTypeOK ==
    ASSUME TypeOK, IInv, NEW d \in net, addData(d)
    PROVE  TypeOK'
<1>0. d.number \in Nat /\ d.frameSize \in Nat /\ d.offset \in Nat /\ d.len \in Nat
  BY ArrivalFacts DEF IInv
<1>1. ASSUME Arrives(d)
      PROVE  /\ network' = network /\ sent' = sent /\ m_frame_number' = m_frame_number
             /\ net' \subseteq DatagramType
             /\ extra' \in 0 .. MaxExtra /\ taken' = taken
  BY <1>1, VideoAssumption DEF Arrives, TypeOK
<1>2. NoId \in Nat
  BY VideoAssumption DEF NoId
<1>3. CASE RejectStray(d)
  BY <1>3, <1>1 DEF RejectStray, TypeOK
<1>4. CASE RejectSize(d)
  BY <1>0, <1>4, <1>1 DEF RejectSize, TypeOK
<1>5. CASE RejectGap(d)
  BY <1>2, <1>5, <1>1 DEF RejectGap, GivenUp, TypeOK
<1>6. CASE AppendFragment(d)
  <2>1. Appended(d) \in Seq(Byte) /\ CollectedAt(d) + sizeOf(d) \in Nat
    BY <1>0, <1>6, AppendedFacts DEF AppendFragment
  <2>. QED
    BY <1>0, <1>6, <1>1, <2>1 DEF AppendFragment, TypeOK
<1>7. CASE CompleteFrame(d)
  <2>1. Appended(d) \in Seq(Byte) /\ CollectedAt(d) + sizeOf(d) \in Nat
    BY <1>0, <1>7, AppendedFacts DEF CompleteFrame
  <2>. QED
    BY <1>0, <1>7, <1>1, <2>1 DEF CompleteFrame, TypeOK
<1>. QED
  BY <1>3, <1>4, <1>5, <1>6, <1>7 DEF addData

LEMMA NextTypeOK ==
    ASSUME TypeOK, IInv, [Next]_vars
    PROVE  TypeOK'
<1>1. CASE SenderRestart
  BY <1>1, VideoAssumption DEF SenderRestart, TypeOK, rcvVars
<1>2. ASSUME NEW d \in net, Lose(d) PROVE TypeOK'
  BY <1>2 DEF Lose, TypeOK, rcvVars
<1>3. CASE RejectForeign
  BY <1>3, VideoAssumption DEF RejectForeign, TypeOK
<1>4. CASE TakeFrame
  <2>1. /\ Head(m_frames) \in Seq(Byte) /\ Tail(m_frames) \in Seq(Seq(Byte))
        /\ taken \in Seq(Seq(Byte))
    BY <1>4, HeadTailProperties DEF TakeFrame, getFrame, removeFrame, TypeOK
  <2>. QED
    BY <1>4, <2>1 DEF TakeFrame, getFrame, removeFrame, TypeOK, netVars
<1>5. CASE UNCHANGED vars
  BY <1>5 DEF vars, netVars, rcvVars, TypeOK
<1>. QED
  BY <1>1, <1>2, <1>3, <1>4, <1>5, SendTypeOK, AddDataTypeOK DEF Next
-----------------------------------------------------------------------------
(* The bytes collected are at their places *)

Inv == TypeOK /\ IInv /\ Placed

LEMMA InitInv == Init => Inv
<1>. SUFFICES ASSUME Init PROVE Inv
  OBVIOUS
<1>1. TypeOK
  BY InitTypeOK
<1>2. NetGenuine /\ Collecting
  BY DEF Init, NetGenuine, Collecting
<1>3. assembled = <<>> /\ Len(assembled) = 0
  BY DEF Init, assembled
<1>4. Placed
  BY <1>3 DEF Placed
<1>. QED
  BY <1>1, <1>2, <1>4 DEF Inv, IInv

(* The images sent so far stay what they are. *)
LEMMA SentGrows ==
    ASSUME TypeOK, [Next]_vars
    PROVE  \A s \in DOMAIN sent : s \in DOMAIN sent' /\ sent'[s] = sent[s]
<1>1. ASSUME NEW size \in FrameSizes, SendFrame(size)
      PROVE  \A s \in DOMAIN sent : s \in DOMAIN sent' /\ sent'[s] = sent[s]
  <2>1. sent \in Seq([number : 0 .. UIntMod - 1, size : Nat \ {0}])
    BY DEF TypeOK
  <2>2. sent' = Append(sent, [number |-> m_frame_number, size |-> size])
    BY <1>1 DEF SendFrame
  <2>. QED
    BY <2>1, <2>2
<1>2. CASE sent' = sent
  BY <1>2
<1>3. ASSUME NEW d \in net, addData(d) PROVE sent' = sent
  BY <1>3 DEF addData, RejectStray, RejectSize, RejectGap, GivenUp, AppendFragment, CompleteFrame,
              Arrives
<1>4. [Next]_vars => sent' = sent \/ \E size \in FrameSizes : SendFrame(size)
  BY <1>3 DEF Next, vars, netVars, SenderRestart, Lose, RejectForeign, TakeFrame, getFrame, removeFrame
<1>. QED
  BY <1>1, <1>2, <1>4

(* PlacedIn after a step, of bytes that the step does not change. *)
PlacedAfter(f, size) ==
    \A k \in 1 .. Len(f) :
        /\ f[k].pos = k - 1
        /\ f[k].src \in DOMAIN sent' /\ sent'[f[k].src].size = size

LEMMA PlacedStays ==
    ASSUME TypeOK, [Next]_vars
    PROVE  \A f, size : PlacedIn(f, size) => PlacedAfter(f, size)
  BY SentGrows DEF PlacedIn, PlacedAfter

LEMMA NextNetGenuine ==
    ASSUME TypeOK, NetGenuine, [Next]_vars
    PROVE  NetGenuine'
<1>1. ASSUME NEW d \in net
      PROVE  /\ d.src \in DOMAIN sent'
             /\ d \in Datagrams(d.src, sent'[d.src].number, sent'[d.src].size)
  BY SentGrows DEF NetGenuine
<1>2. ASSUME NEW size \in FrameSizes, SendFrame(size) PROVE NetGenuine'
  <2>. DEFINE s == Len(sent) + 1
              image == [number |-> m_frame_number, size |-> size]
  <2>1. /\ sent \in Seq([number : 0 .. UIntMod - 1, size : Nat \ {0}])
        /\ sent' = Append(sent, image)
        /\ net' = net \cup Datagrams(s, m_frame_number, size)
    BY <1>2 DEF TypeOK, SendFrame
  <2>2. s \in DOMAIN sent' /\ sent'[s] = image
    BY <2>1
  <2>3. ASSUME NEW d \in Datagrams(s, m_frame_number, size)
        PROVE  /\ d.src \in DOMAIN sent'
               /\ d \in Datagrams(d.src, sent'[d.src].number, sent'[d.src].size)
    <3>1. d.src = s
      BY DatagramsFacts, VideoAssumption
    <3>. QED
      BY <3>1, <2>2
  <2>4. \A d \in net' : /\ d.src \in DOMAIN sent'
                        /\ d \in Datagrams(d.src, sent'[d.src].number, sent'[d.src].size)
    BY <1>1, <2>1, <2>3
  <2>. QED
    BY <2>4 DEF NetGenuine, Datagrams
<1>3. ASSUME net' \subseteq net PROVE NetGenuine'
  <2>1. \A d \in net' : /\ d.src \in DOMAIN sent'
                        /\ d \in Datagrams(d.src, sent'[d.src].number, sent'[d.src].size)
    BY <1>1, <1>3
  <2>. QED
    BY <2>1 DEF NetGenuine, Datagrams
<1>4. ASSUME NEW d \in net, addData(d) PROVE net' \subseteq net
  BY <1>4 DEF addData, RejectStray, RejectSize, RejectGap, GivenUp, AppendFragment, CompleteFrame,
              Arrives
<1>5. [Next]_vars => net' \subseteq net \/ \E size \in FrameSizes : SendFrame(size)
  BY <1>4 DEF Next, vars, netVars, SenderRestart, Lose, RejectForeign, TakeFrame, getFrame, removeFrame
<1>. QED
  BY <1>2, <1>3, <1>5

(* The steps that leave the buffer and the queues alone. *)
Quiet == UNCHANGED <<m_FrameSize, m_currentFrameSize, m_packet, m_frames, taken>>

LEMMA StepKinds ==
    ASSUME [Next]_vars
    PROVE  \/ Quiet
           \/ \E d \in net : AppendFragment(d) \/ CompleteFrame(d)
           \/ TakeFrame
  BY DEF Next, vars, netVars, rcvVars, SendFrame, SenderRestart, Lose, RejectForeign, addData,
         RejectStray, RejectSize, RejectGap, GivenUp, Arrives, Quiet

(* The queue moves an image from one end to the other; nothing is lost. *)
LEMMA TakeAssembled ==
    ASSUME TypeOK, TakeFrame
    PROVE  assembled' = assembled
<1>1. /\ m_frames \in Seq(Seq(Byte)) /\ taken \in Seq(Seq(Byte)) /\ m_frames # <<>>
      /\ taken' = Append(taken, Head(m_frames)) /\ m_frames' = Tail(m_frames)
  BY DEF TypeOK, TakeFrame, getFrame, removeFrame
<1>. DEFINE h == Head(m_frames)
            t == Tail(m_frames)
<1>2. /\ h \in Seq(Byte) /\ t \in Seq(Seq(Byte)) /\ Len(t) = Len(m_frames) - 1
      /\ h = m_frames[1] /\ \A i \in 1 .. Len(t) : t[i] = m_frames[i + 1]
  BY <1>1, HeadTailProperties
<1>3. /\ taken' \in Seq(Seq(Byte)) /\ Len(taken') = Len(taken) + 1
      /\ \A i \in 1 .. Len(taken) : taken'[i] = taken[i]
      /\ taken'[Len(taken) + 1] = h
  BY <1>1, <1>2
<1>. DEFINE x == taken \o m_frames
            y == taken' \o t
<1>4. /\ x \in Seq(Seq(Byte)) /\ Len(x) = Len(taken) + Len(m_frames)
      /\ \A i \in 1 .. Len(taken) + Len(m_frames) :
            x[i] = IF i <= Len(taken) THEN taken[i] ELSE m_frames[i - Len(taken)]
  BY <1>1, ConcatProperties
<1>5. /\ y \in Seq(Seq(Byte)) /\ Len(y) = Len(taken') + Len(t)
      /\ \A i \in 1 .. Len(taken') + Len(t) :
            y[i] = IF i <= Len(taken') THEN taken'[i] ELSE t[i - Len(taken')]
  BY <1>2, <1>3, ConcatProperties
<1>6. Len(x) = Len(y) /\ Len(taken) \in Nat /\ Len(m_frames) \in Nat \ {0}
  BY <1>1, <1>2, <1>3, <1>4, <1>5
<1>. HIDE DEF x, y, h, t
<1>7. ASSUME NEW i \in 1 .. Len(x) PROVE x[i] = y[i]
  <2>0. i \in 1 .. Len(taken) + Len(m_frames) /\ i \in 1 .. Len(taken') + Len(t)
    BY <1>4, <1>5, <1>6
  <2>1. CASE i <= Len(taken)
    <3>1. i \in 1 .. Len(taken) /\ i <= Len(taken')
      BY <2>0, <2>1, <1>3, <1>6
    <3>. QED
      BY <2>0, <2>1, <3>1, <1>3, <1>4, <1>5
  <2>2. CASE i = Len(taken) + 1
    <3>1. ~(i <= Len(taken)) /\ i - Len(taken) = 1 /\ i <= Len(taken')
      BY <2>2, <1>3, <1>6
    <3>2. x[i] = m_frames[1]
      BY <2>0, <3>1, <1>4
    <3>3. y[i] = taken'[Len(taken) + 1]
      BY <2>0, <2>2, <3>1, <1>5
    <3>. QED
      BY <3>2, <3>3, <1>2, <1>3
  <2>3. CASE i > Len(taken) + 1
    <3>1. /\ ~(i <= Len(taken)) /\ ~(i <= Len(taken'))
          /\ i - Len(taken') \in 1 .. Len(t)
          /\ (i - Len(taken')) + 1 = i - Len(taken)
      BY <2>0, <2>3, <1>2, <1>3, <1>6
    <3>2. x[i] = m_frames[i - Len(taken)]
      BY <2>0, <3>1, <1>4
    <3>3. y[i] = t[i - Len(taken')]
      BY <2>0, <3>1, <1>5
    <3>. QED
      BY <3>1, <3>2, <3>3, <1>2
  <2>. QED
    BY <2>0, <2>1, <2>2, <2>3, <1>6
<1>8. x = y
  BY <1>4, <1>5, <1>6, <1>7, SeqEqual
<1>. QED
  BY <1>8, <1>1 DEF x, y, t, assembled

(* A completed image is added at the end. *)
LEMMA CompleteAssembled ==
    ASSUME TypeOK, IInv, NEW d \in net, CompleteFrame(d)
    PROVE  /\ Len(assembled) \in Nat /\ Len(assembled') = Len(assembled) + 1
           /\ \A j \in 1 .. Len(assembled) : assembled'[j] = assembled[j]
           /\ assembled'[Len(assembled) + 1] = Appended(d)
<1>1. /\ m_frames \in Seq(Seq(Byte)) /\ taken \in Seq(Seq(Byte)) /\ taken' = taken
      /\ m_frames' = Append(m_frames, Appended(d)) /\ Appended(d) \in Seq(Byte)
  BY AppendedFacts DEF TypeOK, CompleteFrame, Arrives
<1>2. /\ m_frames' \in Seq(Seq(Byte)) /\ Len(m_frames') = Len(m_frames) + 1
      /\ \A i \in 1 .. Len(m_frames) : m_frames'[i] = m_frames[i]
      /\ m_frames'[Len(m_frames) + 1] = Appended(d)
      /\ Len(m_frames) \in Nat /\ Len(taken) \in Nat
  BY <1>1
<1>3. /\ Len(assembled) = Len(taken) + Len(m_frames)
      /\ \A i \in 1 .. Len(taken) + Len(m_frames) :
            assembled[i] = IF i <= Len(taken) THEN taken[i] ELSE m_frames[i - Len(taken)]
  BY <1>1, ConcatProperties DEF assembled
<1>4. /\ Len(assembled') = Len(taken) + Len(m_frames')
      /\ \A i \in 1 .. Len(taken) + Len(m_frames') :
            assembled'[i] = IF i <= Len(taken) THEN taken[i] ELSE m_frames'[i - Len(taken)]
  <2>1. assembled' = taken \o m_frames'
    BY <1>1 DEF assembled
  <2>. QED
    BY <1>1, <1>2, <2>1, ConcatProperties
<1>5. ASSUME NEW j \in 1 .. Len(assembled) PROVE assembled'[j] = assembled[j]
  <2>1. CASE j <= Len(taken)
    BY <2>1, <1>2, <1>3, <1>4
  <2>2. CASE ~(j <= Len(taken))
    <3>1. j - Len(taken) \in 1 .. Len(m_frames) /\ j \in 1 .. Len(taken) + Len(m_frames)
          /\ j \in 1 .. Len(taken) + Len(m_frames')
      BY <2>2, <1>2, <1>3
    <3>. QED
      BY <2>2, <3>1, <1>2, <1>3, <1>4
  <2>. QED
    BY <2>1, <2>2
<1>6. assembled'[Len(assembled) + 1] = Appended(d)
  <2>1. /\ Len(assembled) + 1 \in 1 .. Len(taken) + Len(m_frames')
        /\ ~(Len(assembled) + 1 <= Len(taken))
        /\ Len(assembled) + 1 - Len(taken) = Len(m_frames) + 1
    BY <1>2, <1>3
  <2>. QED
    BY <2>1, <1>2, <1>4
<1>. QED
  BY <1>2, <1>3, <1>4, <1>5, <1>6
LEMMA CompletedSize ==
    ASSUME TypeOK, IInv, NEW d \in net, Fits(d), Completes(d)
    PROVE  Len(Appended(d)) = d.frameSize /\ d.frameSize > 0 /\ d.offset + d.len = d.frameSize
<1>1. /\ d.frameSize \in Nat /\ d.offset \in Nat /\ d.len \in Nat /\ d.len > 0
      /\ d.offset + d.len <= d.frameSize
  BY ArrivalFacts DEF IInv
<1>2. CollectedAt(d) = d.offset /\ sizeOf(d) = d.len /\ Len(Appended(d)) = d.offset + d.len
  BY AppendedFacts
<1>. QED
  BY <1>1, <1>2 DEF Completes

LEMMA NextCollecting ==
    ASSUME TypeOK, IInv, [Next]_vars
    PROVE  Collecting'
<1>1. CASE Quiet
  <2>. SUFFICES ASSUME m_packet' # <<>>
               PROVE  /\ m_currentFrameSize' = Len(m_packet')
                      /\ Len(m_packet') < m_FrameSize'
                      /\ PlacedIn(m_packet, m_FrameSize)'
    BY DEF Collecting
  <2>1. m_packet' = m_packet /\ m_FrameSize' = m_FrameSize
        /\ m_currentFrameSize' = m_currentFrameSize
    BY <1>1 DEF Quiet
  <2>2. /\ m_currentFrameSize = Len(m_packet) /\ Len(m_packet) < m_FrameSize
        /\ PlacedIn(m_packet, m_FrameSize)
    BY <2>1 DEF IInv, Collecting
  <2>3. PlacedAfter(m_packet, m_FrameSize)
    BY <2>2, PlacedStays
  <2>4. PlacedIn(m_packet, m_FrameSize)'
    BY <2>1, <2>3 DEF PlacedIn, PlacedAfter
  <2>. QED
    BY <2>1, <2>2, <2>4
<1>2. ASSUME NEW d \in net, AppendFragment(d) PROVE Collecting'
  <2>1. /\ Fits(d) /\ ~Completes(d) /\ m_packet' = Appended(d) /\ m_FrameSize' = d.frameSize
        /\ m_currentFrameSize' = CollectedAt(d) + sizeOf(d) /\ sent' = sent
    BY <1>2 DEF AppendFragment, Arrives
  <2>2. /\ CollectedAt(d) = d.offset /\ sizeOf(d) = d.len
        /\ Len(Appended(d)) = d.offset + d.len /\ PlacedIn(Appended(d), d.frameSize)
    BY <2>1, AppendedFacts
  <2>3. d.offset + d.len < d.frameSize
    BY <2>1, <2>2, ArrivalFacts DEF Completes, IInv
  <2>4. PlacedIn(m_packet, m_FrameSize)'
    BY <2>1, <2>2 DEF PlacedIn
  <2>. QED
    BY <2>1, <2>2, <2>3, <2>4 DEF Collecting
<1>3. ASSUME NEW d \in net, CompleteFrame(d) PROVE Collecting'
  BY <1>3 DEF CompleteFrame, Collecting
<1>4. CASE TakeFrame
  BY <1>4 DEF TakeFrame, getFrame, removeFrame, netVars, IInv, Collecting, PlacedIn
<1>. QED
  BY <1>1, <1>2, <1>3, <1>4, StepKinds

LEMMA NextPlaced ==
    ASSUME TypeOK, IInv, Placed, [Next]_vars
    PROVE  Placed'
<1>1. ASSUME assembled' = assembled PROVE Placed'
  <2>1. \A j \in 1 .. Len(assembled) :
            Len(assembled[j]) > 0 /\ PlacedIn(assembled[j], Len(assembled[j]))
    BY DEF Placed
  <2>2. \A j \in 1 .. Len(assembled) : PlacedAfter(assembled[j], Len(assembled[j]))
    BY <2>1, PlacedStays
  <2>. QED
    BY <1>1, <2>1, <2>2 DEF Placed, PlacedIn, PlacedAfter
<1>2. ASSUME NEW d \in net, CompleteFrame(d) PROVE Placed'
  <2>1. Fits(d) /\ Completes(d) /\ sent' = sent
    BY <1>2 DEF CompleteFrame, Arrives
  <2>2. /\ Len(assembled) \in Nat /\ Len(assembled') = Len(assembled) + 1
        /\ \A j \in 1 .. Len(assembled) : assembled'[j] = assembled[j]
        /\ assembled'[Len(assembled) + 1] = Appended(d)
    BY <1>2, CompleteAssembled
  <2>3. Len(Appended(d)) > 0 /\ PlacedIn(Appended(d), Len(Appended(d)))
    BY <2>1, CompletedSize, AppendedFacts
  <2>4. \A j \in 1 .. Len(assembled') :
            Len(assembled'[j]) > 0 /\ PlacedIn(assembled'[j], Len(assembled'[j]))
    <3>. TAKE j \in 1 .. Len(assembled')
    <3>1. CASE j \in 1 .. Len(assembled)
      BY <3>1, <2>2 DEF Placed
    <3>2. CASE j = Len(assembled) + 1
      BY <3>2, <2>2, <2>3
    <3>. QED
      BY <3>1, <3>2, <2>2
  <2>. QED
    BY <2>1, <2>4 DEF Placed, PlacedIn
<1>3. ASSUME NEW d \in net, AppendFragment(d) PROVE assembled' = assembled
  BY <1>3 DEF AppendFragment, Arrives, assembled
<1>4. Quiet => assembled' = assembled
  BY DEF Quiet, assembled
<1>. QED
  BY <1>1, <1>2, <1>3, <1>4, TakeAssembled, StepKinds

LEMMA NextInv == Inv /\ [Next]_vars => Inv'
<1>. SUFFICES ASSUME Inv, [Next]_vars PROVE Inv'
  OBVIOUS
<1>1. TypeOK /\ IInv /\ NetGenuine /\ Placed
  BY DEF Inv, IInv
<1>. QED
  BY <1>1, NextTypeOK, NextNetGenuine, NextCollecting, NextPlaced DEF Inv, IInv

LEMMA SpecInv == Spec => []Inv
  BY InitInv, NextInv, PTL DEF Spec

(* The types, the unsigned image numbers included, for every choice of the     *)
(* protocol's sizes and every behaviour of the network (videodata.cpp:93-198). *)
THEOREM VideoDataTypeOK == Spec => []TypeOK
  BY SpecInv, PTL DEF Inv

(* What addData collects has the size announced, and every byte of it is the   *)
(* byte of its place in an image of that size: with loss, copies, reordering,  *)
(* restarts of the sender and wrapped numbers (videodata.cpp:142-190).         *)
THEOREM VideoDataPlaced == Spec => []Placed
  BY SpecInv, PTL DEF Inv

(* The invariant of the buffer those theorems rest on.                         *)
THEOREM VideoDataIInv == Spec => []IInv
  BY SpecInv, PTL DEF Inv
-----------------------------------------------------------------------------
(* While the numbers differ, no image is mixed *)

WholeInv == Intact /\ NumberInv

(* A buffer that a datagram fits is the beginning of the datagram's image. *)
LEMMA AppendedPrefix ==
    ASSUME TypeOK, IInv, Numbered, OfCurrent, NEW d \in net, Fits(d)
    PROVE  Appended(d) = Bytes(d.src, 0, d.offset + d.len)
<1>1. /\ d.src \in DOMAIN sent /\ d.src \in Nat /\ d.number = sent[d.src].number
      /\ d.offset \in Nat /\ d.len \in Nat
  BY ArrivalFacts DEF IInv
<1>2. PacketAt(d) = Bytes(d.src, 0, d.offset)
  <2>1. CASE d.offset = 0
    <3>1. PacketAt(d) = <<>>
      BY <2>1 DEF PacketAt, Starts
    <3>2. Bytes(d.src, 0, 0) \in Seq(Byte) /\ Len(Bytes(d.src, 0, 0)) = 0
      BY <1>1, BytesFacts
    <3>. QED
      BY <2>1, <3>1, <3>2
  <2>2. CASE d.offset # 0
    <3>1. PacketAt(d) = m_packet /\ Len(m_packet) = d.offset /\ m_currentID = d.number
      BY <2>2 DEF Fits, Expected, Stray, PacketAt, Starts
    <3>2. m_packet # <<>>
      BY <2>2, <3>1
    <3>. QED
      BY <1>1, <3>1, <3>2 DEF OfCurrent
  <2>. QED
    BY <2>1, <2>2
<1>. QED
  <2>1. Appended(d) = Bytes(d.src, 0, d.offset) \o Bytes(d.src, d.offset, d.len)
    BY <1>2, AppendedFacts
  <2>. QED
    BY <1>1, <2>1, BytesConcat

LEMMA SentTypes ==
    ASSUME TypeOK
    PROVE  /\ Len(sent) \in Nat /\ DOMAIN sent = 1 .. Len(sent)
           /\ \A s \in 1 .. Len(sent) : sent[s].number \in Nat /\ sent[s].size \in Nat \ {0}
<1>1. sent \in Seq([number : 0 .. UIntMod - 1, size : Nat \ {0}])
  BY DEF TypeOK
<1>2. Len(sent) \in Nat /\ DOMAIN sent = 1 .. Len(sent)
  BY <1>1, LenProperties
<1>3. ASSUME NEW s \in 1 .. Len(sent)
      PROVE  sent[s].number \in Nat /\ sent[s].size \in Nat \ {0}
  <2>1. sent[s] \in [number : 0 .. UIntMod - 1, size : Nat \ {0}]
    BY <1>1, ElementOfSeq
  <2>. QED
    BY <2>1, VideoAssumption
<1>. QED
  BY <1>2, <1>3

(* What a step does to the number being received, when no frame completes. *)
LEMMA QuietKinds ==
    ASSUME TypeOK, IInv, [Next]_vars
    PROVE  \/ Quiet /\ sent' = sent /\ m_frame_number' = m_frame_number
              /\ (m_currentID' = m_currentID \/ m_currentID' = NoId)
           \/ SenderRestart
           \/ \E size \in FrameSizes : SendFrame(size)
           \/ \E d \in net : AppendFragment(d) \/ CompleteFrame(d)
           \/ TakeFrame
<1>1. ASSUME NEW d \in net, RejectStray(d) \/ RejectSize(d) \/ RejectGap(d)
      PROVE  /\ Quiet /\ sent' = sent /\ m_frame_number' = m_frame_number
             /\ m_currentID' = m_currentID \/ m_currentID' = NoId
  BY <1>1 DEF RejectStray, RejectSize, RejectGap, GivenUp, Arrives, Quiet, Stray, FrameSizeAt, Starts
<1>2. ASSUME NEW d \in net, Lose(d)
      PROVE  Quiet /\ sent' = sent /\ m_frame_number' = m_frame_number /\ m_currentID' = m_currentID
  BY <1>2 DEF Lose, rcvVars, Quiet
<1>3. ASSUME RejectForeign \/ UNCHANGED vars
      PROVE  Quiet /\ sent' = sent /\ m_frame_number' = m_frame_number /\ m_currentID' = m_currentID
  BY <1>3 DEF RejectForeign, vars, netVars, rcvVars, Quiet
<1>. QED
  BY <1>1, <1>2, <1>3 DEF Next, addData

LEMMA WholeStays ==
    ASSUME TypeOK, [Next]_vars, NEW s \in DOMAIN sent
    PROVE  Whole(s)' = Whole(s) /\ s \in DOMAIN sent'
  BY SentGrows DEF Whole, Bytes

LEMMA InitWhole == Init => WholeInv
<1>. SUFFICES ASSUME Init PROVE WholeInv
  OBVIOUS
<1>1. assembled = <<>> /\ Len(assembled) = 0 /\ Len(sent) = 0 /\ DOMAIN sent = {}
      /\ m_packet = <<>> /\ m_frame_number = 0
  BY DEF Init, assembled
<1>. QED
  BY <1>1 DEF WholeInv, Intact, NumberInv, Numbered, OfCurrent

LEMMA NextWhole ==
    ASSUME TypeOK, TypeOK', IInv, WholeInv, [Next]_vars
    PROVE  WholeInv'
<1>. SUFFICES ASSUME ~Restarting, Len(sent') < UIntMod
             PROVE  /\ \A j \in 1 .. Len(assembled') : IsWhole(assembled[j])'
                    /\ Numbered' /\ OfCurrent'
  <2>1. (~Restarting)' <=> ~Restarting
    OBVIOUS
  <2>. QED
    BY <2>1 DEF WholeInv, Intact, NumberInv
<1>0. /\ Len(sent) \in Nat /\ DOMAIN sent = 1 .. Len(sent) /\ Len(sent) <= Len(sent')
      /\ Len(sent') \in Nat /\ DOMAIN sent' = 1 .. Len(sent')
      /\ UIntMod \in Nat \ {0} /\ NoId = UIntMod - 1
  <2>1. Len(sent) \in Nat /\ DOMAIN sent = 1 .. Len(sent)
    BY SentTypes
  <2>2. Len(sent') \in Nat /\ DOMAIN sent' = 1 .. Len(sent')
    BY DEF TypeOK
  <2>3. Len(sent) <= Len(sent')
    BY <2>1, <2>2, SentGrows
  <2>. QED
    BY <2>1, <2>2, <2>3, VideoAssumption DEF NoId
<1>1. /\ \A j \in 1 .. Len(assembled) : IsWhole(assembled[j])
      /\ Numbered /\ OfCurrent
  BY <1>0 DEF WholeInv, Intact, NumberInv
<1>2. \A s \in 1 .. Len(sent) : sent[s].number = s - 1 /\ sent[s].number < NoId
  BY <1>0, <1>1 DEF Numbered
<1>3. ASSUME assembled' = assembled
      PROVE  \A j \in 1 .. Len(assembled') : IsWhole(assembled[j])'
  <2>1. \A j \in 1 .. Len(assembled) : \E s \in DOMAIN sent : assembled[j] = Whole(s)
    BY <1>1 DEF IsWhole
  <2>2. \A j \in 1 .. Len(assembled) : \E s \in DOMAIN sent' : assembled'[j] = Whole(s)'
    BY <1>3, <2>1, WholeStays
  <2>. QED
    BY <1>3, <2>2 DEF IsWhole
<1>4. ASSUME Quiet, sent' = sent, m_frame_number' = m_frame_number,
             m_currentID' = m_currentID \/ m_currentID' = NoId
      PROVE  /\ \A j \in 1 .. Len(assembled') : IsWhole(assembled[j])'
             /\ Numbered' /\ OfCurrent'
  <2>1. assembled' = assembled /\ m_packet' = m_packet
    BY <1>4 DEF Quiet, assembled
  <2>2. Numbered'
    BY <1>1, <1>4 DEF Numbered
  <2>3. OfCurrent'
    BY <1>0, <1>1, <1>2, <1>4, <2>1 DEF OfCurrent, Bytes
  <2>. QED
    BY <1>3, <2>1, <2>2, <2>3
<1>5. ASSUME NEW size \in FrameSizes, SendFrame(size)
      PROVE  /\ \A j \in 1 .. Len(assembled') : IsWhole(assembled[j])'
             /\ Numbered' /\ OfCurrent'
  <2>. DEFINE image == [number |-> m_frame_number, size |-> size]
  <2>1. /\ sent \in Seq([number : 0 .. UIntMod - 1, size : Nat \ {0}])
        /\ sent' = Append(sent, image) /\ m_frame_number' = (m_frame_number + 1) % UIntMod
        /\ assembled' = assembled /\ m_packet' = m_packet /\ m_currentID' = m_currentID
    BY <1>5 DEF TypeOK, SendFrame, rcvVars, assembled
  <2>2. /\ Len(sent') = Len(sent) + 1 /\ sent'[Len(sent) + 1] = image
        /\ \A s \in 1 .. Len(sent) : sent'[s] = sent[s]
    BY <2>1
  <2>3. m_frame_number = Len(sent) /\ Len(sent) + 1 < UIntMod
    BY <1>1, <2>2 DEF Numbered
  <2>4. Numbered'
    <3>1. m_frame_number' = Len(sent')
      <4>1. m_frame_number' = (Len(sent) + 1) % UIntMod
        BY <2>1, <2>3
      <4>2. (Len(sent) + 1) % UIntMod = Len(sent) + 1
        BY <1>0, <2>3, SMT
      <4>. QED
        BY <2>2, <4>1, <4>2
    <3>2. \A s \in 1 .. Len(sent) + 1 : sent'[s].number = s - 1
      BY <1>0, <1>2, <2>2, <2>3
    <3>. QED
      BY <1>0, <2>2, <3>1, <3>2 DEF Numbered
  <2>5. OfCurrent'
    <3>. SUFFICES ASSUME m_packet # <<>>
                 PROVE  /\ m_currentID = NoId \/ m_currentID < Len(sent')
                        /\ \A s \in 1 .. Len(sent) + 1 :
                             m_currentID = sent'[s].number =>
                                 m_packet = Bytes(s, 0, Len(m_packet))
      BY <1>0, <2>1, <2>2 DEF OfCurrent, Bytes
    <3>1. /\ m_currentID = NoId \/ m_currentID < Len(sent)
          /\ \A s \in 1 .. Len(sent) :
                m_currentID = sent[s].number => m_packet = Bytes(s, 0, Len(m_packet))
      BY <1>0, <1>1 DEF OfCurrent
    <3>2. m_currentID \in Nat /\ m_currentID # Len(sent)
      <4>1. m_currentID \in Nat
        BY DEF TypeOK
      <4>2. NoId # Len(sent)
        BY <1>0, <2>3
      <4>3. ~(Len(sent) < Len(sent))
        BY <1>0
      <4>. QED
        BY <3>1, <4>1, <4>2, <4>3
    <3>3. sent'[Len(sent) + 1].number = Len(sent)
      BY <2>2, <2>3
    <3>4. m_currentID < Len(sent) => m_currentID < Len(sent')
      <4>1. \A a, b \in Nat : a < b => a < b + 1
        OBVIOUS
      <4>2. m_currentID \in Nat /\ Len(sent) \in Nat /\ Len(sent') = Len(sent) + 1
        BY <1>0, <2>2, <3>2
      <4>. QED
        BY <4>1, <4>2
    <3>5. ASSUME NEW s \in 1 .. Len(sent) + 1, m_currentID = sent'[s].number
          PROVE  m_packet = Bytes(s, 0, Len(m_packet))
      <4>1. CASE s \in 1 .. Len(sent)
        BY <4>1, <2>2, <3>1, <3>5
      <4>2. CASE s = Len(sent) + 1
        BY <4>2, <3>2, <3>3, <3>5
      <4>. QED
        BY <4>1, <4>2, <1>0
    <3>. QED
      BY <3>1, <3>4, <3>5
  <2>. QED
    BY <1>3, <2>1, <2>4, <2>5
<1>6. ASSUME NEW d \in net, AppendFragment(d) \/ CompleteFrame(d)
      PROVE  /\ \A j \in 1 .. Len(assembled') : IsWhole(assembled[j])'
             /\ Numbered' /\ OfCurrent'
  <2>1. /\ Fits(d) /\ sent' = sent /\ m_frame_number' = m_frame_number
        /\ m_currentID' = d.number
    BY <1>6 DEF AppendFragment, CompleteFrame, Arrives
  <2>2. /\ d.src \in 1 .. Len(sent) /\ d.number = sent[d.src].number
        /\ d.frameSize = sent[d.src].size /\ d.offset \in Nat /\ d.len \in Nat
    BY <1>0, ArrivalFacts DEF IInv
  <2>3. Numbered'
    BY <1>1, <2>1 DEF Numbered
  <2>4. /\ Appended(d) = Bytes(d.src, 0, d.offset + d.len)
        /\ Len(Appended(d)) = d.offset + d.len
    BY <1>1, <2>1, AppendedPrefix, AppendedFacts
  <2>5. CASE AppendFragment(d)
    <3>1. assembled' = assembled /\ m_packet' = Appended(d)
      BY <2>5 DEF AppendFragment, Arrives, assembled
    <3>2. m_currentID' < Len(sent)
      BY <1>0, <1>2, <2>1, <2>2
    <3>3. \A s \in 1 .. Len(sent) :
             m_currentID' = sent[s].number => m_packet' = Bytes(s, 0, Len(m_packet'))
      <4>. SUFFICES ASSUME NEW s \in 1 .. Len(sent), m_currentID' = sent[s].number
                   PROVE  m_packet' = Bytes(s, 0, Len(m_packet'))
        OBVIOUS
      <4>1. s = d.src
        <5>1. sent[s].number = s - 1 /\ sent[d.src].number = d.src - 1
          BY <1>2, <2>2
        <5>2. s - 1 = d.src - 1
          BY <2>1, <2>2, <5>1
        <5>3. s \in Int /\ d.src \in Int
          BY <1>0, <2>2
        <5>. QED
          BY <5>2, <5>3
      <4>. QED
        BY <4>1, <2>4, <3>1
    <3>4. OfCurrent'
      BY <1>0, <2>1, <3>2, <3>3 DEF OfCurrent, Bytes
    <3>. QED
      BY <1>3, <2>3, <3>1, <3>4
  <2>6. CASE CompleteFrame(d)
    <3>1. Fits(d) /\ Completes(d) /\ m_packet' = <<>>
      BY <2>6 DEF CompleteFrame
    <3>2. OfCurrent'
      BY <3>1 DEF OfCurrent
    <3>3. Appended(d) = Whole(d.src)
      BY <2>2, <2>4, <3>1, CompletedSize DEF Whole
    <3>4. /\ Len(assembled) \in Nat /\ Len(assembled') = Len(assembled) + 1
          /\ \A j \in 1 .. Len(assembled) : assembled'[j] = assembled[j]
          /\ assembled'[Len(assembled) + 1] = Appended(d)
      BY <2>6, CompleteAssembled
    <3>5. \A j \in 1 .. Len(assembled') : \E s \in DOMAIN sent : assembled'[j] = Whole(s)
      <4>. TAKE j \in 1 .. Len(assembled')
      <4>1. CASE j \in 1 .. Len(assembled)
        BY <4>1, <1>1, <3>4 DEF IsWhole
      <4>2. CASE j = Len(assembled) + 1
        BY <4>2, <1>0, <2>2, <3>3, <3>4
      <4>. QED
        BY <4>1, <4>2, <3>4
    <3>6. \A j \in 1 .. Len(assembled') : IsWhole(assembled[j])'
      BY <2>1, <3>5 DEF IsWhole, Whole, Bytes
    <3>. QED
      BY <2>3, <3>2, <3>6
  <2>. QED
    BY <1>6, <2>5, <2>6
<1>7. CASE TakeFrame
  <2>1. assembled' = assembled
    BY <1>7, TakeAssembled
  <2>2. UNCHANGED <<sent, m_frame_number, m_currentID, m_packet>>
    BY <1>7 DEF TakeFrame, getFrame, removeFrame, netVars
  <2>3. Numbered' /\ OfCurrent'
    BY <1>1, <2>2 DEF Numbered, OfCurrent, Bytes
  <2>. QED
    BY <1>3, <2>1, <2>3
<1>8. ~SenderRestart
  BY DEF SenderRestart
<1>. QED
  BY <1>4, <1>5, <1>6, <1>7, <1>8, QuietKinds

LEMMA SpecWhole == Spec => [](Inv /\ WholeInv)
<1>1. Inv /\ Inv' /\ WholeInv /\ [Next]_vars => WholeInv'
  BY NextWhole DEF Inv
<1>. QED
  BY <1>1, InitWhole, InitInv, NextInv, PTL DEF Spec

(* While fewer than 2^32 images have been sent by a sender that does not        *)
(* restart, every image collected is one image that was sent, whole, whatever   *)
(* the network lost, repeated or reordered and whatever the uninitialised ids   *)
(* of the constructor are (videodata.cpp:66-75, 142-190).                       *)
THEOREM VideoDataIntact == Spec => []Intact
  BY SpecWhole, PTL DEF WholeInv

(* The invariant on the numbers that theorem rests on.                          *)
THEOREM VideoDataNumberInv == Spec => []NumberInv
  BY SpecWhole, PTL DEF WholeInv
-----------------------------------------------------------------------------
(* Without copies no image is delivered twice, and in order if it keeps order *)

(* A datagram that holds the end of its image, after which the image is complete. *)
Ends(d) == d.offset + d.len = d.frameSize

(* An image that was collected has its end no longer on the network; and a network that *)
(* keeps the order has no datagram of an older image left.                              *)
EndGone(j) == \A e \in net : e.src = LastSource(assembled[j]) => ~Ends(e)
NoneOlder(j) == \A e \in net : LastSource(assembled[j]) <= e.src
Delivered ==
    ~Duplicating =>
        /\ \A j \in 1 .. Len(assembled) : EndGone(j)
        /\ ~Reordering => \A j \in 1 .. Len(assembled) : NoneOlder(j)
OnceInv == AtMostOnce /\ InOrder /\ Delivered

(* Two datagrams that hold the end of one image are the same. *)
LEMMA OneEnd ==
    ASSUME TypeOK, NetGenuine, NEW d \in net, NEW e \in net, d.src = e.src, Ends(d), Ends(e)
    PROVE  d = e
<1>. DEFINE n == sent[d.src].size
            m == sent[d.src].number
<1>1. d.frameSize = n /\ e.frameSize = n /\ n \in Nat
  BY ArrivalFacts
<1>2. d \in Datagrams(d.src, m, n) /\ e \in Datagrams(d.src, m, n)
  BY DEF NetGenuine
<1>3. PICK f \in Fragments(n) : d = [src |-> d.src, number |-> m, offset |-> f.offset,
                                     len |-> f.len, frameSize |-> f.frameSize]
  BY <1>2 DEF Datagrams
<1>4. PICK g \in Fragments(n) : e = [src |-> d.src, number |-> m, offset |-> g.offset,
                                     len |-> g.len, frameSize |-> g.frameSize]
  BY <1>2 DEF Datagrams
<1>5. f.offset = d.offset /\ f.len = d.len /\ g.offset = e.offset /\ g.len = e.len
  BY <1>3, <1>4
<1>6. f = g
  BY <1>1, <1>5, OneLastFragment DEF Ends
<1>. QED
  BY <1>3, <1>4, <1>6

(* An image that is completed ends with the bytes of the datagram that completed it. *)
LEMMA CompletedSource ==
    ASSUME TypeOK, IInv, NEW d \in net, Fits(d), Completes(d)
    PROVE  LastSource(Appended(d)) = d.src /\ Ends(d)
<1>. DEFINE p == PacketAt(d)
            b == Bytes(d.src, d.offset, d.len)
<1>1. /\ d.offset \in Nat /\ d.len \in Nat /\ d.len > 0 /\ d.src \in Nat
  BY ArrivalFacts DEF IInv
<1>2. /\ p \in Seq(Byte) /\ b \in Seq(Byte) /\ Appended(d) = p \o b
      /\ Len(p \o b) = d.offset + d.len
  BY AppendedFacts
<1>3. /\ Len(b) = d.len
      /\ \A k \in 1 .. d.len : b[k] = [src |-> d.src, pos |-> d.offset + k - 1]
  BY <1>1, BytesFacts
<1>. HIDE DEF p, b
<1>4. /\ Len(p) \in Nat /\ Len(p) + Len(b) = d.offset + d.len
      /\ \A k \in 1 .. Len(p) + Len(b) :
            (p \o b)[k] = IF k <= Len(p) THEN p[k] ELSE b[k - Len(p)]
  BY <1>2, ConcatProperties, LenProperties
<1>. DEFINE last == d.offset + d.len
<1>5. (p \o b)[last].src = d.src
  <2>1. Len(p) = d.offset
    BY <1>1, <1>3, <1>4
  <2>2. last \in 1 .. Len(p) + Len(b) /\ ~(last <= Len(p)) /\ last - Len(p) = d.len
    BY <2>1, <1>1, <1>3
  <2>. HIDE DEF last
  <2>3. (p \o b)[last] = b[last - Len(p)]
    BY <2>2, <1>4
  <2>4. b[d.len].src = d.src
    <3>1. d.len \in 1 .. d.len
      BY <1>1
    <3>2. b[d.len] = [src |-> d.src, pos |-> d.offset + d.len - 1]
      BY <1>3, <3>1
    <3>. QED
      BY <3>2
  <2>5. (p \o b)[last] = b[d.len]
    BY <2>2, <2>3
  <2>. QED
    BY <2>4, <2>5
<1>. QED
  BY <1>1, <1>2, <1>3, <1>5, CompletedSize DEF LastSource, Ends

LEMMA LastSourceSent ==
    ASSUME TypeOK, Placed, NEW j \in 1 .. Len(assembled)
    PROVE  /\ LastSource(assembled[j]) \in 1 .. Len(sent) /\ LastSource(assembled[j]) \in Nat
           /\ Len(sent) \in Nat
<1>. DEFINE f == assembled[j]
<1>1. Len(f) > 0 /\ PlacedIn(f, Len(f))
  BY DEF Placed
<1>2. assembled \in Seq(Seq(Byte))
  BY ConcatProperties DEF TypeOK, assembled
<1>3. Len(f) \in Nat
  BY <1>2
<1>4. f[Len(f)].src \in DOMAIN sent
  BY <1>1, <1>3 DEF PlacedIn
<1>. QED
  BY <1>4, SentTypes DEF LastSource

LEMMA InitOnce == Init => OnceInv
<1>. SUFFICES ASSUME Init PROVE OnceInv
  OBVIOUS
<1>1. assembled = <<>> /\ Len(assembled) = 0 /\ DOMAIN assembled = {}
  BY DEF Init, assembled
<1>. QED
  BY <1>1 DEF OnceInv, AtMostOnce, InOrder, Delivered

(* A step that completes no image keeps the invariant: what it puts on the network is of *)
(* a newer image than any that was collected.                                            *)
LEMMA OnceStays ==
    ASSUME TypeOK, Placed, OnceInv, [Next]_vars, assembled' = assembled
    PROVE  OnceInv'
<1>1. network' = network
  BY DEF Next, vars, netVars, rcvVars, SendFrame, SenderRestart, Lose, RejectForeign, addData,
         RejectStray, RejectSize, RejectGap, AppendFragment, CompleteFrame, Arrives, TakeFrame
<1>2. AtMostOnce' /\ InOrder'
  BY <1>1 DEF OnceInv, AtMostOnce, InOrder, LastSource, Duplicating, Reordering
<1>3. \A e \in net' : e \in net \/ e.src = Len(sent) + 1
  <2>1. ASSUME NEW size \in FrameSizes, SendFrame(size)
        PROVE  \A e \in net' : e \in net \/ e.src = Len(sent) + 1
    BY <2>1, DatagramsFacts, VideoAssumption DEF SendFrame
  <2>. QED
    BY <2>1 DEF Next, vars, netVars, rcvVars, SenderRestart, Lose, RejectForeign, addData,
         RejectStray, RejectSize, RejectGap, AppendFragment, CompleteFrame, Arrives, TakeFrame
<1>4. ASSUME ~Duplicating, NEW j \in 1 .. Len(assembled), NEW e \in net'
      PROVE  /\ e.src = LastSource(assembled[j]) => ~Ends(e)
             /\ ~Reordering => LastSource(assembled[j]) <= e.src
  <2>1. CASE e \in net
    BY <2>1, <1>4 DEF OnceInv, Delivered, EndGone, NoneOlder
  <2>2. CASE e.src = Len(sent) + 1
    BY <2>2, LastSourceSent
  <2>. QED
    BY <2>1, <2>2, <1>3
<1>5. Delivered'
  <2>. SUFFICES ASSUME ~Duplicating
               PROVE  /\ \A j \in 1 .. Len(assembled) : EndGone(j)'
                      /\ ~Reordering => \A j \in 1 .. Len(assembled) : NoneOlder(j)'
    BY <1>1 DEF Delivered, Duplicating, Reordering
  <2>1. \A j \in 1 .. Len(assembled) : EndGone(j)'
    BY <1>4 DEF EndGone, LastSource, Ends
  <2>2. ~Reordering => \A j \in 1 .. Len(assembled) : NoneOlder(j)'
    BY <1>4 DEF NoneOlder, LastSource
  <2>. QED
    BY <2>1, <2>2
<1>. QED
  BY <1>2, <1>5 DEF OnceInv

LEMMA OnceCompleted ==
    ASSUME TypeOK, IInv, Placed, OnceInv, NEW d \in net, CompleteFrame(d)
    PROVE  OnceInv'
<1>. DEFINE n == Len(assembled)
            src(j) == LastSource(assembled'[j])
<1>1. /\ Fits(d) /\ Completes(d) /\ network' = network
      /\ ~Duplicating => net' = net \ {d}
      /\ ~Reordering => \A e \in net \ {d} : Before(d, e)
  BY DEF CompleteFrame, Arrives
<1>2. /\ n \in Nat /\ Len(assembled') = n + 1
      /\ \A j \in 1 .. n : assembled'[j] = assembled[j]
      /\ assembled'[n + 1] = Appended(d)
  BY CompleteAssembled
<1>3. /\ \A j \in 1 .. n : src(j) = LastSource(assembled[j]) /\ src(j) \in Nat
      /\ src(n + 1) = d.src /\ Ends(d) /\ d.src \in Nat
  BY <1>1, <1>2, CompletedSource, LastSourceSent, ArrivalFacts DEF IInv
<1>4. DOMAIN assembled = 1 .. n /\ DOMAIN assembled' = 1 .. n + 1
  <2>1. m_frames' \in Seq(Seq(Byte)) /\ taken' \in Seq(Seq(Byte))
    BY <1>1, AppendedFacts DEF TypeOK, CompleteFrame, Arrives
  <2>2. assembled \in Seq(Seq(Byte)) /\ assembled' \in Seq(Seq(Byte))
    BY <2>1, ConcatProperties DEF TypeOK, assembled
  <2>. QED
    BY <2>2, <1>2
<1>. HIDE DEF src
<1>5. ASSUME ~Duplicating PROVE \A j \in 1 .. n : src(j) # d.src
  BY <1>3, <1>5 DEF OnceInv, Delivered, EndGone
<1>6. ASSUME ~Duplicating, ~Reordering PROVE \A j \in 1 .. n : src(j) < d.src
  BY <1>3, <1>5, <1>6 DEF OnceInv, Delivered, NoneOlder
<1>7. AtMostOnce'
  <2>. SUFFICES ASSUME ~Duplicating, NEW j \in 1 .. n + 1, NEW k \in 1 .. n + 1, j # k
               PROVE  src(j) # src(k)
    BY <1>1, <1>4 DEF AtMostOnce, Duplicating, LastSource, src
  <2>1. CASE j \in 1 .. n /\ k \in 1 .. n
    BY <2>1, <1>3, <1>4 DEF OnceInv, AtMostOnce
  <2>2. CASE j = n + 1 \/ k = n + 1
    BY <2>2, <1>2, <1>3, <1>5
  <2>. QED
    BY <2>1, <2>2, <1>2
<1>8. InOrder'
  <2>. SUFFICES ASSUME ~Duplicating, ~Reordering, NEW j \in 1 .. n + 1, NEW k \in 1 .. n + 1, j < k
               PROVE  src(j) < src(k)
    BY <1>1, <1>4 DEF InOrder, Duplicating, Reordering, LastSource, src
  <2>1. CASE k \in 1 .. n
    BY <2>1, <1>2, <1>3, <1>4 DEF OnceInv, InOrder
  <2>2. CASE k = n + 1
    BY <2>2, <1>2, <1>3, <1>6
  <2>. QED
    BY <2>1, <2>2, <1>2
<1>9. ASSUME ~Duplicating, NEW j \in 1 .. n + 1, NEW e \in net'
      PROVE  /\ e.src = src(j) => ~Ends(e)
             /\ ~Reordering => src(j) <= e.src
  <2>1. e \in net /\ e # d
    BY <1>1, <1>9
  <2>2. CASE j \in 1 .. n
    BY <2>1, <2>2, <1>3, <1>9 DEF OnceInv, Delivered, EndGone, NoneOlder
  <2>3. CASE j = n + 1
    <3>1. e.src = d.src => ~Ends(e)
      BY <2>1, <1>3, OneEnd DEF IInv
    <3>2. ~Reordering => d.src <= e.src
      <4>1. e.src \in Nat
        BY <2>1, ArrivalFacts DEF IInv
      <4>. QED
        BY <4>1, <2>1, <1>1, <1>3 DEF Before
    <3>. QED
      BY <2>3, <3>1, <3>2, <1>3
  <2>. QED
    BY <2>2, <2>3, <1>2
<1>10. Delivered'
  <2>. SUFFICES ASSUME ~Duplicating
               PROVE  /\ \A j \in 1 .. n + 1 : EndGone(j)'
                      /\ ~Reordering => \A j \in 1 .. n + 1 : NoneOlder(j)'
    BY <1>1, <1>2 DEF Delivered, Duplicating, Reordering
  <2>1. \A j \in 1 .. n + 1 : EndGone(j)'
    BY <1>9 DEF EndGone, LastSource, Ends, src
  <2>2. ~Reordering => \A j \in 1 .. n + 1 : NoneOlder(j)'
    BY <1>9 DEF NoneOlder, LastSource, src
  <2>. QED
    BY <2>1, <2>2
<1>. QED
  BY <1>7, <1>8, <1>10 DEF OnceInv

LEMMA SpecOnce == Spec => [](Inv /\ OnceInv)
<1>1. Inv /\ OnceInv /\ [Next]_vars => (Inv /\ OnceInv)'
  <2>. SUFFICES ASSUME Inv, OnceInv, [Next]_vars PROVE Inv' /\ OnceInv'
    OBVIOUS
  <2>1. TypeOK /\ IInv /\ Placed
    BY DEF Inv
  <2>2. CASE \E d \in net : CompleteFrame(d)
    BY <2>1, <2>2, OnceCompleted, NextInv
  <2>3. CASE ~\E d \in net : CompleteFrame(d)
    <3>1. ASSUME NEW d \in net, AppendFragment(d) PROVE assembled' = assembled
      BY <3>1 DEF AppendFragment, Arrives, assembled
    <3>2. Quiet => assembled' = assembled
      BY DEF Quiet, assembled
    <3>3. assembled' = assembled
      BY <2>1, <2>3, <3>1, <3>2, StepKinds, TakeAssembled
    <3>. QED
      BY <2>1, <3>3, OnceStays, NextInv
  <2>. QED
    BY <2>2, <2>3
<1>. QED
  BY <1>1, InitInv, InitOnce, PTL DEF Spec

(* Without copies of datagrams addData delivers no image twice, whatever is lost, reordered *)
(* or numbered again by a restarted sender (videodata.cpp:142-190).                         *)
THEOREM VideoDataAtMostOnce == Spec => []AtMostOnce
  BY SpecOnce, PTL DEF OnceInv

(* If the network keeps the order, the images are in the order they were sent.              *)
THEOREM VideoDataInOrder == Spec => []InOrder
  BY SpecOnce, PTL DEF OnceInv
-----------------------------------------------------------------------------
(* A clean network *)

(* Each datagram on its way follows another one on its way, or begins an image, or is the    *)
(* oldest and the one that the receiver waits for.                                           *)
Follows(e, d) == d.src = e.src /\ d.offset + d.len = e.offset
Oldest(e) == \A f \in net \ {e} : Before(e, f)
Awaited(e) ==
    Oldest(e) /\ m_currentID = e.number /\ m_FrameSize = e.frameSize /\ Len(m_packet) = e.offset
InTurn == \A e \in net : e.offset = 0 \/ (\E d \in net : Follows(e, d)) \/ Awaited(e)
CleanInv == Clean => m_lost_packet = extra /\ InTurn

(* Two datagrams of one image hold fragments of it. *)
LEMMA SameImage ==
    ASSUME TypeOK, NetGenuine, NEW d \in net, NEW e \in net, d.src = e.src
    PROVE  /\ d.offset < e.offset => d.offset + d.len <= e.offset
           /\ d.offset = e.offset => d = e
           /\ d.number = e.number /\ d.frameSize = e.frameSize
<1>. DEFINE n == sent[d.src].size
            m == sent[d.src].number
<1>1. /\ n \in Nat /\ d.number = m /\ e.number = m /\ d.frameSize = n /\ e.frameSize = n
  BY ArrivalFacts
<1>2. d \in Datagrams(d.src, m, n) /\ e \in Datagrams(d.src, m, n)
  BY DEF NetGenuine
<1>3. PICK f \in Fragments(n) : d = [src |-> d.src, number |-> m, offset |-> f.offset,
                                     len |-> f.len, frameSize |-> f.frameSize]
  BY <1>2 DEF Datagrams
<1>4. PICK g \in Fragments(n) : e = [src |-> d.src, number |-> m, offset |-> g.offset,
                                     len |-> g.len, frameSize |-> g.frameSize]
  BY <1>2 DEF Datagrams
<1>5. f.offset = d.offset /\ f.len = d.len /\ g.offset = e.offset /\ g.len = e.len
  BY <1>3, <1>4
<1>6. /\ f.offset < g.offset => f.offset + f.len <= g.offset
      /\ f.offset = g.offset => f = g
  BY <1>1, FragmentsApart
<1>. QED
  BY <1>1, <1>3, <1>4, <1>5, <1>6

(* The oldest datagram is the one that addData takes without a complaint. *)
LEMMA OldestFits ==
    ASSUME TypeOK, NetGenuine, InTurn, NEW d \in net, Oldest(d)
    PROVE  Fits(d)
<1>1. /\ d.offset \in Nat /\ d.src \in Nat /\ Len(<<>>) = 0
  BY ArrivalFacts
<1>2. CASE d.offset = 0
  BY <1>1, <1>2 DEF Fits, Expected, Stray, Starts, FrameSizeAt, PacketAt
<1>3. CASE \E e \in net : Follows(d, e)
  <2>1. PICK e \in net : Follows(d, e)
    BY <1>3
  <2>2. e.len \in Nat /\ e.len > 0 /\ e.offset \in Nat /\ e.src \in Nat
    BY ArrivalFacts
  <2>3. e # d /\ ~Before(d, e)
    BY <1>1, <2>1, <2>2 DEF Follows, Before
  <2>. QED
    BY <2>3 DEF Oldest
<1>4. CASE d.offset # 0 /\ Awaited(d)
  BY <1>1, <1>4 DEF Awaited, Fits, Expected, Stray, Starts, FrameSizeAt, PacketAt
<1>. QED
  BY <1>2, <1>3, <1>4 DEF InTurn

(* The datagram behind the one that was taken is the one the receiver waits for. *)
LEMMA TurnPasses ==
    ASSUME TypeOK, IInv, InTurn, NEW d \in net, Oldest(d), net' = net \ {d},
           AppendFragment(d) \/ CompleteFrame(d)
    PROVE  InTurn'
<1>0. TypeOK /\ NetGenuine
  BY DEF IInv
<1>. SUFFICES ASSUME NEW e \in net', e.offset # 0, ~\E f \in net' : Follows(e, f)
             PROVE  Awaited(e)'
  BY DEF InTurn, Follows
<1>1. e \in net /\ e # d /\ Before(d, e)
  BY DEF Oldest
<1>2. /\ d.offset \in Nat /\ d.len \in Nat /\ d.src \in Nat /\ d.len > 0
      /\ e.offset \in Nat /\ e.len \in Nat /\ e.src \in Nat /\ e.len > 0
      /\ e.offset + e.len <= e.frameSize /\ e.frameSize \in Nat
  BY <1>0, <1>1, ArrivalFacts
<1>3. ~Awaited(e)
  BY <1>1, <1>2 DEF Awaited, Oldest, Before
<1>4. Follows(e, d)
  BY <1>1, <1>3 DEF InTurn
<1>5. d.number = e.number /\ d.frameSize = e.frameSize
  BY <1>0, <1>1, <1>4, SameImage DEF Follows
<1>6. ASSUME NEW f \in net' \ {e} PROVE Before(e, f)
  <2>1. f \in net /\ f # d /\ Before(d, f) /\ f.src \in Nat /\ f.offset \in Nat
    BY <1>0, ArrivalFacts DEF Oldest
  <2>2. CASE d.src < f.src
    BY <2>2, <1>4 DEF Before, Follows
  <2>3. CASE d.src = f.src /\ d.offset < f.offset
    <3>1. d.offset + d.len <= f.offset
      BY <1>0, <2>1, <2>3, SameImage
    <3>2. f.offset # e.offset
      BY <1>0, <1>1, <1>4, <1>6, <2>1, <2>3, SameImage DEF Follows
    <3>. QED
      BY <1>2, <1>4, <2>1, <2>3, <3>1, <3>2 DEF Before, Follows
  <2>. QED
    BY <2>1, <2>2, <2>3 DEF Before
<1>7. ~CompleteFrame(d)
  <2>1. ASSUME CompleteFrame(d) PROVE Ends(d)
    BY <2>1, CompletedSource DEF CompleteFrame
  <2>. QED
    BY <2>1, <1>2, <1>4, <1>5 DEF Ends, Follows
<1>8. /\ m_currentID' = d.number /\ m_FrameSize' = d.frameSize /\ m_packet' = Appended(d) /\ Fits(d)
  BY <1>7 DEF AppendFragment
<1>9. Len(m_packet') = d.offset + d.len
  BY <1>8, AppendedFacts
<1>. QED
  BY <1>4, <1>5, <1>6, <1>8, <1>9 DEF Awaited, Oldest, Follows, Before

LEMMA TurnSent ==
    ASSUME TypeOK, NetGenuine, InTurn, NEW size \in FrameSizes, SendFrame(size)
    PROVE  InTurn'
<1>. DEFINE s == Len(sent) + 1
            new == Datagrams(s, m_frame_number, size)
<1>1. /\ net' = net \cup new /\ size \in Nat
      /\ UNCHANGED <<m_currentID, m_FrameSize, m_packet>>
  BY VideoAssumption DEF SendFrame, rcvVars
<1>2. \A d \in net : d.src \in 1 .. Len(sent)
  BY ArrivalFacts, SentTypes
<1>3. \A d \in new : d.src = s
  BY <1>1, DatagramsFacts
<1>4. ASSUME NEW e \in new, e.offset # 0 PROVE \E d \in new : Follows(e, d)
  <2>1. PICK f \in Fragments(size) :
            e = [src |-> s, number |-> m_frame_number, offset |-> f.offset, len |-> f.len,
                 frameSize |-> f.frameSize]
    BY DEF Datagrams
  <2>2. PICK g \in Fragments(size) : g.offset + g.len = f.offset
    BY <1>1, <1>4, <2>1, FragmentBefore
  <2>. DEFINE d == [src |-> s, number |-> m_frame_number, offset |-> g.offset, len |-> g.len,
                    frameSize |-> g.frameSize]
  <2>3. d \in new
    BY DEF Datagrams
  <2>4. Follows(e, d)
    BY <2>1, <2>2 DEF Follows
  <2>. QED
    BY <2>3, <2>4
<1>. HIDE DEF new
<1>5. ASSUME NEW e \in net, Awaited(e) PROVE Awaited(e)'
  <2>1. \A f \in new : Before(e, f)
    BY <1>2, <1>3, SentTypes DEF Before
  <2>. QED
    BY <1>1, <1>5, <2>1 DEF Awaited, Oldest, Before
<1>. QED
  BY <1>1, <1>4, <1>5 DEF InTurn, Follows

LEMMA CleanStays ==
    ASSUME TypeOK, IInv, CleanInv, [Next]_vars
    PROVE  CleanInv'
<1>. SUFFICES ASSUME Clean' PROVE (m_lost_packet = extra)' /\ InTurn'
  BY DEF CleanInv
<1>0. TypeOK /\ NetGenuine /\ extra \in Nat
  BY VideoAssumption DEF IInv, TypeOK
<1>1. network' = network
  BY DEF Next, vars, netVars, rcvVars, SendFrame, SenderRestart, Lose, RejectForeign, addData,
         RejectStray, RejectSize, RejectGap, AppendFragment, CompleteFrame, Arrives, TakeFrame
<1>2. Clean /\ m_lost_packet = extra /\ InTurn
  BY <1>1 DEF CleanInv, Clean, Lossy, Duplicating, Reordering
<1>3. ASSUME NEW size \in FrameSizes, SendFrame(size) PROVE (m_lost_packet = extra)' /\ InTurn'
  BY <1>0, <1>2, <1>3, TurnSent DEF SendFrame, rcvVars
<1>4. ASSUME NEW d \in net, addData(d) PROVE (m_lost_packet = extra)' /\ InTurn'
  <2>1. Arrives(d)
    BY <1>4 DEF addData, RejectStray, RejectSize, RejectGap, AppendFragment, CompleteFrame
  <2>2. Oldest(d) /\ net' = net \ {d} /\ extra' = extra
    BY <1>2, <2>1 DEF Arrives, Clean, Oldest
  <2>3. Fits(d)
    BY <1>0, <1>2, <2>2, OldestFits
  <2>4. AppendFragment(d) \/ CompleteFrame(d)
    BY <1>4, <2>3 DEF addData, RejectStray, RejectSize, RejectGap, Fits, Expected
  <2>5. m_lost_packet' = m_lost_packet
    BY <2>4 DEF AppendFragment, CompleteFrame
  <2>. QED
    BY <1>0, <1>2, <2>2, <2>4, <2>5, TurnPasses
<1>5. ASSUME NEW d \in net, Lose(d) PROVE FALSE
  BY <1>2, <1>5 DEF Lose, Clean
<1>6. ASSUME UNCHANGED <<net, m_currentID, m_FrameSize, m_packet>> PROVE InTurn'
  BY <1>2, <1>6 DEF InTurn, Awaited, Oldest, Before, Follows
<1>7. CASE RejectForeign
  BY <1>0, <1>2, <1>6, <1>7 DEF RejectForeign
<1>8. CASE SenderRestart \/ TakeFrame \/ UNCHANGED vars
  BY <1>2, <1>6, <1>8 DEF SenderRestart, TakeFrame, vars, netVars, rcvVars
<1>. QED
  BY <1>3, <1>4, <1>5, <1>7, <1>8 DEF Next

(* On a network without loss, copies and reordering addData rejects nothing but foreign        *)
(* datagrams, for images of every size, those that are sent cut short and the garbage in the    *)
(* fields of a new VideoData included (videodata.cpp:66-75, 110-166).                           *)
THEOREM VideoDataRejectsNothing == Spec => []CleanNetworkRejectsNothing
<1>1. Init => CleanInv
  BY DEF Init, CleanInv, InTurn
<1>2. Inv /\ CleanInv /\ [Next]_vars => CleanInv'
  BY CleanStays DEF Inv
<1>3. CleanInv => CleanNetworkRejectsNothing
  BY DEF CleanInv, CleanNetworkRejectsNothing
<1>. QED
  BY <1>1, <1>2, <1>3, SpecInv, PTL DEF Spec
-----------------------------------------------------------------------------
(* The application gets what FrameChannel promises *)

LEMMA IsAppend ==
    ASSUME NEW S, NEW q \in Seq(S), NEW e \in S, NEW p \in Seq(S),
           Len(p) = Len(q) + 1, \A k \in 1 .. Len(q) : p[k] = q[k], p[Len(q) + 1] = e
    PROVE  p = Append(q, e)
<1>1. /\ Append(q, e) \in Seq(S) /\ Len(Append(q, e)) = Len(q) + 1
      /\ \A k \in 1 .. Len(q) : Append(q, e)[k] = q[k]
      /\ Append(q, e)[Len(q) + 1] = e
      /\ Len(q) \in Nat
  BY AppendProperties
<1>2. ASSUME NEW k \in 1 .. Len(p) PROVE p[k] = Append(q, e)[k]
  <2>1. k \in 1 .. Len(q) \/ k = Len(q) + 1
    BY <1>1
  <2>. QED
    BY <1>1, <2>1
<1>. QED
  BY <1>1, <1>2, SeqEqual

(* The mapped sequences of the refinement. *)
sizesOf == [s \in DOMAIN sent |-> sent[s].size]
receivedOf == [j \in DOMAIN taken |-> IndexOf(taken[j])]

LEMMA InitChannel == Init => Channel!Init
<1>. SUFFICES ASSUME Init PROVE Channel!Init
  OBVIOUS
<1>1. sizesOf = <<>> /\ receivedOf = <<>>
  BY DEF Init, sizesOf, receivedOf
<1>. QED
  BY <1>1 DEF Channel!Init, sizesOf, receivedOf

(* The index of an image stays what it is when more images are sent. *)
LEMMA IndexStays ==
    ASSUME TypeOK, [Next]_vars, NEW f, IsWhole(f)
    PROVE  /\ IndexOf(f) = f[1].src
           /\ \E s \in DOMAIN sent' : f = Whole(s)'
<1>1. PICK s \in DOMAIN sent : f = Whole(s)
  BY DEF IsWhole
<1>. QED
  BY <1>1, WholeStays DEF IndexOf

(* The source of a whole image is its index. *)
LEMMA IndexOfWhole ==
    ASSUME TypeOK, NEW f, IsWhole(f)
    PROVE  IndexOf(f) = f[1].src /\ f[1].src \in DOMAIN sent
<1>1. PICK s \in DOMAIN sent : f = Whole(s)
  BY DEF IsWhole
<1>2. s \in Nat /\ sent[s].size \in Nat \ {0}
  BY SentTypes
<1>3. f = Bytes(s, 0, sent[s].size) /\ 1 \in 1 .. sent[s].size
  BY <1>1, <1>2 DEF Whole
<1>4. f[1] = [src |-> s, pos |-> 0 + 1 - 1]
  BY <1>2, <1>3, BytesFacts
<1>. QED
  BY <1>4 DEF IndexOf

LEMMA NextChannel ==
    ASSUME TypeOK, TypeOK', Intact, ~Restarting, Len(sent) < UIntMod, [Next]_vars
    PROVE  [Channel!Next]_Channel!chan
<1>0. /\ Len(sent) \in Nat /\ DOMAIN sent = 1 .. Len(sent)
      /\ \A j \in 1 .. Len(assembled) : IsWhole(assembled[j])
  BY SentTypes DEF Intact
<1>1. /\ m_frames \in Seq(Seq(Byte)) /\ taken \in Seq(Seq(Byte))
      /\ Len(assembled) = Len(taken) + Len(m_frames)
      /\ \A i \in 1 .. Len(taken) + Len(m_frames) :
            assembled[i] = IF i <= Len(taken) THEN taken[i] ELSE m_frames[i - Len(taken)]
      /\ Len(taken) \in Nat /\ Len(m_frames) \in Nat /\ DOMAIN taken = 1 .. Len(taken)
  BY ConcatProperties, LenProperties DEF TypeOK, assembled
<1>2. \A j \in 1 .. Len(taken) : IsWhole(taken[j])
  <2>. TAKE j \in 1 .. Len(taken)
  <2>1. j \in 1 .. Len(taken) + Len(m_frames) /\ j <= Len(taken)
    BY <1>1
  <2>. QED
    BY <1>0, <1>1, <2>1
<1>3. m_frames # <<>> => IsWhole(Head(m_frames))
  <2>. SUFFICES ASSUME m_frames # <<>> PROVE IsWhole(Head(m_frames))
    OBVIOUS
  <2>1. /\ Len(taken) + 1 \in 1 .. Len(taken) + Len(m_frames)
        /\ ~(Len(taken) + 1 <= Len(taken)) /\ (Len(taken) + 1) - Len(taken) = 1
        /\ Head(m_frames) = m_frames[1]
    BY <1>1
  <2>2. assembled[Len(taken) + 1] = m_frames[1]
    BY <1>1, <2>1
  <2>. QED
    BY <1>0, <1>1, <2>1, <2>2
<1>4. ASSUME taken' = taken PROVE receivedOf' = receivedOf
  <2>1. \A j \in DOMAIN taken : IndexOf(taken[j])' = IndexOf(taken[j])
    <3>. TAKE j \in DOMAIN taken
    <3>1. IsWhole(taken[j])
      BY <1>1, <1>2
    <3>2. IndexOf(taken[j]) = taken[j][1].src /\ \E s \in DOMAIN sent' : taken[j] = Whole(s)'
      BY <3>1, IndexStays
    <3>. QED
      BY <1>4, <3>2 DEF IndexOf, IsWhole
  <2>. QED
    BY <1>4, <2>1 DEF receivedOf
<1>5. ASSUME NEW size \in FrameSizes, SendFrame(size) PROVE Channel!Send
  <2>. DEFINE image == [number |-> m_frame_number, size |-> size]
  <2>1. /\ sent \in Seq([number : 0 .. UIntMod - 1, size : Nat \ {0}])
        /\ sent' = Append(sent, image) /\ taken' = taken
    BY <1>5 DEF TypeOK, SendFrame
  <2>2. /\ Len(sent') = Len(sent) + 1 /\ DOMAIN sent' = 1 .. Len(sent) + 1
        /\ sent'[Len(sent) + 1] = image
        /\ \A s \in 1 .. Len(sent) : sent'[s] = sent[s]
    BY <2>1
  <2>3. sizesOf \in Seq(Nat) /\ Len(sizesOf) = Len(sent)
        /\ \A s \in 1 .. Len(sent) : sizesOf[s] = sent[s].size
    BY <1>0, SentTypes DEF sizesOf
  <2>4. sizesOf' = Append(sizesOf, size)
    <3>1. sizesOf' = [s \in 1 .. Len(sent) + 1 |-> sent'[s].size]
      BY <2>2 DEF sizesOf
    <3>2. \A s \in 1 .. Len(sent) + 1 : sent'[s].size \in Nat
      BY <1>0, <2>2, SentTypes, VideoAssumption
    <3>3. /\ sizesOf' \in Seq(Nat) /\ Len(sizesOf') = Len(sent) + 1
          /\ \A s \in 1 .. Len(sent) + 1 : sizesOf'[s] = sent'[s].size
      BY <1>0, <3>1, <3>2
    <3>4. /\ Len(sizesOf') = Len(sizesOf) + 1
          /\ \A s \in 1 .. Len(sizesOf) : sizesOf'[s] = sizesOf[s]
          /\ sizesOf'[Len(sizesOf) + 1] = size
      <4>1. Len(sent) \in Nat /\ image.size = size
        BY <1>0, <2>1
      <4>2. Len(sizesOf) = Len(sent) /\ Len(sizesOf') = Len(sent) + 1
        BY <2>3, <3>3
      <4>3. ASSUME NEW s \in 1 .. Len(sizesOf) PROVE sizesOf'[s] = sizesOf[s]
        <5>1. s \in 1 .. Len(sent) /\ s \in 1 .. Len(sent) + 1
          BY <4>1, <4>2
        <5>2. sizesOf'[s] = sent'[s].size /\ sizesOf[s] = sent[s].size /\ sent'[s] = sent[s]
          BY <5>1, <2>2, <2>3, <3>3
        <5>. QED
          BY <5>2
      <4>4. sizesOf'[Len(sizesOf) + 1] = size
        <5>1. Len(sizesOf) + 1 = Len(sent) + 1 /\ Len(sent) + 1 \in 1 .. Len(sent) + 1
          BY <4>1, <4>2
        <5>2. sizesOf'[Len(sent) + 1] = sent'[Len(sent) + 1].size
          BY <5>1, <3>3
        <5>. QED
          BY <5>1, <5>2, <4>1, <2>2
      <4>. QED
        BY <4>2, <4>3, <4>4
    <3>5. size \in Nat
      BY VideoAssumption
    <3>. QED
      BY <2>3, <3>3, <3>4, <3>5, IsAppend
  <2>5. receivedOf' = receivedOf
    BY <1>4, <2>1
  <2>. QED
    BY <2>4, <2>5 DEF Channel!Send, sizesOf, receivedOf
<1>6. CASE TakeFrame
  <2>1. /\ m_frames # <<>> /\ taken' = Append(taken, Head(m_frames)) /\ sent' = sent
    BY <1>6 DEF TakeFrame, getFrame, removeFrame, netVars
  <2>2. /\ IndexOf(Head(m_frames)) \in DOMAIN sent
        /\ Head(m_frames) \in Seq(Byte)
    BY <1>1, <1>3, <2>1, IndexOfWhole, HeadTailProperties
  <2>3. /\ Len(taken') = Len(taken) + 1 /\ DOMAIN taken' = 1 .. Len(taken) + 1
        /\ \A j \in 1 .. Len(taken) : taken'[j] = taken[j]
        /\ taken'[Len(taken) + 1] = Head(m_frames)
    BY <1>1, <2>1, <2>2
  <2>4. \A j \in 1 .. Len(taken) : IndexOf(taken[j]) \in Nat
    BY <1>0, <1>2, IndexOfWhole
  <2>5. receivedOf \in Seq(Nat) /\ Len(receivedOf) = Len(taken)
        /\ \A j \in 1 .. Len(taken) : receivedOf[j] = IndexOf(taken[j])
    <3>1. receivedOf = [j \in 1 .. Len(taken) |-> IndexOf(taken[j])]
      BY <1>1 DEF receivedOf
    <3>. QED
      BY <1>1, <2>4, <3>1
  <2>6. receivedOf' = Append(receivedOf, IndexOf(Head(m_frames)))
    <3>1. receivedOf' = [j \in 1 .. Len(taken) + 1 |-> IndexOf(taken'[j])]
      BY <2>1, <2>3 DEF receivedOf, IndexOf, IsWhole, Whole, Bytes
    <3>2. IndexOf(Head(m_frames)) \in Nat
      BY <1>0, <2>2
    <3>3. \A j \in 1 .. Len(taken) + 1 :
              IndexOf(taken'[j]) = IF j = Len(taken) + 1 THEN IndexOf(Head(m_frames))
                                   ELSE IndexOf(taken[j])
      <4>. TAKE j \in 1 .. Len(taken) + 1
      <4>1. j \in 1 .. Len(taken) \/ j = Len(taken) + 1
        BY <1>1
      <4>2. j \in 1 .. Len(taken) => j # Len(taken) + 1
        BY <1>1
      <4>. QED
        BY <2>3, <4>1, <4>2
    <3>4. \A j \in 1 .. Len(taken) + 1 : IndexOf(taken'[j]) \in Nat
      <4>. TAKE j \in 1 .. Len(taken) + 1
      <4>1. j \in 1 .. Len(taken) \/ j = Len(taken) + 1
        BY <1>1
      <4>. QED
        BY <2>3, <2>4, <3>2, <4>1
    <3>5. /\ receivedOf' \in Seq(Nat) /\ Len(receivedOf') = Len(taken) + 1
          /\ \A j \in 1 .. Len(taken) + 1 : receivedOf'[j] = IndexOf(taken'[j])
      BY <1>1, <3>1, <3>4
    <3>6. /\ \A j \in 1 .. Len(receivedOf) : receivedOf'[j] = receivedOf[j]
          /\ receivedOf'[Len(receivedOf) + 1] = IndexOf(Head(m_frames))
      <4>1. \A j \in 1 .. Len(taken) : j \in 1 .. Len(taken) + 1 /\ j # Len(taken) + 1
        BY <1>1
      <4>2. Len(taken) + 1 \in 1 .. Len(taken) + 1
        BY <1>1
      <4>. QED
        BY <2>5, <3>3, <3>5, <4>1, <4>2
    <3>. QED
      BY <2>5, <3>2, <3>5, <3>6, IsAppend
  <2>7. sizesOf' = sizesOf /\ DOMAIN sizesOf = DOMAIN sent
    BY <2>1 DEF sizesOf
  <2>8. Channel!Deliver
    BY <2>2, <2>6, <2>7 DEF Channel!Deliver, sizesOf, receivedOf
  <2>. QED
    BY <2>8 DEF Channel!Next
<1>7. ASSUME sent' = sent, taken' = taken PROVE UNCHANGED Channel!chan
  <2>1. sizesOf' = sizesOf /\ receivedOf' = receivedOf
    BY <1>4, <1>7 DEF sizesOf
  <2>. QED
    BY <2>1 DEF Channel!chan, sizesOf, receivedOf
<1>8. ASSUME NEW d \in net, addData(d) PROVE sent' = sent /\ taken' = taken
  BY <1>8 DEF addData, RejectStray, RejectSize, RejectGap, GivenUp, AppendFragment, CompleteFrame,
              Arrives
<1>9. [Next]_vars => \/ sent' = sent /\ taken' = taken
                     \/ \E size \in FrameSizes : SendFrame(size)
                     \/ TakeFrame
  BY <1>8 DEF Next, vars, netVars, SenderRestart, Lose, RejectForeign
<1>. QED
  BY <1>5, <1>6, <1>7, <1>9 DEF Channel!Next

LEMMA SentBounded == Init => Len(sent) <= MaxFrames
  BY VideoAssumption DEF Init

LEMMA SentStaysBounded ==
    ASSUME TypeOK, Len(sent) <= MaxFrames, [Next]_vars
    PROVE  Len(sent') <= MaxFrames
<1>0. Len(sent) \in Nat /\ MaxFrames \in Nat
  BY SentTypes, VideoAssumption
<1>1. ASSUME NEW size \in FrameSizes, SendFrame(size) PROVE Len(sent') <= MaxFrames
  <2>1. /\ sent \in Seq([number : 0 .. UIntMod - 1, size : Nat \ {0}])
        /\ sent' = Append(sent, [number |-> m_frame_number, size |-> size])
        /\ Len(sent) < MaxFrames
    BY <1>1 DEF TypeOK, SendFrame
  <2>2. Len(sent') = Len(sent) + 1
    BY <2>1
  <2>. QED
    BY <1>0, <2>1, <2>2
<1>2. ASSUME NEW d \in net, addData(d) PROVE sent' = sent
  BY <1>2 DEF addData, RejectStray, RejectSize, RejectGap, GivenUp, AppendFragment, CompleteFrame,
              Arrives
<1>3. [Next]_vars => sent' = sent \/ \E size \in FrameSizes : SendFrame(size)
  BY <1>2 DEF Next, vars, netVars, SenderRestart, Lose, RejectForeign, TakeFrame, getFrame, removeFrame
<1>. QED
  BY <1>1, <1>3

(* The receiver implements the channel of whole images (FrameChannel) for a     *)
(* sender that does not restart and whose numbers have not wrapped: whatever    *)
(* the network does, the application takes images that were sent, whole         *)
(* (videodata.cpp:93-198, 238-267).                                             *)
THEOREM VideoDataImplementsChannel ==
    ASSUME ~Restarting, MaxFrames < UIntMod
    PROVE  Spec => ImplementsChannel
<1>. DEFINE Bounded == Len(sent) <= MaxFrames
<1>1. Spec => [](Inv /\ WholeInv /\ Bounded)
  <2>1. Init => Inv /\ WholeInv /\ Bounded
    BY InitInv, InitWhole, SentBounded
  <2>2. Inv /\ WholeInv /\ Bounded /\ [Next]_vars => (Inv /\ WholeInv /\ Bounded)'
    <3>. SUFFICES ASSUME Inv, WholeInv, Bounded, [Next]_vars
                 PROVE  Inv' /\ WholeInv' /\ Bounded'
      OBVIOUS
    <3>1. Inv'
      BY NextInv
    <3>2. WholeInv'
      BY <3>1, NextWhole DEF Inv
    <3>3. Bounded'
      BY SentStaysBounded DEF Inv
    <3>. QED
      BY <3>1, <3>2, <3>3
  <2>. QED
    BY <2>1, <2>2, PTL DEF Spec
<1>2. ASSUME Inv, Inv', WholeInv, Bounded, [Next]_vars
      PROVE  [Channel!Next]_Channel!chan
  <2>1. Len(sent) < UIntMod
    BY <1>2, SentTypes, VideoAssumption DEF Inv
  <2>. QED
    BY <1>2, <2>1, NextChannel DEF Inv, WholeInv
<1>. QED
  BY <1>1, <1>2, InitChannel, PTL DEF Spec, ImplementsChannel, Channel!Spec
=============================================================================
