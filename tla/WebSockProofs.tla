------------------------------ MODULE WebSockProofs ------------------------------
(***************************************************************************)
(* The invariants of WebSock, for every limit of its queues, every delay   *)
(* of the decoder, and any number of images: the types, that what the      *)
(* event loop reads outside m_mutex still holds when it is used, the bound *)
(* of m_frames, the order of the images along the pipeline, and when a     *)
(* frame is left without a thread.                                         *)
(***************************************************************************)
EXTENDS WebSock, SequenceTheorems, FiniteSetTheorems, TLAPS

(* An image that a thread is about to push, to send or to show is one. *)
Held ==
    /\ ws \in {"push", "emit"} => wsImage \in Image
    /\ snd = "send" => sndImage \in Image
    /\ dec \in {"check", "push"} => decImage \in Image

(* The invariant of the first two theorems. *)
ReadInv == TypeOK /\ Held /\ UnlockedReadsHold

LEMMA InitRead == Init => ReadInv
<1>. SUFFICES ASSUME Init PROVE ReadInv
  OBVIOUS
<1>1. /\ m_framesH264 \in Seq(Image) /\ inside \in Seq(Image) /\ m_avframes \in Seq(Image)
      /\ m_frames \in Seq(Frame) /\ shown \in Seq(Image)
      /\ Len(m_framesH264) = 0 /\ Len(inside) = 0 /\ Len(m_avframes) = 0
  BY EmptySeq DEF Init
<1>2. arrived \in 0 .. MaxImages /\ avail \in 0 .. Len(inside) /\ leaked \in 0 .. 1
      /\ Len(m_framesH264) <= MAX_BUFFERS /\ Len(m_avframes) <= MAX_QUEUE_SUZE
  BY <1>1, WebSockAssumption DEF Init
<1>3. overreadMatches \in BOOLEAN /\ m_done \in BOOLEAN /\ quitting \in BOOLEAN
  BY DEF Init
<1>. QED
  BY <1>1, <1>2, <1>3 DEF Init, ReadInv, TypeOK, Held, UnlockedReadsHold

LEMMA NextImageIsImage ==
    ASSUME TypeOK, arrived < MaxImages, NEW kind \in {"jpeg", "h264"}
    PROVE  NextImage(kind) \in Image
  BY WebSockAssumption DEF TypeOK, NextImage, Image

-----------------------------------------------------------------------------
(* The event loop *)

LEMMA EventRead == ReadInv /\ Event => ReadInv'
<1>. SUFFICES ASSUME ReadInv, Event PROVE ReadInv'
  OBVIOUS
<1>. USE DEF ReadInv
<1>0. /\ UNCHANGED <<sndVars, m_avframes, decVars, mainVars, m_frames, m_mutex, shown>> /\ ws = "loop"
  BY DEF Event, ReceiveJpeg, ReceiveH264
<1>1. CASE \E kind \in Kinds : ReceiveJpeg(kind)
  <2>1. PICK kind \in Kinds : ReceiveJpeg(kind)
    BY <1>1
  <2>2. NextImage(kind) \in Image
    BY <2>1, NextImageIsImage, WebSockAssumption DEF ReceiveJpeg
  <2>3. ws' \in {"loop", "push"} /\ wsImage' \in Image \cup {NoImage} /\ (ws' = "push" => wsImage' \in Image)
    BY <2>1, <2>2, <1>0 DEF ReceiveJpeg, TypeOK
  <2>4. arrived' \in 0 .. MaxImages /\ m_framesH264' = m_framesH264
    BY <2>1, WebSockAssumption DEF ReceiveJpeg, TypeOK
  <2>. QED
    BY <1>0, <2>3, <2>4 DEF TypeOK, Held, UnlockedReadsHold, sndVars, decVars, mainVars
<1>2. CASE \E kind \in Kinds : ReceiveH264(kind)
  <2>1. PICK kind \in Kinds : ReceiveH264(kind)
    BY <1>2
  <2>2. NextImage(kind) \in Image
    BY <2>1, NextImageIsImage, WebSockAssumption DEF ReceiveH264
  <2>3. m_framesH264' \in Seq(Image) /\ Len(m_framesH264') <= MAX_BUFFERS
    <3>1. CASE Len(m_framesH264) < MAX_BUFFERS
      <4>1. m_framesH264' = Append(m_framesH264, NextImage(kind)) /\ m_framesH264 \in Seq(Image)
        BY <2>1, <3>1 DEF ReceiveH264, TypeOK
      <4>. QED
        BY <4>1, <3>1, <2>2, AppendProperties, LenProperties, WebSockAssumption
    <3>2. CASE ~(Len(m_framesH264) < MAX_BUFFERS)
      BY <2>1, <3>2 DEF ReceiveH264, TypeOK
    <3>. QED
      BY <3>1, <3>2
  <2>4. arrived' \in 0 .. MaxImages /\ ws' = "loop" /\ wsImage' = wsImage
    BY <2>1, <1>0, WebSockAssumption DEF ReceiveH264, TypeOK
  <2>. QED
    BY <1>0, <2>3, <2>4 DEF TypeOK, Held, UnlockedReadsHold, sndVars, decVars, mainVars
<1>3. CASE ws' = "timeout" /\ UNCHANGED <<arrived, wsImage, m_framesH264, m_frames, m_mutex, shown>>
  BY <1>0, <1>3 DEF TypeOK, Held, UnlockedReadsHold, sndVars, decVars, mainVars
<1>. QED
  BY <1>1, <1>2, <1>3 DEF Event

LEMMA WsRead == ReadInv /\ WsStep => ReadInv'
<1>. SUFFICES ASSUME ReadInv, WsStep PROVE ReadInv'
  OBVIOUS
<1>. USE DEF ReadInv
<1>0. /\ UNCHANGED <<sndVars, m_avframes, decVars, mainVars>>
      /\ arrived' = arrived /\ m_framesH264' = m_framesH264
      /\ m_frames \in Seq(Frame) /\ shown \in Seq(Image)
  BY DEF WsStep, PushJpeg, StartBack, TestFront, LockToPop, PopFront, EmitSendImage, TypeOK
<1>1. CASE PushJpeg
  <2>. DEFINE frame == [image |-> wsImage, done |-> FALSE, thr |-> "none"]
  <2>1. frame \in Frame /\ m_frames' = Append(m_frames, frame) /\ ws' = "start"
        /\ UNCHANGED <<wsImage, m_mutex, shown>>
    BY <1>1 DEF PushJpeg, Held, Frame
  <2>2. /\ m_frames' \in Seq(Frame) /\ m_frames' # <<>>
        /\ m_frames'[Len(m_frames')] = frame
    BY <1>0, <2>1, AppendProperties
  <2>. QED
    BY <1>0, <2>1, <2>2 DEF TypeOK, Held, UnlockedReadsHold, sndVars, decVars, mainVars
<1>2. CASE StartBack
  <2>1. /\ m_frames # <<>> /\ m_frames' = [m_frames EXCEPT ![Len(m_frames)].thr = "running"]
        /\ ws' = "loop" /\ wsImage' = NoImage /\ UNCHANGED <<m_mutex, shown>>
    BY <1>2 DEF StartBack, Back, UnlockedReadsHold
  <2>2. Len(m_frames) \in 1 .. Len(m_frames) /\ m_frames[Len(m_frames)] \in Frame
    BY <1>0, <2>1, LenProperties, EmptySeq
  <2>3. [m_frames[Len(m_frames)] EXCEPT !.thr = "running"] \in Frame
    BY <2>2 DEF Frame
  <2>4. m_frames' = [m_frames EXCEPT ![Len(m_frames)] =
                       [m_frames[Len(m_frames)] EXCEPT !.thr = "running"]]
    BY <2>1
  <2>5. m_frames' \in Seq(Frame)
    BY <1>0, <2>2, <2>3, <2>4, ExceptSeq
  <2>. QED
    BY <1>0, <2>1, <2>5 DEF TypeOK, Held, UnlockedReadsHold, sndVars, decVars, mainVars
<1>3. CASE TestFront
  BY <1>0, <1>3 DEF TestFront, TypeOK, Held, UnlockedReadsHold, FrontDone, sndVars, decVars, mainVars
<1>4. CASE LockToPop
  BY <1>0, <1>4 DEF LockToPop, TypeOK, Held, UnlockedReadsHold, FrontDone, sndVars, decVars, mainVars
<1>5. CASE PopFront
  <2>1. m_frames # <<>> /\ wsImage' = Head(m_frames).image /\ m_frames' = Tail(m_frames)
        /\ ws' = "emit" /\ m_mutex' = "free" /\ shown' = shown
    BY <1>5 DEF PopFront, UnlockedReadsHold, FrontDone
  <2>2. Head(m_frames) \in Frame /\ m_frames' \in Seq(Frame)
    BY <1>0, <2>1, HeadTailProperties
  <2>3. wsImage' \in Image
    BY <2>1, <2>2 DEF Frame
  <2>. QED
    BY <1>0, <2>1, <2>2, <2>3 DEF TypeOK, Held, UnlockedReadsHold, sndVars, decVars, mainVars
<1>6. CASE EmitSendImage
  <2>1. wsImage \in Image /\ shown' = Append(shown, wsImage) /\ wsImage' = NoImage
        /\ ws' = "timeout" /\ UNCHANGED <<m_frames, m_mutex>>
    BY <1>6 DEF EmitSendImage, Held
  <2>2. shown' \in Seq(Image)
    BY <1>0, <2>1, AppendProperties
  <2>. QED
    BY <1>0, <2>1, <2>2 DEF TypeOK, Held, UnlockedReadsHold, sndVars, decVars, mainVars
<1>. QED
  BY <1>1, <1>2, <1>3, <1>4, <1>5, <1>6 DEF WsStep

-----------------------------------------------------------------------------
(* snd and dec *)

LEMMA SndRead == ReadInv /\ SndStep => ReadInv'
<1>. SUFFICES ASSUME ReadInv, SndStep PROVE ReadInv'
  OBVIOUS
<1>. USE DEF ReadInv
<1>0. /\ UNCHANGED <<wsVars, decVars, m_frames, m_mutex, mainVars>>
      /\ m_framesH264 \in Seq(Image) /\ inside \in Seq(Image) /\ m_avframes \in Seq(Image)
  BY DEF SndStep, TypeOK
<1>1. CASE SndTop
  BY <1>0, <1>1 DEF SndTop, TypeOK, Held, UnlockedReadsHold, FrontDone, wsVars, decVars, mainVars
<1>2. CASE ReceivePicture
  <2>1. Len(inside) \in Nat /\ avail \in 1 .. Len(inside) /\ inside # <<>>
    BY <1>0, <1>2, LenProperties, EmptySeq DEF ReceivePicture, TypeOK
  <2>2. Head(inside) \in Image /\ inside' \in Seq(Image) /\ avail' \in 0 .. Len(inside')
    BY <1>0, <1>2, <2>1, HeadTailProperties DEF ReceivePicture
  <2>3. m_avframes' \in Seq(Image) /\ Len(m_avframes') <= MAX_QUEUE_SUZE
    <3>1. CASE PictureFits
      BY <1>0, <1>2, <2>2, <3>1, AppendProperties, LenProperties, WebSockAssumption
         DEF ReceivePicture, PictureFits
    <3>2. CASE ~PictureFits
      BY <1>2, <3>2 DEF ReceivePicture, TypeOK
    <3>. QED
      BY <3>1, <3>2
  <2>4. UNCHANGED <<m_framesH264, snd, sndImage, leaked>>
    BY <1>2 DEF ReceivePicture
  <2>. QED
    BY <1>0, <2>2, <2>3, <2>4 DEF TypeOK, Held, UnlockedReadsHold, FrontDone, wsVars, decVars, mainVars
<1>3. CASE ReceiveAgain
  BY <1>0, <1>3 DEF ReceiveAgain, TypeOK, Held, UnlockedReadsHold, FrontDone, wsVars, decVars, mainVars
<1>4. CASE TakePacket
  <2>1. UNCHANGED <<inside, avail, leaked, m_avframes>>
    BY <1>4 DEF TakePacket
  <2>2. CASE m_framesH264 = <<>>
    BY <1>0, <1>4, <2>1, <2>2
       DEF TakePacket, TypeOK, Held, UnlockedReadsHold, FrontDone, wsVars, decVars, mainVars
  <2>3. CASE m_framesH264 # <<>>
    <3>1. snd' = "send" /\ sndImage' \in Image /\ m_framesH264' \in Seq(Image)
          /\ Len(m_framesH264') <= MAX_BUFFERS
      <4>1. Len(m_framesH264) \in Nat /\ Len(Tail(m_framesH264)) = Len(m_framesH264) - 1
            /\ Head(m_framesH264) \in Image /\ Tail(m_framesH264) \in Seq(Image)
        BY <1>0, <2>3, HeadTailProperties, LenProperties
      <4>2. Len(m_framesH264) <= MAX_BUFFERS
        BY DEF TypeOK
      <4>3. snd' = "send" /\ sndImage' = Head(m_framesH264) /\ m_framesH264' = Tail(m_framesH264)
        BY <1>4, <2>3 DEF TakePacket
      <4>. QED
        BY <4>1, <4>2, <4>3, WebSockAssumption
    <3>. QED
      BY <1>0, <2>1, <3>1 DEF TypeOK, Held, UnlockedReadsHold, FrontDone, wsVars, decVars, mainVars
  <2>. QED
    BY <2>2, <2>3
<1>5. CASE SendPacket
  <2>1. sndImage \in Image /\ snd' = "top" /\ sndImage' = NoImage
        /\ UNCHANGED <<m_framesH264, leaked, m_avframes>>
    BY <1>5 DEF SendPacket, Held
  <2>2. inside' \in Seq(Image) /\ avail' \in 0 .. Len(inside')
    <3>1. CASE UNCHANGED <<inside, avail>>
      BY <3>1 DEF TypeOK
    <3>2. CASE inside' = Append(inside, sndImage)
               /\ avail' \in {n \in 0 .. Len(inside') : Len(inside') - n <= Delay}
      BY <1>0, <2>1, <3>2, AppendProperties
    <3>. QED
      BY <1>5, <3>1, <3>2 DEF SendPacket
  <2>. QED
    BY <1>0, <2>1, <2>2 DEF TypeOK, Held, UnlockedReadsHold, FrontDone, wsVars, decVars, mainVars
<1>. QED
  BY <1>1, <1>2, <1>3, <1>4, <1>5 DEF SndStep

LEMMA DecodedIsFrame == ASSUME decImage \in Image PROVE DecodedFrame \in Frame
  BY DEF DecodedFrame, Frame

(* Appending to m_frames leaves the front where it is. *)
LEMMA FrontStays ==
    ASSUME NEW s \in Seq(Frame), NEW f \in Frame, s # <<>>
    PROVE  Append(s, f) # <<>> /\ Head(Append(s, f)) = Head(s)
<1>1. Len(s) \in Nat \ {0} /\ Append(s, f)[1] = s[1] /\ Append(s, f) # <<>>
  BY EmptySeq, LenProperties, AppendProperties
<1>. QED
  BY <1>1, AppendProperties

(* dec may append between any two steps of ws, but not between PushJpeg and StartBack: *)
(* there the frame at the back changes, and the new one has no thread either.          *)
LEMMA DecRead == ReadInv /\ DecStep => ReadInv'
<1>. SUFFICES ASSUME ReadInv, DecStep PROVE ReadInv'
  OBVIOUS
<1>. USE DEF ReadInv
<1>0. /\ UNCHANGED <<wsVars, m_framesH264, sndVars, m_mutex, mainVars>>
      /\ m_avframes \in Seq(Image) /\ m_frames \in Seq(Frame)
  BY DEF DecStep, TypeOK
<1>1. CASE DecTop
  <2>1. m_frames' = m_frames
    BY <1>1 DEF DecTop
  <2>2. CASE m_done
    BY <1>0, <1>1, <2>1, <2>2
       DEF DecTop, TypeOK, Held, UnlockedReadsHold, FrontDone, wsVars, sndVars, mainVars
  <2>3. CASE ~m_done
    <3>1. dec' = "check" /\ decImage' \in Image /\ m_avframes' \in Seq(Image)
          /\ Len(m_avframes') <= MAX_QUEUE_SUZE
      <4>1. m_avframes # <<>> /\ dec' = "check" /\ decImage' = Head(m_avframes)
            /\ m_avframes' = Tail(m_avframes)
        BY <1>1, <2>3 DEF DecTop
      <4>2. Len(m_avframes) \in Nat /\ Len(Tail(m_avframes)) = Len(m_avframes) - 1
            /\ Head(m_avframes) \in Image /\ Tail(m_avframes) \in Seq(Image)
        BY <1>0, <4>1, HeadTailProperties, LenProperties
      <4>3. Len(m_avframes) <= MAX_QUEUE_SUZE
        BY DEF TypeOK
      <4>. QED
        BY <4>1, <4>2, <4>3, WebSockAssumption
    <3>. QED
      BY <1>0, <2>1, <3>1 DEF TypeOK, Held, UnlockedReadsHold, FrontDone, wsVars, sndVars, mainVars
  <2>. QED
    BY <2>2, <2>3
<1>2. CASE DecCheck
  <2>1. UNCHANGED <<m_avframes, m_frames>> /\ dec' \in {"top", "push"}
        /\ decImage' \in Image \cup {NoImage} /\ (dec' = "push" => decImage' \in Image)
    BY <1>2 DEF DecCheck, Held
  <2>. QED
    BY <1>0, <2>1 DEF TypeOK, Held, UnlockedReadsHold, FrontDone, wsVars, sndVars, mainVars
<1>3. CASE DecPush
  <2>1. DecodedFrame \in Frame /\ m_frames' = Append(m_frames, DecodedFrame) /\ dec' = "top"
        /\ decImage' = NoImage /\ m_avframes' = m_avframes
    BY <1>3, DecodedIsFrame DEF DecPush, Held
  <2>2. /\ m_frames' \in Seq(Frame) /\ m_frames' # <<>>
        /\ m_frames'[Len(m_frames')] = DecodedFrame /\ DecodedFrame.thr = "none"
    BY <1>0, <2>1, AppendProperties DEF DecodedFrame
  <2>3. FrontDone => FrontDone'
    BY <1>0, <2>1, FrontStays DEF FrontDone
  <2>. QED
    BY <1>0, <2>1, <2>2, <2>3 DEF TypeOK, Held, UnlockedReadsHold, wsVars, sndVars, mainVars
<1>. QED
  BY <1>1, <1>2, <1>3 DEF DecStep

-----------------------------------------------------------------------------
(* The frames' threads, and main *)

(* A thread finishes a frame that is not the one PushJpeg left at the back. *)
LEMMA EncodeRead == ReadInv /\ Encode => ReadInv'
<1>. SUFFICES ASSUME ReadInv, Encode PROVE ReadInv'
  OBVIOUS
<1>. USE DEF ReadInv
<1>1. PICK k \in DOMAIN m_frames : m_frames[k].thr = "running"
                                   /\ m_frames' = [m_frames EXCEPT ![k] = Encoded(@)]
  BY DEF Encode
<1>2. UNCHANGED <<wsVars, m_framesH264, sndVars, m_avframes, decVars, m_mutex, mainVars>>
  BY DEF Encode
<1>3. m_frames \in Seq(Frame) /\ k \in 1 .. Len(m_frames) /\ m_frames[k] \in Frame
  BY <1>1, LenProperties, ElementOfSeq DEF TypeOK
<1>4. Encoded(m_frames[k]) \in Frame /\ Encoded(m_frames[k]).done
  BY <1>3 DEF Encoded, Frame
<1>5. m_frames' = [m_frames EXCEPT ![k] = Encoded(m_frames[k])]
  BY <1>1
<1>6. /\ m_frames' \in Seq(Frame) /\ Len(m_frames') = Len(m_frames)
      /\ \A j \in 1 .. Len(m_frames) : m_frames'[j] = IF j = k THEN Encoded(m_frames[k]) ELSE m_frames[j]
  BY <1>3, <1>4, <1>5, ExceptSeq
<1>7. m_frames' # <<>> /\ Len(m_frames) \in 1 .. Len(m_frames)
  BY <1>3, <1>6, EmptySeq, LenProperties
<1>8. ws = "start" => m_frames'[Len(m_frames')].thr = "none"
  BY <1>1, <1>3, <1>6, <1>7 DEF UnlockedReadsHold
<1>9. FrontDone => FrontDone'
  BY <1>3, <1>4, <1>6, <1>7 DEF FrontDone
<1>. QED
  BY <1>2, <1>6, <1>7, <1>8, <1>9 DEF TypeOK, Held, UnlockedReadsHold, wsVars, sndVars, decVars, mainVars

LEMMA MainRead == ReadInv /\ (LeaveLoop \/ Destroy \/ Destroyed) => ReadInv'
<1>. SUFFICES ASSUME ReadInv, LeaveLoop \/ Destroy \/ Destroyed PROVE ReadInv'
  OBVIOUS
<1>. USE DEF ReadInv
<1>1. CASE LeaveLoop
  BY <1>1 DEF LeaveLoop, TypeOK, Held, UnlockedReadsHold, FrontDone, sndVars, decVars, mainVars
<1>2. CASE Destroy
  BY <1>2 DEF Destroy, TypeOK, Held, UnlockedReadsHold, FrontDone, wsVars, sndVars, decVars
<1>3. CASE Destroyed
  <2>1. /\ m_frames' \in Seq(Frame) /\ m_framesH264' \in Seq(Image) /\ inside' \in Seq(Image)
        /\ m_avframes' \in Seq(Image) /\ Len(m_framesH264') <= MAX_BUFFERS
        /\ avail' \in 0 .. Len(inside') /\ Len(m_avframes') <= MAX_QUEUE_SUZE
    BY <1>3, EmptySeq, WebSockAssumption DEF Destroyed
  <2>2. /\ ws' = "stopped" /\ main' = "done" /\ snd' = "stopped" /\ dec' = "stopped"
        /\ UNCHANGED <<wsVars, snd, sndImage, leaked, decVars, m_mutex, m_done, quitting,
                       overreadMatches>>
    BY <1>3 DEF Destroyed, wsVars, decVars
  <2>. QED
    BY <2>1, <2>2 DEF TypeOK, Held, UnlockedReadsHold, wsVars, decVars
<1>. QED
  BY <1>1, <1>2, <1>3

LEMMA StutterRead == ReadInv /\ UNCHANGED vars => ReadInv'
  BY DEF ReadInv, TypeOK, Held, UnlockedReadsHold, FrontDone, vars, wsVars, sndVars, decVars, mainVars

LEMMA ReadHolds == Spec => []ReadInv
<1>1. ReadInv /\ [Next]_vars => ReadInv'
  BY EventRead, WsRead, SndRead, DecRead, EncodeRead, MainRead, StutterRead DEF Next
<1>. QED
  BY <1>1, InitRead, PTL DEF Spec

(* The queues hold images and the limits that are compared inside a lock, or by *)
(* the only thread that appends, are kept.                                      *)
THEOREM WebSockTypes == Spec => []TypeOK
<1>1. ReadInv => TypeOK
  BY DEF ReadInv
<1>. QED
  BY <1>1, ReadHolds, PTL

(* The frame that start() is called on has no thread, and the frame that is popped *)
(* is done, whatever the other threads did to m_frames since ws looked at it.      *)
THEOREM UnlockedReadsAlwaysHold == Spec => []UnlockedReadsHold
<1>1. ReadInv => UnlockedReadsHold
  BY DEF ReadInv
<1>. QED
  BY <1>1, ReadHolds, PTL

-----------------------------------------------------------------------------
(* The JPEG frames of a queue *)

Jpegs(s) == {k \in DOMAIN s : s[k].image.kind = "jpeg"}

LEMMA JpegsAtMostAll ==
    ASSUME NEW s \in Seq(Frame)
    PROVE  IsFiniteSet(Jpegs(s)) /\ Cardinality(Jpegs(s)) \in Nat /\ Cardinality(Jpegs(s)) <= Len(s)
<1>1. Len(s) \in Nat /\ DOMAIN s = 1 .. Len(s) /\ Jpegs(s) \subseteq 1 .. Len(s)
  BY LenProperties DEF Jpegs
<1>2. IsFiniteSet(1 .. Len(s)) /\ Cardinality(1 .. Len(s)) = Len(s)
  <2>1. \A n \in Nat : /\ IsFiniteSet(1 .. n)
                       /\ Cardinality(1 .. n) = IF 1 > n THEN 0 ELSE n - 1 + 1
    BY FS_Interval
  <2>. QED
    BY <1>1, <2>1
<1>. QED
  BY <1>1, <1>2, FS_Subset, FS_CardinalityType

LEMMA JpegsAppend ==
    ASSUME NEW s \in Seq(Frame), NEW f \in Frame
    PROVE  /\ Cardinality(Jpegs(Append(s, f))) <= Cardinality(Jpegs(s)) + 1
           /\ f.image.kind # "jpeg" => Cardinality(Jpegs(Append(s, f))) = Cardinality(Jpegs(s))
<1>. DEFINE t == Append(s, f)
<1>1. /\ t \in Seq(Frame) /\ Len(s) \in Nat /\ Len(t) = Len(s) + 1
      /\ DOMAIN s = 1 .. Len(s) /\ DOMAIN t = 1 .. Len(s) + 1
      /\ t[Len(s) + 1] = f /\ \A k \in 1 .. Len(s) : t[k] = s[k]
  BY AppendProperties, LenProperties
<1>2. Jpegs(t) = IF f.image.kind = "jpeg" THEN Jpegs(s) \cup {Len(s) + 1} ELSE Jpegs(s)
  <2>1. ASSUME NEW k PROVE k \in Jpegs(t) <=> k \in Jpegs(s) \/ (k = Len(s) + 1 /\ f.image.kind = "jpeg")
    BY <1>1 DEF Jpegs
  <2>. QED
    BY <2>1
<1>3. IsFiniteSet(Jpegs(s)) /\ Cardinality(Jpegs(s)) \in Nat
  BY JpegsAtMostAll
<1>4. Cardinality(Jpegs(s) \cup {Len(s) + 1}) <= Cardinality(Jpegs(s)) + 1
  <2>1. Cardinality(Jpegs(s) \cup {Len(s) + 1})
          = IF Len(s) + 1 \in Jpegs(s) THEN Cardinality(Jpegs(s)) ELSE Cardinality(Jpegs(s)) + 1
    BY <1>3, FS_AddElement
  <2>. QED
    BY <1>3, <2>1
<1>. QED
  BY <1>2, <1>3, <1>4

LEMMA JpegsTail ==
    ASSUME NEW s \in Seq(Frame), s # <<>>
    PROVE  Cardinality(Jpegs(Tail(s))) <= Cardinality(Jpegs(s))
<1>. DEFINE t == Tail(s)
<1>1. /\ t \in Seq(Frame) /\ Len(s) \in Nat \ {0} /\ Len(t) = Len(s) - 1
      /\ DOMAIN s = 1 .. Len(s) /\ DOMAIN t = 1 .. Len(t)
      /\ \A k \in 1 .. Len(t) : t[k] = s[k + 1]
  BY HeadTailProperties, LenProperties, EmptySeq
<1>. DEFINE next == [k \in Jpegs(t) |-> k + 1]
<1>2. next \in Injection(Jpegs(t), Jpegs(s))
  <2>1. ASSUME NEW k \in Jpegs(t) PROVE k \in Nat /\ k + 1 \in Jpegs(s)
    BY <1>1 DEF Jpegs
  <2>. QED
    BY <2>1 DEF Injection, IsInjective
<1>3. IsFiniteSet(Jpegs(s)) /\ IsFiniteSet(Jpegs(t))
  BY <1>1, JpegsAtMostAll
<1>. HIDE DEF next
<1>. QED
  BY <1>2, <1>3, FS_Injection

(* Replacing a frame by one with the same image changes no kind. *)
LEMMA JpegsExcept ==
    ASSUME NEW s \in Seq(Frame), NEW k \in 1 .. Len(s), NEW f \in Frame, f.image = s[k].image
    PROVE  Jpegs([s EXCEPT ![k] = f]) = Jpegs(s)
<1>1. /\ Len([s EXCEPT ![k] = f]) = Len(s) /\ [s EXCEPT ![k] = f] \in Seq(Frame)
      /\ \A j \in 1 .. Len(s) : [s EXCEPT ![k] = f][j] = IF j = k THEN f ELSE s[j]
  BY ExceptSeq
<1>2. DOMAIN [s EXCEPT ![k] = f] = DOMAIN s /\ DOMAIN s = 1 .. Len(s)
  BY LenProperties
<1>3. ASSUME NEW j \in 1 .. Len(s)
      PROVE  [s EXCEPT ![k] = f][j].image = s[j].image
  BY <1>1
<1>. QED
  BY <1>2, <1>3 DEF Jpegs

-----------------------------------------------------------------------------
(* The bound of m_frames *)

(* Only images that are no JPEG come out of the decoder: JPEG images of ws never enter it. *)
H264 == {image \in Image : image.kind = "h264"}
Decoded ==
    /\ inside \in Seq(H264) /\ m_avframes \in Seq(H264)
    /\ dec \in {"check", "push"} => decImage \in H264

(* A producer that found room still has it: while both are between the comparison and *)
(* the push there is room for both but for one frame.                                 *)
Room ==
    /\ Len(m_frames) <= MAX_BUFFERS + 1
    /\ ws = "push" => Len(m_frames) <= MAX_BUFFERS
    /\ dec = "push" => Len(m_frames) <= MAX_BUFFERS
    /\ ws = "push" /\ dec = "push" => Len(m_frames) <= MAX_BUFFERS - 1
    /\ Cardinality(Jpegs(m_frames)) <= MAX_FRAMES
    /\ ws = "push" => Cardinality(Jpegs(m_frames)) <= MAX_FRAMES - 1

BoundInv == Decoded /\ Room

LEMMA InitBound == Init => BoundInv
<1>. SUFFICES ASSUME Init PROVE BoundInv
  OBVIOUS
<1>1. Decoded
  BY EmptySeq DEF Init, Decoded
<1>2. m_frames \in Seq(Frame) /\ Len(m_frames) = 0
  BY EmptySeq DEF Init
<1>3. Cardinality(Jpegs(m_frames)) \in Nat /\ Cardinality(Jpegs(m_frames)) <= Len(m_frames)
  BY <1>2, JpegsAtMostAll
<1>. QED
  BY <1>1, <1>2, <1>3, WebSockAssumption DEF Init, BoundInv, Room

LEMMA EventBound == ReadInv /\ BoundInv /\ Event => BoundInv'
<1>. SUFFICES ASSUME ReadInv, BoundInv, Event PROVE BoundInv'
  OBVIOUS
<1>1. /\ UNCHANGED <<sndVars, m_avframes, decVars, m_frames>> /\ ws = "loop"
      /\ ws' = "push" => Len(m_frames) < MAX_FRAMES
  BY DEF Event, ReceiveJpeg, ReceiveH264, JpegFits
<1>2. Cardinality(Jpegs(m_frames)) \in Nat /\ Cardinality(Jpegs(m_frames)) <= Len(m_frames)
      /\ Len(m_frames) \in Nat
  BY JpegsAtMostAll, LenProperties DEF ReadInv, TypeOK
<1>. QED
  BY <1>1, <1>2, WebSockAssumption DEF BoundInv, Decoded, Room, sndVars, decVars

LEMMA WsBound == ReadInv /\ BoundInv /\ WsStep => BoundInv'
<1>. SUFFICES ASSUME ReadInv, BoundInv, WsStep PROVE BoundInv'
  OBVIOUS
<1>0. /\ UNCHANGED <<sndVars, m_avframes, decVars>> /\ m_frames \in Seq(Frame)
      /\ Len(m_frames) \in Nat /\ Cardinality(Jpegs(m_frames)) \in Nat
  BY JpegsAtMostAll, LenProperties DEF WsStep, ReadInv, TypeOK
<1>1. CASE PushJpeg
  <2>. DEFINE frame == [image |-> wsImage, done |-> FALSE, thr |-> "none"]
  <2>1. frame \in Frame /\ m_frames' = Append(m_frames, frame) /\ ws = "push" /\ ws' = "start"
    BY <1>1 DEF PushJpeg, ReadInv, Held, Frame
  <2>2. /\ Len(m_frames') = Len(m_frames) + 1 /\ m_frames' \in Seq(Frame)
        /\ Cardinality(Jpegs(m_frames')) <= Cardinality(Jpegs(m_frames)) + 1
    BY <1>0, <2>1, AppendProperties, JpegsAppend
  <2>3. Cardinality(Jpegs(m_frames')) \in Nat
    BY <2>2, JpegsAtMostAll
  <2>. QED
    BY <1>0, <2>1, <2>2, <2>3, WebSockAssumption DEF BoundInv, Decoded, Room, sndVars, decVars
<1>2. CASE StartBack
  <2>. DEFINE k == Len(m_frames)
  <2>. DEFINE frame == [m_frames[k] EXCEPT !.thr = "running"]
  <2>1. k \in 1 .. Len(m_frames) /\ m_frames[k] \in Frame
    BY <1>0, <1>2, EmptySeq, ElementOfSeq DEF StartBack, ReadInv, UnlockedReadsHold
  <2>2. frame \in Frame /\ frame.image = m_frames[k].image
    BY <2>1 DEF Frame
  <2>3. m_frames' = [m_frames EXCEPT ![k] = frame] /\ ws' = "loop"
    BY <1>2 DEF StartBack, Back
  <2>. HIDE DEF k, frame
  <2>4. Len(m_frames') = Len(m_frames) /\ Jpegs(m_frames') = Jpegs(m_frames)
    BY <1>0, <2>1, <2>2, <2>3, ExceptSeq, JpegsExcept
  <2>. QED
    BY <1>0, <2>3, <2>4 DEF BoundInv, Decoded, Room, sndVars, decVars
<1>3. CASE TestFront \/ LockToPop \/ EmitSendImage
  <2>1. m_frames' = m_frames /\ ws' # "push"
    BY <1>3 DEF TestFront, LockToPop, EmitSendImage
  <2>. QED
    BY <1>0, <2>1 DEF BoundInv, Decoded, Room, sndVars, decVars
<1>4. CASE PopFront
  <2>1. m_frames # <<>> /\ m_frames' = Tail(m_frames) /\ ws' = "emit"
    BY <1>4 DEF PopFront, ReadInv, UnlockedReadsHold, FrontDone
  <2>2. /\ Len(m_frames') = Len(m_frames) - 1 /\ m_frames' \in Seq(Frame)
        /\ Cardinality(Jpegs(m_frames')) <= Cardinality(Jpegs(m_frames))
    BY <1>0, <2>1, HeadTailProperties, JpegsTail
  <2>3. Cardinality(Jpegs(m_frames')) \in Nat
    BY <2>2, JpegsAtMostAll
  <2>. QED
    BY <1>0, <2>1, <2>2, <2>3, WebSockAssumption DEF BoundInv, Decoded, Room, sndVars, decVars
<1>. QED
  BY <1>1, <1>2, <1>3, <1>4 DEF WsStep

LEMMA SndBound == ReadInv /\ BoundInv /\ SndStep => BoundInv'
<1>. SUFFICES ASSUME ReadInv, BoundInv, SndStep PROVE BoundInv'
  OBVIOUS
<1>0. /\ UNCHANGED <<wsVars, decVars, m_frames>>
      /\ inside \in Seq(H264) /\ m_avframes \in Seq(H264)
  BY DEF SndStep, BoundInv, Decoded
<1>1. inside' \in Seq(H264) /\ m_avframes' \in Seq(H264)
  <2>1. CASE SndTop \/ ReceiveAgain \/ TakePacket
    BY <1>0, <2>1 DEF SndTop, ReceiveAgain, TakePacket
  <2>2. CASE ReceivePicture
    <3>1. inside # <<>>
      BY <1>0, <2>2, EmptySeq DEF ReceivePicture, ReadInv, TypeOK
    <3>2. Head(inside) \in H264 /\ Tail(inside) \in Seq(H264)
      BY <1>0, <3>1, HeadTailProperties
    <3>. QED
      BY <1>0, <2>2, <3>2, AppendProperties DEF ReceivePicture
  <2>3. CASE SendPacket
    <3>1. sndImage.kind = "h264" => sndImage \in H264
      BY <2>3 DEF SendPacket, ReadInv, Held, H264
    <3>2. CASE UNCHANGED <<inside, avail>>
      BY <1>0, <2>3, <3>2 DEF SendPacket
    <3>3. CASE sndImage.kind = "h264" /\ inside' = Append(inside, sndImage)
      BY <1>0, <2>3, <3>1, <3>3, AppendProperties DEF SendPacket
    <3>. QED
      BY <2>3, <3>2, <3>3 DEF SendPacket
  <2>. QED
    BY <2>1, <2>2, <2>3 DEF SndStep
<1>. QED
  BY <1>0, <1>1 DEF BoundInv, Decoded, Room, wsVars, decVars

LEMMA DecBound == ReadInv /\ BoundInv /\ DecStep => BoundInv'
<1>. SUFFICES ASSUME ReadInv, BoundInv, DecStep PROVE BoundInv'
  OBVIOUS
<1>0. /\ UNCHANGED <<wsVars, sndVars>> /\ m_frames \in Seq(Frame) /\ m_avframes \in Seq(H264)
      /\ Len(m_frames) \in Nat /\ Cardinality(Jpegs(m_frames)) \in Nat
  BY JpegsAtMostAll, LenProperties DEF DecStep, ReadInv, TypeOK, BoundInv, Decoded
<1>1. CASE DecTop
  <2>1. m_frames' = m_frames /\ dec' \in {"stopped", "check"}
    BY <1>1 DEF DecTop
  <2>2. m_avframes' \in Seq(H264) /\ (dec' = "check" => decImage' \in H264)
    BY <1>0, <1>1, HeadTailProperties DEF DecTop
  <2>. QED
    BY <1>0, <2>1, <2>2 DEF BoundInv, Decoded, Room, wsVars, sndVars
<1>2. CASE DecCheck
  <2>1. /\ m_frames' = m_frames /\ m_avframes' = m_avframes
        /\ dec' = "push" => Len(m_frames) < MAX_BUFFERS /\ decImage' = decImage
        /\ dec' \in {"push", "top"} /\ dec = "check"
    BY <1>2 DEF DecCheck
  <2>. QED
    BY <1>0, <2>1, WebSockAssumption DEF BoundInv, Decoded, Room, wsVars, sndVars
<1>3. CASE DecPush
  <2>1. /\ DecodedFrame \in Frame /\ DecodedFrame.image.kind = "h264"
        /\ m_frames' = Append(m_frames, DecodedFrame) /\ dec = "push" /\ dec' = "top"
        /\ m_avframes' = m_avframes
    BY <1>3, DecodedIsFrame DEF DecPush, BoundInv, Decoded, H264, DecodedFrame
  <2>2. /\ Len(m_frames') = Len(m_frames) + 1
        /\ Cardinality(Jpegs(m_frames')) = Cardinality(Jpegs(m_frames))
    BY <1>0, <2>1, AppendProperties, JpegsAppend
  <2>. QED
    BY <1>0, <2>1, <2>2, WebSockAssumption DEF BoundInv, Decoded, Room, wsVars, sndVars
<1>. QED
  BY <1>1, <1>2, <1>3 DEF DecStep

LEMMA EncodeBound == ReadInv /\ BoundInv /\ Encode => BoundInv'
<1>. SUFFICES ASSUME ReadInv, BoundInv, Encode PROVE BoundInv'
  OBVIOUS
<1>1. PICK k \in DOMAIN m_frames : m_frames[k].thr = "running"
                                   /\ m_frames' = [m_frames EXCEPT ![k] = Encoded(m_frames[k])]
  BY DEF Encode
<1>2. m_frames \in Seq(Frame) /\ k \in 1 .. Len(m_frames) /\ m_frames[k] \in Frame
  BY <1>1, LenProperties, ElementOfSeq DEF ReadInv, TypeOK
<1>3. Encoded(m_frames[k]) \in Frame /\ Encoded(m_frames[k]).image = m_frames[k].image
  BY <1>2 DEF Encoded, Frame
<1>4. Len(m_frames') = Len(m_frames) /\ Jpegs(m_frames') = Jpegs(m_frames)
  BY <1>1, <1>2, <1>3, ExceptSeq, JpegsExcept
<1>5. UNCHANGED <<wsVars, sndVars, m_avframes, decVars>>
  BY DEF Encode
<1>. QED
  BY <1>4, <1>5 DEF BoundInv, Decoded, Room, wsVars, sndVars, decVars

LEMMA MainBound == ReadInv /\ BoundInv /\ (LeaveLoop \/ Destroy \/ Destroyed) => BoundInv'
<1>. SUFFICES ASSUME ReadInv, BoundInv, LeaveLoop \/ Destroy \/ Destroyed PROVE BoundInv'
  OBVIOUS
<1>1. CASE LeaveLoop
  BY <1>1 DEF LeaveLoop, BoundInv, Decoded, Room, sndVars, decVars
<1>2. CASE Destroy
  BY <1>2 DEF Destroy, BoundInv, Decoded, Room, wsVars, sndVars, decVars
<1>3. CASE Destroyed
  <2>1. /\ m_frames' \in Seq(Frame) /\ Len(m_frames') = 0 /\ inside' \in Seq(H264)
        /\ m_avframes' \in Seq(H264) /\ ws' = "stopped" /\ dec' = "stopped"
    BY <1>3, EmptySeq DEF Destroyed, wsVars, decVars
  <2>2. Cardinality(Jpegs(m_frames')) \in Nat /\ Cardinality(Jpegs(m_frames')) <= Len(m_frames')
    BY <2>1, JpegsAtMostAll
  <2>. QED
    BY <2>1, <2>2, WebSockAssumption DEF BoundInv, Decoded, Room
<1>. QED
  BY <1>1, <1>2, <1>3

LEMMA StutterBound == BoundInv /\ UNCHANGED vars => BoundInv'
  BY DEF BoundInv, Decoded, Room, vars, wsVars, sndVars, decVars

(* The two producers, comparing the size before they lock, overrun MAX_BUFFERS by one *)
(* frame at the most, and the JPEG frames stay within MAX_FRAMES.                     *)
THEOREM FramesBounded == Spec => []FramesBound
<1>1. ReadInv /\ BoundInv /\ [Next]_vars => BoundInv'
  BY EventBound, WsBound, SndBound, DecBound, EncodeBound, MainBound, StutterBound DEF Next
<1>2. BoundInv => FramesBound
  BY DEF BoundInv, Room, FramesBound, Jpegs
<1>. QED
  BY <1>1, <1>2, InitBound, ReadHolds, PTL DEF Spec
-----------------------------------------------------------------------------
(* Images in line *)

Elements(s) == {s[k] : k \in DOMAIN s}

(* x may stand before y. *)
Older(x, y) == x.kind = y.kind => x.id < y.id
Rising(s) == \A j, k \in DOMAIN s : j < k => Older(s[j], s[k])
Ahead(s, t) == \A x \in Elements(s), y \in Elements(t) : Older(x, y)

LEMMA AppendLine ==
    ASSUME NEW s \in Seq(Image), NEW x \in Image
    PROVE  /\ Append(s, x) \in Seq(Image)
           /\ Elements(Append(s, x)) = Elements(s) \cup {x}
           /\ Rising(s) /\ (\A y \in Elements(s) : Older(y, x)) => Rising(Append(s, x))
<1>. DEFINE t == Append(s, x)
<1>1. /\ t \in Seq(Image) /\ Len(s) \in Nat /\ DOMAIN s = 1 .. Len(s)
      /\ DOMAIN t = 1 .. Len(s) + 1 /\ t[Len(s) + 1] = x /\ \A k \in 1 .. Len(s) : t[k] = s[k]
  BY AppendProperties, LenProperties
<1>. HIDE DEF t
<1>2. Elements(t) = Elements(s) \cup {x}
  <2>1. ASSUME NEW y \in Elements(t) PROVE y \in Elements(s) \cup {x}
    <3>1. PICK k \in 1 .. Len(s) + 1 : y = t[k]
      BY <1>1, <2>1 DEF Elements
    <3>2. k = Len(s) + 1 \/ k \in 1 .. Len(s)
      BY <1>1
    <3>. QED
      BY <1>1, <3>1, <3>2 DEF Elements
  <2>2. ASSUME NEW y \in Elements(s) \cup {x} PROVE y \in Elements(t)
    <3>1. CASE y = x
      <4>1. Len(s) + 1 \in 1 .. Len(s) + 1
        BY <1>1
      <4>. QED
        BY <1>1, <3>1, <4>1 DEF Elements
    <3>2. CASE y \in Elements(s)
      <4>1. PICK k \in 1 .. Len(s) : y = s[k]
        BY <1>1, <3>2 DEF Elements
      <4>2. k \in 1 .. Len(s) + 1 /\ t[k] = y
        BY <1>1, <4>1
      <4>. QED
        BY <1>1, <4>2 DEF Elements
    <3>. QED
      BY <2>2, <3>1, <3>2
  <2>. QED
    BY <2>1, <2>2
<1>3. ASSUME Rising(s), \A y \in Elements(s) : Older(y, x) PROVE Rising(t)
  <2>. SUFFICES ASSUME NEW j \in 1 .. Len(s) + 1, NEW k \in 1 .. Len(s) + 1, j < k
               PROVE  Older(t[j], t[k])
    BY <1>1 DEF Rising
  <2>1. j \in 1 .. Len(s) /\ (k \in 1 .. Len(s) \/ k = Len(s) + 1)
    BY <1>1
  <2>2. s[j] \in Elements(s)
    BY <1>1, <2>1 DEF Elements
  <2>. QED
    BY <1>1, <1>3, <2>1, <2>2 DEF Rising
<1>. QED
  BY <1>1, <1>2, <1>3 DEF t

LEMMA TailLine ==
    ASSUME NEW s \in Seq(Image), s # <<>>
    PROVE  /\ Head(s) \in Image /\ Head(s) \in Elements(s)
           /\ Tail(s) \in Seq(Image) /\ Elements(Tail(s)) \subseteq Elements(s)
           /\ Rising(s) => Rising(Tail(s)) /\ \A y \in Elements(Tail(s)) : Older(Head(s), y)
<1>. DEFINE t == Tail(s)
<1>1. /\ t \in Seq(Image) /\ Len(s) \in Nat \ {0} /\ DOMAIN s = 1 .. Len(s) /\ Len(t) \in Nat
      /\ Len(t) = Len(s) - 1 /\ DOMAIN t = 1 .. Len(t) /\ \A k \in 1 .. Len(t) : t[k] = s[k + 1]
      /\ Head(s) = s[1] /\ Head(s) \in Image
  BY HeadTailProperties, LenProperties, EmptySeq
<1>. HIDE DEF t
<1>2. 1 \in 1 .. Len(s) /\ \A k \in 1 .. Len(t) : k + 1 \in 1 .. Len(s) /\ 1 < k + 1
  BY <1>1
<1>3. Head(s) \in Elements(s) /\ Elements(t) \subseteq Elements(s)
  BY <1>1, <1>2 DEF Elements
<1>4. ASSUME Rising(s) PROVE Rising(t)
  <2>. SUFFICES ASSUME NEW j \in 1 .. Len(t), NEW k \in 1 .. Len(t), j < k PROVE Older(t[j], t[k])
    BY <1>1 DEF Rising
  <2>1. j + 1 \in DOMAIN s /\ k + 1 \in DOMAIN s /\ j + 1 < k + 1
    BY <1>1, <1>2
  <2>. QED
    BY <1>1, <1>4, <2>1 DEF Rising
<1>5. ASSUME Rising(s), NEW y \in Elements(t) PROVE Older(Head(s), y)
  <2>1. PICK k \in 1 .. Len(t) : y = t[k]
    BY <1>1, <1>5 DEF Elements
  <2>. QED
    BY <1>1, <1>2, <1>5, <2>1 DEF Rising
<1>. QED
  BY <1>1, <1>3, <1>4, <1>5 DEF t

LEMMA ConcatLine ==
    ASSUME NEW s \in Seq(Image), NEW t \in Seq(Image)
    PROVE  /\ s \o t \in Seq(Image)
           /\ Elements(s \o t) = Elements(s) \cup Elements(t)
           /\ Rising(s) /\ Rising(t) /\ Ahead(s, t) => Rising(s \o t)
<1>. DEFINE u == s \o t
<1>1. /\ u \in Seq(Image) /\ Len(s) \in Nat /\ Len(t) \in Nat
      /\ DOMAIN s = 1 .. Len(s) /\ DOMAIN t = 1 .. Len(t) /\ DOMAIN u = 1 .. Len(s) + Len(t)
      /\ \A k \in 1 .. Len(s) + Len(t) : u[k] = IF k <= Len(s) THEN s[k] ELSE t[k - Len(s)]
  BY ConcatProperties, LenProperties
<1>. HIDE DEF u
<1>2. ASSUME NEW k \in DOMAIN u
      PROVE  \/ k \in DOMAIN s /\ u[k] = s[k]
             \/ k > Len(s) /\ k - Len(s) \in DOMAIN t /\ u[k] = t[k - Len(s)]
  <2>1. k \in 1 .. Len(s) \/ (~(k <= Len(s)) /\ k > Len(s) /\ k - Len(s) \in 1 .. Len(t))
    BY <1>1
  <2>. QED
    BY <1>1, <2>1
<1>3. ASSUME NEW k \in DOMAIN s PROVE k \in DOMAIN u /\ u[k] = s[k]
  <2>1. k \in 1 .. Len(s) + Len(t) /\ k <= Len(s)
    BY <1>1
  <2>. QED
    BY <1>1, <2>1
<1>4. ASSUME NEW k \in DOMAIN t PROVE \E j \in DOMAIN u : u[j] = t[k]
  <2>1. k + Len(s) \in 1 .. Len(s) + Len(t) /\ ~(k + Len(s) <= Len(s)) /\ k + Len(s) - Len(s) = k
    BY <1>1
  <2>. QED
    BY <1>1, <2>1
<1>5. Elements(u) = Elements(s) \cup Elements(t)
  <2>1. ASSUME NEW y \in Elements(u) PROVE y \in Elements(s) \cup Elements(t)
    BY <1>2, <2>1 DEF Elements
  <2>2. ASSUME NEW y \in Elements(s) \cup Elements(t) PROVE y \in Elements(u)
    BY <1>3, <1>4, <2>2 DEF Elements
  <2>. QED
    BY <2>1, <2>2
<1>6. ASSUME Rising(s), Rising(t), Ahead(s, t) PROVE Rising(u)
  <2>. SUFFICES ASSUME NEW j \in DOMAIN u, NEW k \in DOMAIN u, j < k PROVE Older(u[j], u[k])
    BY DEF Rising
  <2>1. CASE j \in DOMAIN s /\ u[j] = s[j] /\ k \in DOMAIN s /\ u[k] = s[k]
    BY <1>6, <2>1 DEF Rising
  <2>2. CASE /\ j \in DOMAIN s /\ u[j] = s[j]
             /\ k - Len(s) \in DOMAIN t /\ u[k] = t[k - Len(s)]
    BY <1>6, <2>2 DEF Ahead, Elements
  <2>3. CASE /\ j - Len(s) \in DOMAIN t /\ u[j] = t[j - Len(s)]
             /\ k - Len(s) \in DOMAIN t /\ u[k] = t[k - Len(s)]
    <3>1. j - Len(s) < k - Len(s)
      BY <1>1
    <3>. QED
      BY <1>6, <2>3, <3>1 DEF Rising
  <2>4. ~(j > Len(s) /\ k \in DOMAIN s)
    BY <1>1
  <2>. QED
    BY <1>2, <2>1, <2>2, <2>3, <2>4
<1>. QED
  BY <1>1, <1>5, <1>6 DEF u

-----------------------------------------------------------------------------
(* The places where an image may be, and what a step does to them *)

Places == 1 .. 9
InLine(a) ==
    /\ \A i \in Places : Rising(a[i])
    /\ \A i, j \in Places : i < j => Ahead(a[i], a[j])

(* Images that leave the pipeline leave the rest in line. *)
LEMMA Leaves ==
    ASSUME NEW a, NEW b, InLine(a),
           \A i \in Places : Rising(b[i]) /\ Elements(b[i]) \subseteq Elements(a[i])
    PROVE  InLine(b)
  BY DEF InLine, Ahead

(* The first image of a place goes to the end of an earlier one; between the two places there *)
(* is none of its kind.                                                                       *)
Passed(a, b, i, j) ==
    /\ i < j /\ a[j] # <<>>
    /\ \A m \in Places : i < m /\ m < j => \A y \in Elements(a[m]) : y.kind # Head(a[j]).kind
    /\ b[i] = Append(a[i], Head(a[j])) /\ b[j] = Tail(a[j])
    /\ \A m \in Places \ {i, j} : b[m] = a[m]

LEMMA MovesOn ==
    ASSUME NEW a \in [Places -> Seq(Image)], NEW b, NEW i \in Places, NEW j \in Places,
           InLine(a), Passed(a, b, i, j)
    PROVE  /\ InLine(b)
           /\ \A m \in Places : \A y \in Elements(b[m]) : \E n \in Places : y \in Elements(a[n])
<1>. USE DEF Passed
<1>. DEFINE x == Head(a[j])
<1>0. i \in Int /\ j \in Int /\ \A m \in Places : m \in Int
  BY DEF Places
<1>1. /\ x \in Image /\ x \in Elements(a[j]) /\ Elements(b[j]) \subseteq Elements(a[j])
      /\ Rising(b[j]) /\ \A y \in Elements(b[j]) : Older(x, y)
  BY TailLine DEF InLine
<1>2. \A y \in Elements(a[i]) : Older(y, x)
  BY <1>1 DEF InLine, Ahead
<1>3. Elements(b[i]) = Elements(a[i]) \cup {x} /\ Rising(b[i])
  BY <1>1, <1>2, AppendLine DEF InLine
<1>. HIDE DEF x
<1>4. \A m \in Places : Rising(b[m])
  BY <1>1, <1>3 DEF InLine
<1>5. ASSUME NEW m \in Places, NEW n \in Places, m < n, NEW u \in Elements(b[m]), NEW v \in Elements(b[n])
      PROVE  Older(u, v)
  <2>1. (m = i /\ u = x) \/ u \in Elements(a[m])
    BY <1>1, <1>3
  <2>2. (n = i /\ v = x) \/ v \in Elements(a[n])
    BY <1>1, <1>3
  <2>3. CASE u \in Elements(a[m]) /\ v \in Elements(a[n])
    BY <2>3, <1>5 DEF InLine, Ahead
  <2>4. CASE m = i /\ u = x /\ v \in Elements(a[n])
    <3>1. CASE n < j
      <4>1. v.kind # x.kind
        BY <3>1, <2>4, <1>5 DEF x
      <4>. QED
        BY <4>1, <2>4 DEF Older
    <3>2. CASE n = j
      BY <3>2, <2>4, <1>1, <1>5
    <3>3. CASE n > j
      <4>1. j < n
        BY <3>3, <1>0, <1>5
      <4>2. Ahead(a[j], a[n])
        BY <4>1, <1>5 DEF InLine
      <4>. QED
        BY <4>2, <2>4, <1>1 DEF Ahead
    <3>4. n < j \/ n = j \/ n > j
      <4>1. n \in Int
        BY <1>0
      <4>. QED
        BY <4>1, <1>0
    <3>. QED
      BY <3>1, <3>2, <3>3, <3>4
  <2>5. CASE n = i /\ v = x /\ u \in Elements(a[m])
    <3>1. m < j
      <4>1. m \in Int /\ m < i
        BY <1>0, <1>5, <2>5
      <4>. QED
        BY <4>1, <1>0
    <3>. QED
      BY <3>1, <2>5, <1>1, <1>5 DEF InLine, Ahead
  <2>6. ~(m = i /\ n = i)
    BY <1>0, <1>5
  <2>. QED
    BY <2>1, <2>2, <2>3, <2>4, <2>5, <2>6
<1>. QED
  BY <1>1, <1>3, <1>4, <1>5 DEF InLine, Ahead

(* A new image joins a place behind which there is none of its kind. *)
Joined(a, b, j, x) ==
    /\ \A m \in Places : \A y \in Elements(a[m]) : y.id < x.id
    /\ \A m \in Places : j < m => \A y \in Elements(a[m]) : y.kind # x.kind
    /\ b[j] = Append(a[j], x) /\ \A m \in Places \ {j} : b[m] = a[m]

LEMMA Joins ==
    ASSUME NEW a \in [Places -> Seq(Image)], NEW b, NEW j \in Places, NEW x \in Image,
           InLine(a), Joined(a, b, j, x)
    PROVE  /\ InLine(b)
           /\ \A m \in Places : \A y \in Elements(b[m]) : y \in Elements(a[m]) \/ y = x
<1>. USE DEF Joined
<1>1. Elements(b[j]) = Elements(a[j]) \cup {x} /\ Rising(b[j])
  BY AppendLine DEF InLine, Older
<1>2. \A m \in Places : Rising(b[m])
  BY <1>1 DEF InLine
<1>3. ASSUME NEW m \in Places, NEW n \in Places, m < n, NEW u \in Elements(b[m]), NEW v \in Elements(b[n])
      PROVE  Older(u, v)
  <2>1. (m = j /\ u = x) \/ u \in Elements(a[m])
    BY <1>1
  <2>2. (n = j /\ v = x) \/ v \in Elements(a[n])
    BY <1>1
  <2>3. CASE u \in Elements(a[m]) /\ v \in Elements(a[n])
    BY <2>3, <1>3 DEF InLine, Ahead
  <2>4. CASE m = j /\ u = x /\ v \in Elements(a[n])
    BY <2>4, <1>3 DEF Older
  <2>5. CASE v = x /\ u \in Elements(a[m])
    BY <2>5 DEF Older
  <2>6. ~(m = j /\ n = j)
    BY <1>3 DEF Places
  <2>. QED
    BY <2>1, <2>2, <2>3, <2>4, <2>5, <2>6
<1>. QED
  BY <1>1, <1>2, <1>3 DEF InLine, Ahead

-----------------------------------------------------------------------------
(* The images of m_frames *)

LEMMA ImagesType ==
    ASSUME NEW f \in Seq(Frame)
    PROVE  /\ ImagesOf(f) \in Seq(Image) /\ Len(ImagesOf(f)) = Len(f)
           /\ \A k \in 1 .. Len(f) : ImagesOf(f)[k] = f[k].image
<1>1. Len(f) \in Nat /\ DOMAIN f = 1 .. Len(f) /\ \A k \in 1 .. Len(f) : f[k].image \in Image
  <2>1. Len(f) \in Nat /\ DOMAIN f = 1 .. Len(f)
    BY LenProperties
  <2>2. ASSUME NEW k \in 1 .. Len(f) PROVE f[k].image \in Image
    <3>1. f[k] \in Frame
      BY ElementOfSeq
    <3>. QED
      BY <3>1 DEF Frame
  <2>. QED
    BY <2>1, <2>2
<1>2. ImagesOf(f) \in [1 .. Len(f) -> Image] /\ \A k \in 1 .. Len(f) : ImagesOf(f)[k] = f[k].image
  BY <1>1 DEF ImagesOf
<1>3. ImagesOf(f) \in Seq(Image)
  BY <1>1, <1>2, SeqDef
<1>4. Len(ImagesOf(f)) = Len(f)
  BY <1>1, <1>2, <1>3, LenProperties
<1>. QED
  BY <1>2, <1>3, <1>4

LEMMA ImagesAppend ==
    ASSUME NEW f \in Seq(Frame), NEW frame \in Frame
    PROVE  ImagesOf(Append(f, frame)) = Append(ImagesOf(f), frame.image)
<1>. DEFINE s == ImagesOf(Append(f, frame))
            t == Append(ImagesOf(f), frame.image)
<1>1. /\ Append(f, frame) \in Seq(Frame) /\ Len(Append(f, frame)) = Len(f) + 1 /\ Len(f) \in Nat
      /\ Append(f, frame)[Len(f) + 1] = frame
      /\ \A k \in 1 .. Len(f) : Append(f, frame)[k] = f[k]
  BY AppendProperties, LenProperties
<1>2. /\ ImagesOf(f) \in Seq(Image) /\ Len(ImagesOf(f)) = Len(f) /\ frame.image \in Image
      /\ \A k \in 1 .. Len(f) : ImagesOf(f)[k] = f[k].image
  BY ImagesType DEF Frame
<1>3. /\ s \in Seq(Image) /\ Len(s) = Len(f) + 1
      /\ \A k \in 1 .. Len(f) + 1 : s[k] = Append(f, frame)[k].image
  BY <1>1, ImagesType
<1>4. /\ t \in Seq(Image) /\ Len(t) = Len(f) + 1 /\ t[Len(f) + 1] = frame.image
      /\ \A k \in 1 .. Len(f) : t[k] = f[k].image
  BY <1>2, AppendProperties
<1>. HIDE DEF s, t
<1>5. ASSUME NEW k \in 1 .. Len(f) + 1 PROVE s[k] = t[k]
  <2>1. k \in 1 .. Len(f) \/ k = Len(f) + 1
    BY <1>1
  <2>. QED
    BY <1>1, <1>3, <1>4, <2>1
<1>6. s = t
  BY <1>3, <1>4, <1>5, SeqEqual
<1>. QED
  BY <1>6 DEF s, t

LEMMA ImagesTail ==
    ASSUME NEW f \in Seq(Frame), f # <<>>
    PROVE  /\ ImagesOf(f) # <<>> /\ Head(ImagesOf(f)) = Head(f).image
           /\ ImagesOf(Tail(f)) = Tail(ImagesOf(f))
<1>. DEFINE s == ImagesOf(Tail(f))
            t == Tail(ImagesOf(f))
<1>1. /\ Len(f) \in Nat \ {0} /\ Tail(f) \in Seq(Frame) /\ Len(Tail(f)) = Len(f) - 1
      /\ \A k \in 1 .. Len(f) - 1 : Tail(f)[k] = f[k + 1]
  BY HeadTailProperties, EmptySeq
<1>2. /\ ImagesOf(f) \in Seq(Image) /\ Len(ImagesOf(f)) = Len(f)
      /\ \A k \in 1 .. Len(f) : ImagesOf(f)[k] = f[k].image
  BY ImagesType
<1>3. ImagesOf(f) # <<>> /\ Head(ImagesOf(f)) = Head(f).image
  BY <1>1, <1>2, EmptySeq
<1>4. s \in Seq(Image) /\ Len(s) = Len(f) - 1 /\ \A k \in 1 .. Len(f) - 1 : s[k] = Tail(f)[k].image
  BY <1>1, ImagesType
<1>5. t \in Seq(Image) /\ Len(t) = Len(f) - 1 /\ \A k \in 1 .. Len(f) - 1 : t[k] = ImagesOf(f)[k + 1]
  BY <1>2, <1>3, HeadTailProperties
<1>. HIDE DEF s, t
<1>6. ASSUME NEW k \in 1 .. Len(f) - 1 PROVE s[k] = t[k]
  <2>1. k + 1 \in 1 .. Len(f)
    BY <1>1
  <2>. QED
    BY <1>1, <1>2, <1>4, <1>5, <2>1
<1>7. s = t
  BY <1>4, <1>5, <1>6, SeqEqual
<1>. QED
  BY <1>3, <1>7 DEF s, t

LEMMA ImagesExcept ==
    ASSUME NEW f \in Seq(Frame), NEW k \in 1 .. Len(f), NEW frame \in Frame, frame.image = f[k].image
    PROVE  ImagesOf([f EXCEPT ![k] = frame]) = ImagesOf(f)
<1>1. /\ Len([f EXCEPT ![k] = frame]) = Len(f) /\ [f EXCEPT ![k] = frame] \in Seq(Frame)
      /\ \A j \in 1 .. Len(f) : [f EXCEPT ![k] = frame][j] = IF j = k THEN frame ELSE f[j]
  BY ExceptSeq
<1>. DEFINE g == [f EXCEPT ![k] = frame]
<1>2. ASSUME NEW j \in 1 .. Len(f) PROVE g[j].image = f[j].image
  BY <1>1
<1>3. g \in Seq(Frame) /\ Len(g) = Len(f)
  BY <1>1
<1>. HIDE DEF g
<1>4. /\ ImagesOf(g) \in Seq(Image) /\ Len(ImagesOf(g)) = Len(f)
      /\ \A j \in 1 .. Len(f) : ImagesOf(g)[j] = g[j].image
  BY <1>3, ImagesType
<1>5. /\ ImagesOf(f) \in Seq(Image) /\ Len(ImagesOf(f)) = Len(f)
      /\ \A j \in 1 .. Len(f) : ImagesOf(f)[j] = f[j].image
  BY ImagesType
<1>6. \A j \in 1 .. Len(f) : ImagesOf(g)[j] = ImagesOf(f)[j]
  BY <1>2, <1>4, <1>5
<1>7. ImagesOf(g) = ImagesOf(f)
  BY <1>4, <1>5, <1>6, SeqEqual
<1>. QED
  BY <1>7 DEF g

-----------------------------------------------------------------------------
(* The order of the images along the pipeline *)

(* The images of a Pipeline, from those shown to those that came last, by where they are. *)
Line == <<shown, One(ws = "emit", wsImage), ImagesOf(m_frames), One(ws = "push", wsImage),
          One(dec \in {"check", "push"}, decImage), m_avframes, inside,
          One(snd = "send", sndImage), m_framesH264>>

Arrived == \A m \in Places : \A y \in Elements(Line[m]) : y.id <= arrived

(* The JPEG images go past the decoder. *)
Sorted ==
    /\ ws = "push" => wsImage.kind = "jpeg"
    /\ ~overreadMatches =>
          /\ snd = "send" => sndImage.kind = "h264"
          /\ \A y \in Elements(m_framesH264) : y.kind = "h264"

LineInv == InLine(Line) /\ Arrived /\ Sorted

LEMMA OneIs ==
    ASSUME NEW x \in Image
    PROVE  /\ One(TRUE, x) = Append(<<>>, x) /\ One(TRUE, x) \in Seq(Image) /\ One(TRUE, x) # <<>>
           /\ Head(One(TRUE, x)) = x /\ Tail(One(TRUE, x)) = <<>>
  BY DEF One

LEMMA LineIs ==
    /\ Line[1] = shown /\ Line[2] = One(ws = "emit", wsImage) /\ Line[3] = ImagesOf(m_frames)
    /\ Line[4] = One(ws = "push", wsImage) /\ Line[5] = One(dec \in {"check", "push"}, decImage)
    /\ Line[6] = m_avframes /\ Line[7] = inside /\ Line[8] = One(snd = "send", sndImage)
    /\ Line[9] = m_framesH264
    /\ \A m \in Places : m = 1 \/ m = 2 \/ m = 3 \/ m = 4 \/ m = 5 \/ m = 6 \/ m = 7 \/ m = 8 \/ m = 9
    /\ \A j \in {1, 2, 3, 4, 5, 6, 7, 8, 9} : j \in Places
  BY DEF Line, Places

LEMMA NextLine ==
    /\ Line'[1] = shown' /\ Line'[2] = One(ws' = "emit", wsImage') /\ Line'[3] = ImagesOf(m_frames')
    /\ Line'[4] = One(ws' = "push", wsImage') /\ Line'[5] = One(dec' \in {"check", "push"}, decImage')
    /\ Line'[6] = m_avframes' /\ Line'[7] = inside' /\ Line'[8] = One(snd' = "send", sndImage')
    /\ Line'[9] = m_framesH264'
  BY DEF Line

LEMMA LineType == ReadInv => Line \in [Places -> Seq(Image)]
<1>. SUFFICES ASSUME ReadInv PROVE Line \in [Places -> Seq(Image)]
  OBVIOUS
<1>1. /\ shown \in Seq(Image) /\ ImagesOf(m_frames) \in Seq(Image) /\ m_avframes \in Seq(Image)
      /\ inside \in Seq(Image) /\ m_framesH264 \in Seq(Image)
  BY ImagesType DEF ReadInv, TypeOK
<1>2. /\ One(ws = "emit", wsImage) \in Seq(Image) /\ One(ws = "push", wsImage) \in Seq(Image)
      /\ One(dec \in {"check", "push"}, decImage) \in Seq(Image)
      /\ One(snd = "send", sndImage) \in Seq(Image)
  BY OneIs, EmptySeq DEF ReadInv, Held, One
<1>. QED
  BY <1>1, <1>2 DEF Line, Places

(* Where the images of a step's Line come from says what becomes of Arrived. *)
LEMMA ArrivedStays ==
    ASSUME Arrived, arrived' = arrived,
           \A m \in Places : \A y \in Elements(Line'[m]) : \E n \in Places : y \in Elements(Line[n])
    PROVE  Arrived'
  BY DEF Arrived, Elements

(* The two ways a step changes the line: an image passes on, or images leave. *)
LEMMA PassesOn ==
    ASSUME ReadInv, LineInv, arrived' = arrived, NEW i \in Places, NEW j \in Places,
           Passed(Line, Line', i, j)
    PROVE  InLine(Line)' /\ Arrived'
<1>1. Line \in [Places -> Seq(Image)] /\ InLine(Line)
  BY LineType DEF LineInv
<1>2. /\ InLine(Line')
      /\ \A m \in Places : \A y \in Elements(Line'[m]) : \E n \in Places : y \in Elements(Line[n])
  BY <1>1, MovesOn
<1>. QED
  BY <1>2, ArrivedStays DEF LineInv

LEMMA SomeLeave ==
    ASSUME LineInv, arrived' = arrived,
           \A m \in Places : Rising(Line'[m]) /\ Elements(Line'[m]) \subseteq Elements(Line[m])
    PROVE  InLine(Line)' /\ Arrived'
<1>1. InLine(Line')
  BY Leaves DEF LineInv
<1>2. \A m \in Places : \A y \in Elements(Line'[m]) : \E n \in Places : y \in Elements(Line[n])
  OBVIOUS
<1>. QED
  BY <1>1, <1>2, ArrivedStays DEF LineInv

LEMMA NoneMove ==
    ASSUME LineInv, arrived' = arrived, Line' = Line
    PROVE  InLine(Line)' /\ Arrived'
  BY DEF LineInv, Arrived

LEMMA NoImages == Elements(<<>>) = {} /\ Rising(<<>>)
  BY DEF Elements, Rising

LEMMA InitLine == Init => LineInv
<1>. SUFFICES ASSUME Init PROVE LineInv
  OBVIOUS
<1>1. \A m \in Places : Line[m] = <<>>
  BY LineIs, NextLine DEF Init, One, ImagesOf
<1>2. InLine(Line) /\ Arrived
  BY <1>1, NoImages DEF InLine, Ahead, Arrived
<1>. QED
  BY <1>2, NoImages DEF Init, LineInv, Sorted

-----------------------------------------------------------------------------
(* The event loop *)

LEMMA WsLine == ReadInv /\ LineInv /\ WsStep => LineInv'
<1>. SUFFICES ASSUME ReadInv, LineInv, WsStep PROVE LineInv'
  OBVIOUS
<1>0. /\ UNCHANGED <<m_framesH264, sndVars, m_avframes, decVars, mainVars, arrived>>
      /\ m_frames \in Seq(Frame)
  BY DEF WsStep, PushJpeg, StartBack, TestFront, LockToPop, PopFront, EmitSendImage, ReadInv, TypeOK
<1>1. Sorted'
  BY <1>0 DEF WsStep, PushJpeg, StartBack, TestFront, LockToPop, PopFront, EmitSendImage, LineInv,
     Sorted, sndVars, mainVars
<1>2. /\ Line'[5] = Line[5] /\ Line'[6] = Line[6] /\ Line'[7] = Line[7] /\ Line'[8] = Line[8]
      /\ Line'[9] = Line[9]
  BY <1>0, LineIs, NextLine DEF sndVars, decVars
<1>3. CASE PushJpeg
  <2>. DEFINE frame == [image |-> wsImage, done |-> FALSE, thr |-> "none"]
  <2>1. frame \in Frame /\ m_frames' = Append(m_frames, frame) /\ ws = "push" /\ ws' = "start"
        /\ shown' = shown /\ wsImage \in Image
    BY <1>3 DEF PushJpeg, ReadInv, Held, Frame
  <2>2. ImagesOf(m_frames') = Append(ImagesOf(m_frames), wsImage)
    BY <1>0, <2>1, ImagesAppend
  <2>3. Line[4] # <<>> /\ Head(Line[4]) = wsImage /\ Tail(Line[4]) = <<>>
    BY <2>1, LineIs, NextLine, OneIs
  <2>4. Line'[3] = Append(Line[3], Head(Line[4])) /\ Line'[4] = Tail(Line[4])
    BY <2>1, <2>2, <2>3, LineIs, NextLine DEF One
  <2>5. Line'[1] = Line[1] /\ Line'[2] = Line[2]
    BY <2>1, LineIs, NextLine DEF One
  <2>6. \A m \in Places \ {3, 4} : Line'[m] = Line[m]
    BY <1>2, <2>5, LineIs, NextLine
  <2>7. 3 \in Places /\ 4 \in Places /\ \A m \in Places : ~(3 < m /\ m < 4)
    BY DEF Places
  <2>8. InLine(Line)' /\ Arrived'
    BY <1>0, <2>3, <2>4, <2>6, <2>7, PassesOn DEF Passed
  <2>. QED
    BY <1>1, <2>8 DEF LineInv
<1>4. CASE StartBack
  <2>. DEFINE k == Len(m_frames)
              frame == [m_frames[k] EXCEPT !.thr = "running"]
  <2>1. k \in 1 .. Len(m_frames) /\ m_frames[k] \in Frame
    BY <1>0, <1>4, EmptySeq, ElementOfSeq DEF StartBack, ReadInv, UnlockedReadsHold
  <2>2. frame \in Frame /\ frame.image = m_frames[k].image
    BY <2>1 DEF Frame
  <2>3. m_frames' = [m_frames EXCEPT ![k] = frame] /\ ws = "start" /\ ws' = "loop" /\ shown' = shown
    BY <1>4 DEF StartBack, Back
  <2>. HIDE DEF k, frame
  <2>4. ImagesOf(m_frames') = ImagesOf(m_frames)
    BY <1>0, <2>1, <2>2, <2>3, ImagesExcept
  <2>5. Line' = Line
    BY <1>0, <2>3, <2>4 DEF Line, One, sndVars, decVars
  <2>. QED
    BY <1>0, <1>1, <2>5, NoneMove DEF LineInv
<1>5. CASE TestFront \/ LockToPop
  <2>1. UNCHANGED <<m_frames, shown, wsImage>> /\ ws \in {"timeout", "lock"} /\ ws' \in {"lock", "loop", "pop"}
    BY <1>5 DEF TestFront, LockToPop
  <2>2. Line' = Line
    BY <1>0, <2>1 DEF Line, One, sndVars, decVars
  <2>. QED
    BY <1>0, <1>1, <2>2, NoneMove DEF LineInv
<1>6. CASE PopFront
  <2>1. /\ m_frames # <<>> /\ m_frames' = Tail(m_frames) /\ ws = "pop" /\ ws' = "emit"
        /\ wsImage' = Head(m_frames).image /\ shown' = shown
    BY <1>6 DEF PopFront, ReadInv, UnlockedReadsHold, FrontDone
  <2>2. /\ Line[3] # <<>> /\ Head(Line[3]) = wsImage' /\ Line'[3] = Tail(Line[3])
    BY <1>0, <2>1, ImagesTail, LineIs, NextLine
  <2>3. Line[2] = <<>> /\ Line'[2] = <<wsImage'>>
    BY <2>1, LineIs, NextLine DEF One
  <2>4. Line'[2] = Append(Line[2], Head(Line[3]))
    BY <2>2, <2>3
  <2>5. Line'[1] = Line[1] /\ Line'[4] = Line[4]
    BY <2>1, LineIs, NextLine DEF One
  <2>6. \A m \in Places \ {2, 3} : Line'[m] = Line[m]
    BY <1>2, <2>5, LineIs, NextLine
  <2>7. 2 \in Places /\ 3 \in Places /\ \A m \in Places : ~(2 < m /\ m < 3)
    BY DEF Places
  <2>8. InLine(Line)' /\ Arrived'
    BY <1>0, <2>2, <2>4, <2>6, <2>7, PassesOn DEF Passed
  <2>. QED
    BY <1>1, <2>8 DEF LineInv
<1>7. CASE EmitSendImage
  <2>1. /\ ws = "emit" /\ ws' = "timeout" /\ wsImage \in Image
        /\ shown' = Append(shown, wsImage) /\ m_frames' = m_frames
    BY <1>7 DEF EmitSendImage, ReadInv, Held
  <2>2. Line[2] # <<>> /\ Head(Line[2]) = wsImage /\ Tail(Line[2]) = <<>>
    BY <2>1, LineIs, NextLine, OneIs
  <2>3. Line'[1] = Append(Line[1], Head(Line[2])) /\ Line'[2] = Tail(Line[2])
    BY <2>1, <2>2, LineIs, NextLine DEF One
  <2>5. Line'[3] = Line[3] /\ Line'[4] = Line[4]
    BY <2>1, LineIs, NextLine DEF One
  <2>6. \A m \in Places \ {1, 2} : Line'[m] = Line[m]
    BY <1>2, <2>5, LineIs, NextLine
  <2>7. 1 \in Places /\ 2 \in Places /\ \A m \in Places : ~(1 < m /\ m < 2)
    BY DEF Places
  <2>8. InLine(Line)' /\ Arrived'
    BY <1>0, <2>2, <2>3, <2>6, <2>7, PassesOn DEF Passed
  <2>. QED
    BY <1>1, <2>8 DEF LineInv
<1>. QED
  BY <1>3, <1>4, <1>5, <1>6, <1>7 DEF WsStep

LEMMA JoinsLine ==
    ASSUME ReadInv, LineInv, arrived' = arrived + 1, NEW j \in Places, NEW x \in Image,
           x.id = arrived + 1, Line'[j] = Append(Line[j], x),
           \A m \in Places : j < m => \A y \in Elements(Line[m]) : y.kind # x.kind,
           \A m \in Places \ {j} : Line'[m] = Line[m]
    PROVE  InLine(Line)' /\ Arrived'
<1>1. Line \in [Places -> Seq(Image)] /\ InLine(Line) /\ arrived \in Nat
  BY LineType DEF LineInv, ReadInv, TypeOK
<1>2. ASSUME NEW m \in Places, NEW y \in Elements(Line[m]) PROVE y.id <= arrived /\ y.id \in Int
  <2>1. y \in Image
    <3>1. Line[m] \in Seq(Image)
      BY <1>1
    <3>2. PICK k \in DOMAIN Line[m] : y = Line[m][k]
      BY DEF Elements
    <3>. QED
      BY <3>1, <3>2, LenProperties, ElementOfSeq
  <2>2. y.id \in Int
    BY <2>1 DEF Image
  <2>. QED
    BY <1>2, <2>2 DEF LineInv, Arrived
<1>3. \A m \in Places : \A y \in Elements(Line[m]) : y.id < x.id
  BY <1>1, <1>2
<1>4. Joined(Line, Line', j, x)
  BY <1>3 DEF Joined
<1>5. /\ InLine(Line')
      /\ \A m \in Places : \A y \in Elements(Line'[m]) : y \in Elements(Line[m]) \/ y = x
  BY <1>1, <1>4, Joins
<1>6. ASSUME NEW m \in Places, NEW y \in Elements(Line'[m]) PROVE y.id <= arrived'
  <2>1. CASE y = x
    BY <2>1, <1>1
  <2>2. CASE y \in Elements(Line[m])
    BY <2>2, <1>1, <1>2
  <2>. QED
    BY <1>5, <1>6, <2>1, <2>2
<1>. QED
  BY <1>5, <1>6 DEF Arrived

LEMMA NoneJoins ==
    ASSUME ReadInv, LineInv, arrived' = arrived + 1, Line' = Line, Sorted'
    PROVE  LineInv'
<1>1. ASSUME NEW m \in Places, NEW y \in Elements(Line[m]) PROVE y.id <= arrived + 1
  <2>1. Line[m] \in Seq(Image)
    BY LineType
  <2>2. y \in Image
    BY <2>1, <1>1, LenProperties, ElementOfSeq DEF Elements
  <2>3. y.id \in Int /\ arrived \in Int /\ y.id <= arrived
    BY <1>1, <2>2 DEF Image, LineInv, Arrived, ReadInv, TypeOK
  <2>. QED
    BY <2>3
<1>. QED
  BY <1>1 DEF LineInv, Arrived

LEMMA OnlyH264 ==
    ASSUME BoundInv
    PROVE  \A m \in {5, 6, 7} : \A y \in Elements(Line[m]) : y.kind = "h264"
<1>1. m_avframes \in Seq(H264) /\ inside \in Seq(H264)
      /\ (dec \in {"check", "push"} => decImage \in H264)
  BY DEF BoundInv, Decoded
<1>2. ASSUME NEW s \in Seq(H264), NEW y \in Elements(s) PROVE y.kind = "h264"
  BY <1>2, LenProperties, ElementOfSeq DEF Elements, H264
<1>3. \A y \in Elements(One(dec \in {"check", "push"}, decImage)) : y.kind = "h264"
  <2>1. CASE dec \in {"check", "push"}
    <3>1. One(dec \in {"check", "push"}, decImage) = <<decImage>>
      BY <2>1 DEF One
    <3>. QED
      BY <1>1, <2>1, <3>1 DEF Elements, H264
  <2>2. CASE dec \notin {"check", "push"}
    <3>1. One(dec \in {"check", "push"}, decImage) = <<>>
      BY <2>2 DEF One
    <3>. QED
      BY <3>1, NoImages
  <2>. QED
    BY <2>1, <2>2
<1>. QED
  BY <1>1, <1>2, <1>3, LineIs

LEMMA EventLine == ReadInv /\ BoundInv /\ LineInv /\ Event => LineInv'
<1>. SUFFICES ASSUME ReadInv, BoundInv, LineInv, Event PROVE LineInv'
  OBVIOUS
<1>0. /\ UNCHANGED <<sndVars, m_avframes, decVars, mainVars, m_frames, shown>> /\ ws = "loop"
  BY DEF Event, ReceiveJpeg, ReceiveH264
<1>1. CASE \E kind \in Kinds : ReceiveJpeg(kind)
  <2>1. PICK kind \in Kinds : ReceiveJpeg(kind)
    BY <1>1
  <2>. DEFINE x == NextImage(kind)
  <2>2. x \in Image /\ x.id = arrived + 1 /\ x.kind = "jpeg" /\ ~overreadMatches /\ arrived' = arrived + 1
        /\ m_framesH264' = m_framesH264
    BY <2>1, NextImageIsImage, WebSockAssumption DEF ReceiveJpeg, IsJpeg, NextImage, ReadInv
  <2>. HIDE DEF x
  <2>3. Sorted'
    <3>1. ws' = "push" => wsImage'.kind = "jpeg"
      BY <2>1, <2>2, <1>0 DEF ReceiveJpeg, x
    <3>2. UNCHANGED <<snd, sndImage, overreadMatches>>
      BY <1>0 DEF sndVars, mainVars
    <3>. QED
      BY <2>2, <3>1, <3>2 DEF LineInv, Sorted
  <2>4. /\ Line'[1] = Line[1] /\ Line'[2] = Line[2] /\ Line'[3] = Line[3] /\ Line'[5] = Line[5]
        /\ Line'[6] = Line[6] /\ Line'[7] = Line[7] /\ Line'[8] = Line[8] /\ Line'[9] = Line[9]
    BY <2>1, <2>2, <1>0, LineIs, NextLine DEF ReceiveJpeg, One, sndVars, decVars
  <2>5. CASE JpegFits
    <3>1. Line'[4] = Append(Line[4], x)
      BY <2>1, <2>5, <1>0, LineIs, NextLine DEF ReceiveJpeg, One, x
    <3>2. \A m \in Places : 4 < m => m \in {5, 6, 7, 8, 9}
      BY DEF Places
    <3>3. \A y \in Elements(Line[8]) : y.kind # "jpeg"
      <4>1. CASE snd = "send"
        BY <4>1, <2>2, LineIs DEF One, Elements, LineInv, Sorted
      <4>2. CASE snd # "send"
        BY <4>2, LineIs, NoImages DEF One
      <4>. QED
        BY <4>1, <4>2
    <3>4. \A y \in Elements(Line[9]) : y.kind # "jpeg"
      BY <2>2, LineIs DEF LineInv, Sorted
    <3>5. \A m \in Places : 4 < m => \A y \in Elements(Line[m]) : y.kind # x.kind
      BY <3>2, <3>3, <3>4, <2>2, OnlyH264
    <3>6. \A m \in Places \ {4} : Line'[m] = Line[m]
      BY <2>4, LineIs
    <3>7. 4 \in Places
      BY LineIs
    <3>8. InLine(Line)' /\ Arrived'
      BY <2>2, <3>1, <3>5, <3>6, <3>7, JoinsLine
    <3>. QED
      BY <2>3, <3>8 DEF LineInv
  <2>6. CASE ~JpegFits
    <3>1. Line' = Line
      BY <2>1, <2>2, <2>6, <1>0 DEF Line, ReceiveJpeg, sndVars, decVars
    <3>. QED
      BY <2>2, <2>3, <3>1, NoneJoins
  <2>. QED
    BY <2>5, <2>6
<1>2. CASE \E kind \in Kinds : ReceiveH264(kind)
  <2>1. PICK kind \in Kinds : ReceiveH264(kind)
    BY <1>2
  <2>. DEFINE x == NextImage(kind)
  <2>2. x \in Image /\ x.id = arrived + 1 /\ arrived' = arrived + 1 /\ UNCHANGED <<ws, wsImage>>
        /\ (~overreadMatches => x.kind = "h264") /\ m_framesH264 \in Seq(Image)
    <3>1. kind \in {"jpeg", "h264"} /\ arrived < MaxImages /\ ~IsJpeg(kind) /\ TypeOK
      BY <2>1, WebSockAssumption DEF ReceiveH264, ReadInv
    <3>2. x \in Image
      BY <3>1, NextImageIsImage
    <3>. QED
      BY <2>1, <3>1, <3>2 DEF ReceiveH264, IsJpeg, NextImage, TypeOK
  <2>3. \/ m_framesH264' = m_framesH264
        \/ m_framesH264' = Append(m_framesH264, x)
    BY <2>1 DEF ReceiveH264
  <2>. HIDE DEF x
  <2>4. Sorted'
    <3>1. Elements(m_framesH264') \subseteq Elements(m_framesH264) \cup {x}
      BY <2>2, <2>3, AppendLine
    <3>2. UNCHANGED <<snd, sndImage, overreadMatches>>
      BY <1>0 DEF sndVars, mainVars
    <3>. QED
      BY <2>2, <3>1, <3>2 DEF LineInv, Sorted
  <2>5. CASE m_framesH264' = m_framesH264
    <3>1. Line' = Line
      BY <2>2, <2>5, <1>0 DEF Line, sndVars, decVars
    <3>. QED
      BY <2>2, <2>4, <3>1, NoneJoins
  <2>6. CASE m_framesH264' = Append(m_framesH264, x)
    <3>1. Line'[9] = Append(Line[9], x)
      BY <2>6, LineIs, NextLine
    <3>2. 9 \in Places /\ \A m \in Places : ~(9 < m)
      BY DEF Places
    <3>3. /\ Line'[1] = Line[1] /\ Line'[2] = Line[2] /\ Line'[3] = Line[3] /\ Line'[4] = Line[4]
          /\ Line'[5] = Line[5] /\ Line'[6] = Line[6] /\ Line'[7] = Line[7] /\ Line'[8] = Line[8]
      BY <2>2, <1>0, LineIs, NextLine DEF sndVars, decVars
    <3>4. \A m \in Places \ {9} : Line'[m] = Line[m]
      BY <3>3, LineIs
    <3>5. InLine(Line)' /\ Arrived'
      BY <2>2, <3>1, <3>2, <3>4, JoinsLine
    <3>. QED
      BY <2>4, <3>5 DEF LineInv
  <2>. QED
    BY <2>3, <2>5, <2>6
<1>3. CASE ws' = "timeout" /\ UNCHANGED <<arrived, wsImage, m_framesH264, m_frames, m_mutex, shown>>
  <2>1. Line' = Line
    BY <1>0, <1>3 DEF Line, One, sndVars, decVars
  <2>2. Sorted'
    BY <1>0, <1>3 DEF LineInv, Sorted, sndVars, mainVars
  <2>. QED
    BY <1>3, <2>1, <2>2, NoneMove DEF LineInv
<1>. QED
  BY <1>1, <1>2, <1>3 DEF Event

-----------------------------------------------------------------------------
(* The other threads *)

LEMMA SndLine == ReadInv /\ LineInv /\ SndStep => LineInv'
<1>. SUFFICES ASSUME ReadInv, LineInv, SndStep PROVE LineInv'
  OBVIOUS
<1>0. /\ UNCHANGED <<wsVars, decVars, m_frames, mainVars>> /\ arrived' = arrived
      /\ m_framesH264 \in Seq(Image) /\ inside \in Seq(Image) /\ m_avframes \in Seq(Image)
  BY DEF SndStep, wsVars, ReadInv, TypeOK
<1>1. /\ Line'[1] = Line[1] /\ Line'[2] = Line[2] /\ Line'[3] = Line[3] /\ Line'[4] = Line[4]
      /\ Line'[5] = Line[5]
  BY <1>0, LineIs, NextLine DEF wsVars, decVars
<1>2. CASE SndTop \/ ReceiveAgain
  <2>1. UNCHANGED <<m_framesH264, sndImage, inside, m_avframes>> /\ snd # "send" /\ snd' # "send"
    BY <1>2 DEF SndTop, ReceiveAgain
  <2>2. Line' = Line
    BY <1>0, <2>1 DEF Line, One, wsVars, decVars
  <2>3. Sorted'
    BY <1>0, <2>1 DEF LineInv, Sorted, wsVars, mainVars
  <2>. QED
    BY <1>0, <2>2, <2>3, NoneMove DEF LineInv
<1>3. CASE ReceivePicture
  <2>1. /\ inside # <<>> /\ inside' = Tail(inside) /\ UNCHANGED <<m_framesH264, snd, sndImage>>
        /\ m_avframes' = IF PictureFits THEN Append(m_avframes, Head(inside)) ELSE m_avframes
    BY <1>0, <1>3, EmptySeq DEF ReceivePicture, ReadInv, TypeOK
  <2>2. Line'[7] = Tail(Line[7]) /\ Line'[8] = Line[8] /\ Line'[9] = Line[9] /\ Line[7] # <<>>
    BY <2>1, LineIs, NextLine
  <2>3. InLine(Line)' /\ Arrived'
    <3>1. CASE PictureFits
      <4>1. Line'[6] = Append(Line[6], Head(Line[7]))
        BY <3>1, <2>1, LineIs, NextLine
      <4>2. \A m \in Places \ {6, 7} : Line'[m] = Line[m]
        BY <1>1, <2>2, LineIs
      <4>3. 6 \in Places /\ 7 \in Places /\ \A m \in Places : ~(6 < m /\ m < 7)
        BY DEF Places
      <4>. QED
        BY <1>0, <2>2, <4>1, <4>2, <4>3, PassesOn DEF Passed
    <3>2. CASE ~PictureFits
      <4>1. \A m \in Places \ {7} : Line'[m] = Line[m]
        BY <3>2, <1>1, <2>1, <2>2, LineIs, NextLine
      <4>2. Rising(Line[7]) /\ 7 \in Places
        BY LineIs DEF LineInv, InLine
      <4>3. Rising(Tail(Line[7])) /\ Elements(Tail(Line[7])) \subseteq Elements(Line[7])
        BY <1>0, <2>2, <4>2, LineIs, TailLine
      <4>4. \A m \in Places : Rising(Line'[m]) /\ Elements(Line'[m]) \subseteq Elements(Line[m])
        BY <2>2, <4>1, <4>3 DEF LineInv, InLine
      <4>. QED
        BY <1>0, <4>4, SomeLeave
    <3>. QED
      BY <3>1, <3>2
  <2>4. Sorted'
    BY <1>0, <2>1 DEF LineInv, Sorted, wsVars, mainVars
  <2>. QED
    BY <2>3, <2>4 DEF LineInv
<1>4. CASE TakePacket
  <2>1. UNCHANGED <<inside, m_avframes>> /\ snd = "take"
    BY <1>4 DEF TakePacket
  <2>2. CASE m_framesH264 = <<>>
    <3>1. UNCHANGED <<m_framesH264, sndImage>> /\ snd' = "top"
      BY <1>4, <2>2 DEF TakePacket
    <3>2. Line' = Line
      BY <1>0, <2>1, <3>1 DEF Line, One, wsVars, decVars
    <3>3. Sorted'
      BY <1>0, <3>1 DEF LineInv, Sorted, wsVars, mainVars
    <3>. QED
      BY <1>0, <3>2, <3>3, NoneMove DEF LineInv
  <2>3. CASE m_framesH264 # <<>>
    <3>1. snd' = "send" /\ sndImage' = Head(m_framesH264) /\ m_framesH264' = Tail(m_framesH264)
      BY <1>4, <2>3 DEF TakePacket
    <3>2. /\ Line[9] # <<>> /\ Line'[9] = Tail(Line[9]) /\ Line[8] = <<>>
          /\ Line'[8] = <<Head(Line[9])>> /\ Line'[6] = Line[6] /\ Line'[7] = Line[7]
      BY <2>1, <2>3, <3>1, LineIs, NextLine DEF One
    <3>3. Line'[8] = Append(Line[8], Head(Line[9]))
      BY <3>2
    <3>4. \A m \in Places \ {8, 9} : Line'[m] = Line[m]
      BY <1>1, <3>2, LineIs
    <3>5. 8 \in Places /\ 9 \in Places /\ \A m \in Places : ~(8 < m /\ m < 9)
      BY DEF Places
    <3>6. InLine(Line)' /\ Arrived'
      <4>1. Passed(Line, Line', 8, 9)
        BY <1>0, <3>2, <3>3, <3>4, <3>5 DEF Passed
      <4>. QED
        BY <1>0, <3>5, <4>1, PassesOn
    <3>7. Head(m_framesH264) \in Elements(m_framesH264)
          /\ Elements(m_framesH264') \subseteq Elements(m_framesH264)
      BY <1>0, <2>3, <3>1, TailLine
    <3>8. Sorted'
      BY <1>0, <3>1, <3>7 DEF LineInv, Sorted, wsVars, mainVars
    <3>. QED
      BY <3>6, <3>8 DEF LineInv
  <2>. QED
    BY <2>2, <2>3
<1>5. CASE SendPacket
  <2>1. /\ UNCHANGED <<m_framesH264, m_avframes>> /\ snd = "send" /\ snd' = "top" /\ sndImage \in Image
        /\ inside' \in {inside, Append(inside, sndImage)}
    BY <1>5 DEF SendPacket, ReadInv, Held
  <2>2. Line[8] # <<>> /\ Head(Line[8]) = sndImage /\ Tail(Line[8]) = <<>>
    BY <2>1, LineIs, OneIs
  <2>3. Line'[8] = <<>> /\ Line'[6] = Line[6] /\ Line'[9] = Line[9]
    BY <2>1, LineIs, NextLine DEF One
  <2>4. InLine(Line)' /\ Arrived'
    <3>1. CASE inside' = Append(inside, sndImage)
      <4>1. Line'[7] = Append(Line[7], Head(Line[8]))
        BY <3>1, <2>2, LineIs, NextLine
      <4>2. \A m \in Places \ {7, 8} : Line'[m] = Line[m]
        BY <1>1, <2>3, LineIs
      <4>3. 7 \in Places /\ 8 \in Places /\ \A m \in Places : ~(7 < m /\ m < 8)
        BY DEF Places
      <4>. QED
        <5>1. Passed(Line, Line', 7, 8)
          BY <1>0, <2>2, <2>3, <4>1, <4>2, <4>3 DEF Passed
        <5>. QED
          BY <1>0, <4>3, <5>1, PassesOn
    <3>2. CASE inside' = inside
      <4>1. \A m \in Places \ {8} : Line'[m] = Line[m]
        BY <3>2, <1>1, <2>3, LineIs, NextLine
      <4>2. \A m \in Places : Rising(Line'[m]) /\ Elements(Line'[m]) \subseteq Elements(Line[m])
        BY <2>3, <4>1, NoImages DEF LineInv, InLine
      <4>. QED
        BY <1>0, <4>2, SomeLeave
    <3>. QED
      BY <2>1, <3>1, <3>2
  <2>5. Sorted'
    BY <1>0, <2>1 DEF LineInv, Sorted, wsVars, mainVars
  <2>. QED
    BY <2>4, <2>5 DEF LineInv
<1>. QED
  BY <1>2, <1>3, <1>4, <1>5 DEF SndStep

LEMMA DecLine == ReadInv /\ BoundInv /\ LineInv /\ DecStep => LineInv'
<1>. SUFFICES ASSUME ReadInv, BoundInv, LineInv, DecStep PROVE LineInv'
  OBVIOUS
<1>0. /\ UNCHANGED <<wsVars, m_framesH264, sndVars, mainVars>> /\ arrived' = arrived
      /\ m_frames \in Seq(Frame)
  BY DEF DecStep, wsVars, ReadInv, TypeOK
<1>1. /\ Line'[1] = Line[1] /\ Line'[2] = Line[2] /\ Line'[4] = Line[4] /\ Line'[7] = Line[7]
      /\ Line'[8] = Line[8] /\ Line'[9] = Line[9]
  BY <1>0, LineIs, NextLine DEF wsVars, sndVars
<1>2. Sorted'
  BY <1>0 DEF LineInv, Sorted, wsVars, sndVars, mainVars
<1>3. CASE DecTop
  <2>1. dec = "top" /\ m_frames' = m_frames
    BY <1>3 DEF DecTop
  <2>2. CASE m_done
    <3>1. dec' = "stopped" /\ UNCHANGED <<decImage, m_avframes>>
      BY <1>3, <2>2 DEF DecTop
    <3>2. Line' = Line
      BY <1>0, <2>1, <3>1 DEF Line, One, wsVars, sndVars
    <3>. QED
      BY <1>0, <1>2, <3>2, NoneMove DEF LineInv
  <2>3. CASE ~m_done
    <3>1. m_avframes # <<>> /\ dec' = "check" /\ decImage' = Head(m_avframes) /\ m_avframes' = Tail(m_avframes)
      BY <1>3, <2>3 DEF DecTop
    <3>2. /\ Line[6] # <<>> /\ Line'[6] = Tail(Line[6]) /\ Line[5] = <<>>
          /\ Line'[5] = <<Head(Line[6])>> /\ Line'[3] = Line[3]
      BY <2>1, <3>1, LineIs, NextLine DEF One
    <3>3. Line'[5] = Append(Line[5], Head(Line[6]))
      BY <3>2
    <3>4. \A m \in Places \ {5, 6} : Line'[m] = Line[m]
      BY <1>1, <3>2, LineIs
    <3>5. 5 \in Places /\ 6 \in Places /\ \A m \in Places : ~(5 < m /\ m < 6)
      BY DEF Places
    <3>6. InLine(Line)' /\ Arrived'
      <4>1. Passed(Line, Line', 5, 6)
        BY <1>0, <3>2, <3>3, <3>4, <3>5 DEF Passed
      <4>. QED
        BY <1>0, <3>5, <4>1, PassesOn
    <3>. QED
      BY <1>2, <3>6 DEF LineInv
  <2>. QED
    BY <2>2, <2>3
<1>4. CASE DecCheck
  <2>1. dec = "check" /\ UNCHANGED <<m_avframes, m_frames>> /\ dec' \in {"push", "top"}
        /\ (dec' = "push" => decImage' = decImage)
    BY <1>4 DEF DecCheck
  <2>2. Line'[3] = Line[3] /\ Line'[6] = Line[6] /\ Line'[5] \in {Line[5], <<>>}
    BY <2>1, LineIs, NextLine DEF One
  <2>3. \A m \in Places \ {5} : Line'[m] = Line[m]
    BY <1>1, <2>2, LineIs
  <2>4. \A m \in Places : Rising(Line'[m]) /\ Elements(Line'[m]) \subseteq Elements(Line[m])
    BY <2>2, <2>3, NoImages DEF LineInv, InLine
  <2>. QED
    BY <1>0, <1>2, <2>4, SomeLeave DEF LineInv
<1>5. CASE DecPush
  <2>1. /\ DecodedFrame \in Frame /\ DecodedFrame.image = decImage /\ decImage \in Image /\ decImage.kind = "h264"
        /\ m_frames' = Append(m_frames, DecodedFrame) /\ dec = "push" /\ dec' = "top"
        /\ m_avframes' = m_avframes
    BY <1>5, DecodedIsFrame DEF DecPush, BoundInv, Decoded, H264, DecodedFrame
  <2>2. ImagesOf(m_frames') = Append(ImagesOf(m_frames), decImage)
    BY <1>0, <2>1, ImagesAppend
  <2>3. Line[5] # <<>> /\ Head(Line[5]) = decImage /\ Tail(Line[5]) = <<>>
    BY <2>1, LineIs, OneIs
  <2>4. Line'[3] = Append(Line[3], Head(Line[5])) /\ Line'[5] = Tail(Line[5]) /\ Line'[6] = Line[6]
    BY <2>1, <2>2, <2>3, LineIs, NextLine DEF One
  <2>5. \A m \in Places \ {3, 5} : Line'[m] = Line[m]
    BY <1>1, <2>4, LineIs
  <2>6. 3 \in Places /\ 5 \in Places /\ \A m \in Places : 3 < m /\ m < 5 => m = 4
    BY DEF Places
  <2>7. \A y \in Elements(Line[4]) : y.kind = "jpeg"
    <3>1. CASE ws = "push"
      BY <3>1, LineIs DEF One, Elements, LineInv, Sorted
    <3>2. CASE ws # "push"
      BY <3>2, LineIs, NoImages DEF One
    <3>. QED
      BY <3>1, <3>2
  <2>8. \A m \in Places : 3 < m /\ m < 5 => \A y \in Elements(Line[m]) : y.kind # Head(Line[5]).kind
    BY <2>1, <2>3, <2>6, <2>7
  <2>9. InLine(Line)' /\ Arrived'
    BY <1>0, <2>3, <2>4, <2>5, <2>6, <2>8, PassesOn DEF Passed
  <2>. QED
    BY <1>2, <2>9 DEF LineInv
<1>. QED
  BY <1>3, <1>4, <1>5 DEF DecStep

LEMMA EncodeLine == ReadInv /\ LineInv /\ Encode => LineInv'
<1>. SUFFICES ASSUME ReadInv, LineInv, Encode PROVE LineInv'
  OBVIOUS
<1>1. PICK k \in DOMAIN m_frames : m_frames[k].thr = "running"
                                   /\ m_frames' = [m_frames EXCEPT ![k] = Encoded(m_frames[k])]
  BY DEF Encode
<1>2. m_frames \in Seq(Frame) /\ k \in 1 .. Len(m_frames) /\ m_frames[k] \in Frame
  BY <1>1, LenProperties, ElementOfSeq DEF ReadInv, TypeOK
<1>3. Encoded(m_frames[k]) \in Frame /\ Encoded(m_frames[k]).image = m_frames[k].image
  BY <1>2 DEF Encoded, Frame
<1>4. ImagesOf(m_frames') = ImagesOf(m_frames)
  BY <1>1, <1>2, <1>3, ImagesExcept
<1>5. UNCHANGED <<wsVars, m_framesH264, sndVars, m_avframes, decVars, mainVars>> /\ arrived' = arrived
  BY DEF Encode, wsVars
<1>6. Line' = Line
  BY <1>4, <1>5 DEF Line, wsVars, sndVars, decVars
<1>7. Sorted'
  BY <1>5 DEF LineInv, Sorted, wsVars, sndVars, mainVars
<1>. QED
  BY <1>5, <1>6, <1>7, NoneMove DEF LineInv

LEMMA MainLine == ReadInv /\ LineInv /\ (LeaveLoop \/ Destroy \/ Destroyed) => LineInv'
<1>. SUFFICES ASSUME ReadInv, LineInv, LeaveLoop \/ Destroy \/ Destroyed PROVE LineInv'
  OBVIOUS
<1>1. CASE LeaveLoop \/ Destroy
  <2>1. /\ UNCHANGED <<arrived, shown, wsImage, m_framesH264, sndVars, m_avframes, decVars, m_frames>>
        /\ overreadMatches' = overreadMatches
        /\ (ws' = ws \/ (ws = "loop" /\ ws' = "stopped"))
    BY <1>1 DEF LeaveLoop, Destroy, wsVars, mainVars
  <2>2. Line' = Line
    BY <2>1 DEF Line, One, sndVars, decVars
  <2>3. Sorted'
    BY <2>1 DEF LineInv, Sorted, sndVars
  <2>. QED
    BY <2>1, <2>2, <2>3, NoneMove DEF LineInv
<1>2. CASE Destroyed
  <2>1. /\ m_frames' = <<>> /\ m_framesH264' = <<>> /\ inside' = <<>> /\ m_avframes' = <<>>
        /\ UNCHANGED <<arrived, ws, wsImage, shown, snd, sndImage, dec, decImage, overreadMatches>>
    BY <1>2 DEF Destroyed, wsVars, decVars
  <2>2. ImagesOf(<<>>) = <<>>
    BY DEF ImagesOf
  <2>3. \A m \in Places : Line'[m] \in {Line[m], <<>>}
    BY <2>1, <2>2, LineIs, NextLine
  <2>4. \A m \in Places : Rising(Line'[m]) /\ Elements(Line'[m]) \subseteq Elements(Line[m])
    BY <2>3, NoImages DEF LineInv, InLine
  <2>5. Sorted'
    BY <2>1, NoImages DEF LineInv, Sorted
  <2>. QED
    BY <2>1, <2>4, <2>5, SomeLeave DEF LineInv
<1>. QED
  BY <1>1, <1>2

LEMMA StutterLine == LineInv /\ UNCHANGED vars => LineInv'
<1>. SUFFICES ASSUME LineInv, UNCHANGED vars PROVE LineInv'
  OBVIOUS
<1>1. Line' = Line /\ Sorted' /\ arrived' = arrived
  BY DEF Line, vars, wsVars, sndVars, decVars, mainVars, LineInv, Sorted
<1>. QED
  BY <1>1, NoneMove DEF LineInv

(* The images of the first n places, one place after the other. *)
Front(p, n) ==
    /\ p \in Seq(Image) /\ Rising(p)
    /\ \A y \in Elements(p) : \E m \in Places : m <= n /\ y \in Elements(Line[m])

LEMMA FrontGrows ==
    ASSUME ReadInv, InLine(Line), NEW n \in 1 .. 8, NEW p, Front(p, n)
    PROVE  Front(p \o Line[n + 1], n + 1)
<1>. DEFINE j == n + 1
<1>1. n \in Int /\ j \in Places /\ j \in Int /\ n < j /\ \A m \in Places : m \in Int
  BY DEF Places
<1>2. Line[j] \in Seq(Image) /\ Rising(Line[j])
  BY <1>1, LineType DEF InLine
<1>. HIDE DEF j
<1>3. Ahead(p, Line[j])
  <2>1. ASSUME NEW x \in Elements(p), NEW y \in Elements(Line[j]) PROVE Older(x, y)
    <3>1. PICK m \in Places : m <= n /\ x \in Elements(Line[m])
      BY DEF Front
    <3>2. m < j
      BY <1>1, <3>1
    <3>. QED
      BY <1>1, <2>1, <3>1, <3>2 DEF InLine, Ahead
  <2>. QED
    BY <2>1 DEF Ahead
<1>4. /\ p \o Line[j] \in Seq(Image) /\ Rising(p \o Line[j])
      /\ Elements(p \o Line[j]) = Elements(p) \cup Elements(Line[j])
  BY <1>2, <1>3, ConcatLine DEF Front
<1>5. ASSUME NEW y \in Elements(p \o Line[j]) PROVE \E m \in Places : m <= j /\ y \in Elements(Line[m])
  <2>1. CASE y \in Elements(p)
    <3>1. PICK m \in Places : m <= n /\ y \in Elements(Line[m])
      BY <2>1 DEF Front
    <3>2. m <= j
      BY <1>1, <3>1
    <3>. QED
      BY <3>1, <3>2
  <2>2. CASE y \in Elements(Line[j])
    <3>1. j <= j
      BY <1>1
    <3>. QED
      BY <2>2, <1>1, <3>1
  <2>. QED
    BY <1>4, <1>5, <2>1, <2>2
<1>6. Front(p \o Line[j], j)
  BY <1>4, <1>5 DEF Front
<1>. QED
  BY <1>6 DEF j

(* A line that is in order place by place is in order as one. *)
LEMMA LineRises ==
    ASSUME ReadInv, InLine(Line)
    PROVE  Rising(Pipeline)
<1>. DEFINE p2 == Line[1] \o Line[2]  p3 == p2 \o Line[3]  p4 == p3 \o Line[4]  p5 == p4 \o Line[5]
            p6 == p5 \o Line[6]  p7 == p6 \o Line[7]  p8 == p7 \o Line[8]  p9 == p8 \o Line[9]
<1>1. Front(Line[1], 1)
  <2>1. Line[1] \in Seq(Image) /\ Rising(Line[1]) /\ 1 \in Places /\ 1 <= 1
    BY LineType, LineIs DEF InLine
  <2>. QED
    BY <2>1 DEF Front
<1>2. Front(p2, 2)
  BY <1>1, FrontGrows
<1>. HIDE DEF p2
<1>3. Front(p3, 3)
  BY <1>2, FrontGrows
<1>. HIDE DEF p3
<1>4. Front(p4, 4)
  BY <1>3, FrontGrows
<1>. HIDE DEF p4
<1>5. Front(p5, 5)
  BY <1>4, FrontGrows
<1>. HIDE DEF p5
<1>6. Front(p6, 6)
  BY <1>5, FrontGrows
<1>. HIDE DEF p6
<1>7. Front(p7, 7)
  BY <1>6, FrontGrows
<1>. HIDE DEF p7
<1>8. Front(p8, 8)
  BY <1>7, FrontGrows
<1>. HIDE DEF p8
<1>9. Front(p9, 9)
  BY <1>8, FrontGrows
<1>10. Pipeline = p9
  BY LineIs DEF Pipeline, p2, p3, p4, p5, p6, p7, p8
<1>. HIDE DEF p9
<1>. QED
  BY <1>9, <1>10 DEF Front

LEMMA OrderHolds == Spec => [](BoundInv /\ LineInv)
<1>1. ReadInv /\ BoundInv /\ LineInv /\ [Next]_vars => LineInv'
  BY EventLine, WsLine, SndLine, DecLine, EncodeLine, MainLine, StutterLine DEF Next
<1>2. ReadInv /\ BoundInv /\ [Next]_vars => BoundInv'
  BY EventBound, WsBound, SndBound, DecBound, EncodeBound, MainBound, StutterBound DEF Next
<1>. QED
  BY <1>1, <1>2, InitBound, InitLine, ReadHolds, PTL DEF Spec

(* Along the pipeline no interleaving of the threads, whose sizes and fronts are read outside *)
(* m_mutex, shows an image twice or shows two images of a kind out of order.                  *)
THEOREM ImagesStayInOrder == Spec => []PipelineInOrder
<1>1. ReadInv /\ LineInv => PipelineInOrder
  BY LineRises DEF LineInv, Rising, Older, PipelineInOrder
<1>. QED
  BY <1>1, OrderHolds, ReadHolds, PTL

-----------------------------------------------------------------------------
(* The frames without a thread *)

(* The frame PushJpeg queued has only frames of dec behind it until StartBack. *)
Fresh ==
    ws = "start" => \E k \in DOMAIN m_frames :
        /\ m_frames[k].image = wsImage
        /\ \A j \in DOMAIN m_frames : j > k => m_frames[j].image.kind = "h264"

StuckInv == StuckOnlyWhenOvertaken /\ Fresh

LEMMA InitStuck == Init => StuckInv
  BY DEF Init, StuckInv, StuckOnlyWhenOvertaken, Fresh

(* m_frames holds an image once. *)
LEMMA OneFrame ==
    ASSUME ReadInv, LineInv, NEW j \in DOMAIN m_frames, NEW k \in DOMAIN m_frames,
           m_frames[j].image = m_frames[k].image
    PROVE  j = k
<1>1. m_frames \in Seq(Frame)
  BY DEF ReadInv, TypeOK
<1>2. /\ Len(m_frames) \in Nat /\ DOMAIN m_frames = 1 .. Len(m_frames)
      /\ m_frames[j] \in Frame /\ m_frames[k] \in Frame
  BY <1>1, LenProperties, ElementOfSeq
<1>3. DOMAIN ImagesOf(m_frames) = DOMAIN m_frames
      /\ \A i \in DOMAIN m_frames : ImagesOf(m_frames)[i] = m_frames[i].image
  BY DEF ImagesOf
<1>4. Rising(ImagesOf(m_frames))
  BY LineIs DEF LineInv, InLine
<1>5. m_frames[j].image \in Image /\ m_frames[j].image.id \in Int
  BY <1>2, WebSockAssumption DEF Frame, Image
<1>6. ~(j < k) /\ ~(k < j)
  <2>1. j < k => Older(m_frames[j].image, m_frames[k].image)
    BY <1>3, <1>4 DEF Rising
  <2>2. k < j => Older(m_frames[k].image, m_frames[j].image)
    BY <1>3, <1>4 DEF Rising
  <2>3. ~Older(m_frames[j].image, m_frames[j].image)
    BY <1>5 DEF Older
  <2>. QED
    BY <2>1, <2>2, <2>3
<1>. QED
  BY <1>2, <1>6

(* A step that changes neither the frames nor what ws does with them. *)
LEMMA FramesStay ==
    ASSUME StuckInv, m_frames' = m_frames,
           UNCHANGED <<ws, wsImage>> \/ (ws # "start" /\ ws' # "start")
    PROVE  StuckInv'
<1>1. CASE UNCHANGED <<ws, wsImage>>
  BY <1>1 DEF StuckInv, StuckOnlyWhenOvertaken, Unstarted, Fresh
<1>2. CASE ws # "start" /\ ws' # "start"
  BY <1>2 DEF StuckInv, StuckOnlyWhenOvertaken, Unstarted, Fresh
<1>. QED
  BY <1>1, <1>2

LEMMA WsStuck == ReadInv /\ LineInv /\ StuckInv /\ WsStep => StuckInv'
<1>. SUFFICES ASSUME ReadInv, LineInv, StuckInv, WsStep PROVE StuckInv'
  OBVIOUS
<1>0. /\ m_frames \in Seq(Frame) /\ Len(m_frames) \in Nat /\ DOMAIN m_frames = 1 .. Len(m_frames)
  BY LenProperties DEF ReadInv, TypeOK
<1>1. CASE PushJpeg
  <2>. DEFINE frame == [image |-> wsImage, done |-> FALSE, thr |-> "none"]
  <2>1. frame \in Frame /\ m_frames' = Append(m_frames, frame) /\ ws = "push" /\ ws' = "start"
        /\ wsImage' = wsImage
    BY <1>1 DEF PushJpeg, ReadInv, Held, Frame
  <2>2. frame.image = wsImage
    OBVIOUS
  <2>. HIDE DEF frame
  <2>3. /\ DOMAIN m_frames' = 1 .. Len(m_frames) + 1 /\ m_frames'[Len(m_frames) + 1] = frame
        /\ \A k \in 1 .. Len(m_frames) : m_frames'[k] = m_frames[k]
    <3>1. Append(m_frames, frame) \in Seq(Frame) /\ Len(Append(m_frames, frame)) = Len(m_frames) + 1
          /\ Append(m_frames, frame)[Len(m_frames) + 1] = frame
          /\ \A k \in 1 .. Len(m_frames) : Append(m_frames, frame)[k] = m_frames[k]
      BY <1>0, <2>1, AppendProperties
    <3>. QED
      BY <2>1, <3>1, LenProperties
  <2>4. Fresh'
    <3>1. Len(m_frames) + 1 \in DOMAIN m_frames' /\ m_frames'[Len(m_frames) + 1].image = wsImage'
          /\ \A j \in DOMAIN m_frames' : ~(j > Len(m_frames) + 1)
      BY <1>0, <2>1, <2>2, <2>3
    <3>. QED
      BY <3>1 DEF Fresh
  <2>5. ASSUME NEW k \in DOMAIN m_frames', Unstarted(k)'
        PROVE  \E j \in DOMAIN m_frames' :
                  j > k /\ m_frames'[j].image.kind = "h264" /\ m_frames'[j].thr # "none"
    <3>1. k # Len(m_frames) + 1
      BY <2>1, <2>2, <2>3, <2>5 DEF Unstarted
    <3>2. k \in 1 .. Len(m_frames)
      BY <1>0, <2>3, <2>5, <3>1
    <3>3. Unstarted(k)
      BY <2>1, <2>3, <2>5, <3>2 DEF Unstarted
    <3>4. PICK j \in 1 .. Len(m_frames) :
             j > k /\ m_frames[j].image.kind = "h264" /\ m_frames[j].thr # "none"
      BY <1>0, <3>2, <3>3 DEF StuckInv, StuckOnlyWhenOvertaken
    <3>5. j \in 1 .. Len(m_frames) + 1
      BY <1>0
    <3>. QED
      BY <2>3, <3>4, <3>5
  <2>. QED
    BY <2>4, <2>5 DEF StuckInv, StuckOnlyWhenOvertaken
<1>2. CASE StartBack
  <2>. DEFINE back == Len(m_frames)
              frame == [m_frames[back] EXCEPT !.thr = "running"]
  <2>1. back \in 1 .. Len(m_frames) /\ m_frames[back] \in Frame
    BY <1>0, <1>2, EmptySeq, ElementOfSeq DEF StartBack, ReadInv, UnlockedReadsHold
  <2>2. /\ frame \in Frame /\ frame.image = m_frames[back].image /\ frame.thr = "running"
    BY <2>1 DEF Frame
  <2>3. m_frames' = [m_frames EXCEPT ![back] = frame] /\ ws = "start" /\ ws' = "loop"
    BY <1>2 DEF StartBack, Back
  <2>4. \A j \in DOMAIN m_frames : j <= back
    BY <1>0
  <2>. HIDE DEF back, frame
  <2>5. /\ DOMAIN m_frames' = DOMAIN m_frames
        /\ m_frames'[back] = frame
        /\ \A j \in DOMAIN m_frames : j # back => m_frames'[j] = m_frames[j]
    BY <1>0, <2>1, <2>3
  <2>6. Fresh'
    BY <2>3 DEF Fresh
  <2>7. ASSUME NEW k \in DOMAIN m_frames', Unstarted(k)'
        PROVE  \E j \in DOMAIN m_frames' :
                  j > k /\ m_frames'[j].image.kind = "h264" /\ m_frames'[j].thr # "none"
    <3>1. k \in DOMAIN m_frames /\ k # back /\ m_frames'[k] = m_frames[k]
      BY <2>2, <2>5, <2>7 DEF Unstarted
    <3>2. k < back /\ back > k
      BY <1>0, <2>1, <2>4, <3>1
    <3>3. PICK k0 \in DOMAIN m_frames :
             /\ m_frames[k0].image = wsImage
             /\ \A j \in DOMAIN m_frames : j > k0 => m_frames[j].image.kind = "h264"
      BY <2>3 DEF StuckInv, Fresh
    <3>4. CASE m_frames[k].image = wsImage
      <4>1. k = k0
        BY <3>1, <3>3, <3>4, OneFrame
      <4>2. m_frames[back].image.kind = "h264"
        BY <1>0, <2>1, <3>2, <3>3, <4>1
      <4>. QED
        BY <1>0, <2>1, <2>2, <2>5, <3>2, <4>2
    <3>5. CASE m_frames[k].image # wsImage
      <4>1. Unstarted(k)
        BY <2>3, <2>7, <3>1, <3>5 DEF Unstarted
      <4>2. PICK j \in DOMAIN m_frames :
               j > k /\ m_frames[j].image.kind = "h264" /\ m_frames[j].thr # "none"
        BY <3>1, <4>1 DEF StuckInv, StuckOnlyWhenOvertaken
      <4>3. m_frames'[j].image = m_frames[j].image /\ m_frames'[j].thr # "none"
        BY <2>2, <2>5, <4>2
      <4>. QED
        BY <2>5, <4>2, <4>3
    <3>. QED
      BY <3>4, <3>5
  <2>. QED
    BY <2>6, <2>7 DEF StuckInv, StuckOnlyWhenOvertaken
<1>3. CASE TestFront \/ LockToPop \/ EmitSendImage
  <2>1. m_frames' = m_frames /\ ws # "start" /\ ws' # "start"
    BY <1>3 DEF TestFront, LockToPop, EmitSendImage
  <2>. QED
    BY <2>1, FramesStay
<1>4. CASE PopFront
  <2>1. m_frames # <<>> /\ m_frames' = Tail(m_frames) /\ ws = "pop" /\ ws' = "emit"
    BY <1>4 DEF PopFront, ReadInv, UnlockedReadsHold, FrontDone
  <2>2. /\ Len(m_frames) \in Nat \ {0} /\ DOMAIN m_frames' = 1 .. Len(m_frames) - 1
        /\ \A k \in 1 .. Len(m_frames) - 1 : m_frames'[k] = m_frames[k + 1]
    BY <1>0, <2>1, HeadTailProperties, EmptySeq, LenProperties
  <2>3. ASSUME NEW k \in DOMAIN m_frames', Unstarted(k)'
        PROVE  \E j \in DOMAIN m_frames' :
                  j > k /\ m_frames'[j].image.kind = "h264" /\ m_frames'[j].thr # "none"
    <3>1. k + 1 \in DOMAIN m_frames /\ m_frames'[k] = m_frames[k + 1] /\ k \in Int
      BY <1>0, <2>2, <2>3
    <3>2. Unstarted(k + 1)
      BY <2>1, <2>3, <3>1 DEF Unstarted
    <3>3. PICK j \in DOMAIN m_frames :
             j > k + 1 /\ m_frames[j].image.kind = "h264" /\ m_frames[j].thr # "none"
      BY <3>1, <3>2 DEF StuckInv, StuckOnlyWhenOvertaken
    <3>4. j - 1 \in DOMAIN m_frames' /\ j - 1 > k /\ (j - 1) + 1 = j
      BY <1>0, <2>2, <2>3, <3>1, <3>3
    <3>5. m_frames'[j - 1] = m_frames[j]
      BY <2>2, <3>4
    <3>. QED
      BY <3>3, <3>4, <3>5
  <2>. QED
    BY <2>1, <2>3 DEF StuckInv, StuckOnlyWhenOvertaken, Fresh
<1>. QED
  BY <1>1, <1>2, <1>3, <1>4 DEF WsStep

LEMMA DecStuck == ReadInv /\ BoundInv /\ StuckInv /\ DecStep => StuckInv'
<1>. SUFFICES ASSUME ReadInv, BoundInv, StuckInv, DecStep PROVE StuckInv'
  OBVIOUS
<1>0. /\ m_frames \in Seq(Frame) /\ Len(m_frames) \in Nat /\ DOMAIN m_frames = 1 .. Len(m_frames)
      /\ UNCHANGED <<ws, wsImage>>
  BY LenProperties DEF ReadInv, TypeOK, DecStep, wsVars
<1>1. CASE DecTop \/ DecCheck
  BY <1>0, <1>1, FramesStay DEF DecTop, DecCheck
<1>2. CASE DecPush
  <2>. DEFINE frame == DecodedFrame
  <2>1. /\ frame \in Frame /\ frame.image.kind = "h264" /\ frame.done
        /\ m_frames' = Append(m_frames, frame)
    BY <1>2, DecodedIsFrame DEF DecPush, BoundInv, Decoded, H264, DecodedFrame
  <2>. HIDE DEF frame
  <2>2. /\ DOMAIN m_frames' = 1 .. Len(m_frames) + 1 /\ m_frames'[Len(m_frames) + 1] = frame
        /\ \A k \in 1 .. Len(m_frames) : m_frames'[k] = m_frames[k]
    <3>1. Append(m_frames, frame) \in Seq(Frame) /\ Len(Append(m_frames, frame)) = Len(m_frames) + 1
          /\ Append(m_frames, frame)[Len(m_frames) + 1] = frame
          /\ \A k \in 1 .. Len(m_frames) : Append(m_frames, frame)[k] = m_frames[k]
      BY <1>0, <2>1, AppendProperties
    <3>. QED
      BY <2>1, <3>1, LenProperties
  <2>3. \A k \in DOMAIN m_frames' : k \in 1 .. Len(m_frames) \/ k = Len(m_frames) + 1
    BY <1>0, <2>2
  <2>4. \A k \in 1 .. Len(m_frames) : k \in DOMAIN m_frames'
    BY <1>0, <2>2
  <2>5. Fresh'
    <3>. SUFFICES ASSUME ws = "start" PROVE Fresh'
      BY <1>0 DEF Fresh
    <3>1. PICK k \in DOMAIN m_frames :
             /\ m_frames[k].image = wsImage
             /\ \A j \in DOMAIN m_frames : j > k => m_frames[j].image.kind = "h264"
      BY DEF StuckInv, Fresh
    <3>2. \A j \in DOMAIN m_frames' : j > k => m_frames'[j].image.kind = "h264"
      BY <1>0, <2>1, <2>2, <2>3, <3>1
    <3>3. k \in DOMAIN m_frames' /\ m_frames'[k].image = wsImage'
      BY <1>0, <2>2, <2>4, <3>1
    <3>. QED
      BY <3>2, <3>3 DEF Fresh
  <2>6. ASSUME NEW k \in DOMAIN m_frames', Unstarted(k)'
        PROVE  \E j \in DOMAIN m_frames' :
                  j > k /\ m_frames'[j].image.kind = "h264" /\ m_frames'[j].thr # "none"
    <3>1. k \in 1 .. Len(m_frames)
      BY <2>1, <2>2, <2>3, <2>6 DEF Unstarted
    <3>2. Unstarted(k)
      BY <1>0, <2>2, <2>6, <3>1 DEF Unstarted
    <3>3. PICK j \in 1 .. Len(m_frames) :
             j > k /\ m_frames[j].image.kind = "h264" /\ m_frames[j].thr # "none"
      BY <1>0, <3>1, <3>2 DEF StuckInv, StuckOnlyWhenOvertaken
    <3>. QED
      BY <2>2, <2>4, <3>3
  <2>. QED
    BY <2>5, <2>6 DEF StuckInv, StuckOnlyWhenOvertaken
<1>. QED
  BY <1>1, <1>2 DEF DecStep

LEMMA EncodeStuck == ReadInv /\ StuckInv /\ Encode => StuckInv'
<1>. SUFFICES ASSUME ReadInv, StuckInv, Encode PROVE StuckInv'
  OBVIOUS
<1>1. PICK e \in DOMAIN m_frames : m_frames[e].thr = "running"
                                   /\ m_frames' = [m_frames EXCEPT ![e] = Encoded(m_frames[e])]
  BY DEF Encode
<1>2. m_frames \in Seq(Frame) /\ m_frames[e] \in Frame /\ DOMAIN m_frames = 1 .. Len(m_frames)
  BY <1>1, LenProperties, ElementOfSeq DEF ReadInv, TypeOK
<1>3. Encoded(m_frames[e]).done /\ Encoded(m_frames[e]).image = m_frames[e].image
      /\ Encoded(m_frames[e]).thr = "finished"
  BY <1>2 DEF Encoded, Frame
<1>4. UNCHANGED <<ws, wsImage>>
  BY DEF Encode, wsVars
<1>5. /\ DOMAIN m_frames' = DOMAIN m_frames /\ m_frames'[e] = Encoded(m_frames[e])
      /\ \A j \in DOMAIN m_frames : j # e => m_frames'[j] = m_frames[j]
  BY <1>1, <1>2
<1>6. \A j \in DOMAIN m_frames : m_frames'[j].image = m_frames[j].image
  BY <1>3, <1>5
<1>7. Fresh'
  BY <1>4, <1>5, <1>6 DEF StuckInv, Fresh
<1>8. ASSUME NEW k \in DOMAIN m_frames', Unstarted(k)'
      PROVE  \E j \in DOMAIN m_frames' :
                j > k /\ m_frames'[j].image.kind = "h264" /\ m_frames'[j].thr # "none"
  <2>1. k \in DOMAIN m_frames /\ k # e
    BY <1>3, <1>5, <1>8 DEF Unstarted
  <2>2. Unstarted(k)
    BY <1>4, <1>5, <1>8, <2>1 DEF Unstarted
  <2>3. PICK j \in DOMAIN m_frames :
           j > k /\ m_frames[j].image.kind = "h264" /\ m_frames[j].thr # "none"
    BY <2>1, <2>2 DEF StuckInv, StuckOnlyWhenOvertaken
  <2>4. m_frames'[j].thr # "none"
    BY <1>3, <1>5, <2>3
  <2>. QED
    BY <1>5, <1>6, <2>3, <2>4
<1>. QED
  BY <1>7, <1>8 DEF StuckInv, StuckOnlyWhenOvertaken

LEMMA RestStuck ==
    StuckInv /\ (Event \/ SndStep \/ LeaveLoop \/ Destroy \/ Destroyed \/ UNCHANGED vars) => StuckInv'
<1>. SUFFICES ASSUME StuckInv, Event \/ SndStep \/ LeaveLoop \/ Destroy \/ Destroyed \/ UNCHANGED vars
              PROVE  StuckInv'
  OBVIOUS
<1>1. CASE Event
  <2>1. m_frames' = m_frames /\ ws = "loop" /\ ws' # "start"
    BY <1>1 DEF Event, ReceiveJpeg, ReceiveH264
  <2>. QED
    BY <2>1, FramesStay
<1>2. CASE SndStep \/ Destroy \/ UNCHANGED vars
  BY <1>2, FramesStay DEF SndStep, Destroy, vars, wsVars
<1>3. CASE LeaveLoop
  BY <1>3, FramesStay DEF LeaveLoop
<1>4. CASE Destroyed
  <2>1. m_frames' = <<>> /\ ws' = "stopped"
    BY <1>4 DEF Destroyed, wsVars
  <2>. QED
    BY <2>1 DEF StuckInv, StuckOnlyWhenOvertaken, Fresh
<1>. QED
  BY <1>1, <1>2, <1>3, <1>4

(* A frame is left without a thread only when StartBack, after the unlock, found a frame that *)
(* dec had pushed in between at the back.                                                     *)
THEOREM OnlyOvertakenFramesAreStuck == Spec => []StuckOnlyWhenOvertaken
<1>1. ReadInv /\ BoundInv /\ LineInv /\ StuckInv /\ [Next]_vars => StuckInv'
  BY WsStuck, DecStuck, EncodeStuck, RestStuck DEF Next
<1>2. StuckInv => StuckOnlyWhenOvertaken
  BY DEF StuckInv
<1>. QED
  BY <1>1, <1>2, InitStuck, OrderHolds, ReadHolds, PTL DEF Spec

=============================================================================
