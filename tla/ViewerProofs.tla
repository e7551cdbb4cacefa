------------------------------- MODULE ViewerProofs -------------------------------
(***************************************************************************)
(* The invariants of the local camera and of the widget, as MainWindow     *)
(* wires them, for any number of images, of calls and of settings, every   *)
(* set of sizes and every length of the encoder's queue: the types, that   *)
(* the camera follows the calls, that the encoder is served in order and   *)
(* joined, and that the screen shows the image received last.              *)
(***************************************************************************)
EXTENDS Viewer, SequenceTheorems, TLAPS

(* What the loop has been posted: the calls, and the images with their numbers. *)
Slots == {<<"start">>, <<"stop">>} \cup ({"image"} \X (0 .. MaxImages))

CameraTypes ==
    /\ TypeOK
    /\ posted \in Seq(Slots)
    /\ loop \in {"stop", "image"} => Posted("image")
    /\ enc = "encode" => encImage \in 1 .. MaxImages

(* The call posted last is the one m_isPlay is from; when there is none, the camera has followed. *)
LastCall(slot) ==
    \E k \in DOMAIN posted :
        posted[k] = slot /\ \A j \in DOMAIN posted : j > k => posted[j][1] = "image"
NoCalls == \A k \in DOMAIN posted : posted[k][1] = "image"
Followed ==
    /\ loop \notin {"new", "run"}
    /\ loop = "stop" => ~m_isPlay
    /\ loop \in {"exec", "image", "store"} /\ device # "none" => (m_isPlay <=> device = "active")
FollowInv ==
    gui = "idle" =>
        \/ LastCall(IF m_isPlay THEN <<"start">> ELSE <<"stop">>)
        \/ NoCalls /\ Followed

(* When there is an encoder, and its thread. *)
Opened ==
    /\ gui = "none" => loop = "new"
    /\ loop \in {"new", "run"} => enc = "none"
    /\ m_imageSize \in {NoSize, testSize, cameraSize} /\ m_fmt \in {NoSize, testSize, cameraSize}
    /\ enc # "none" => m_isInitAV /\ (loop = "stopped" \/ m_fmt # NoSize)
    /\ loop = "store" => enc # "none" /\ ~m_encoderThread
    /\ enc # "none" /\ ~m_encoderThread => loop = "store"
    /\ m_encoderThread => enc # "none"
    /\ late => m_encoderThread

(* What the destructor has done about that thread. *)
Ending ==
    /\ joined => enc = "finished"
    /\ gui = "join" => m_encoderThread
    /\ quitting => gui \in {"wait", "destroyed", "terminated"}
    /\ gui \in {"quit", "wait", "destroyed", "terminated"} /\ m_encoderThread => joined \/ late
    /\ loop = "stopped" => quitting /\ (late \/ enc \in {"none", "finished"})
    /\ gui \in {"destroyed", "terminated"} => loop = "stopped"
    /\ gui = "terminated" => late

(* The images on their way to the encoder, in the order of their numbers. *)
Elements(s) == {s[k] : k \in DOMAIN s}
Rising(s) == \A j, k \in DOMAIN s : j < k => s[j] < s[k]
Before(A, B) == \A m \in A, n \in B : m < n
IsPicture(slot) == slot[1] = "image" /\ slot[2] # 0
Waiting == {n \in 1 .. MaxImages : \E k \in DOMAIN posted : IsPicture(posted[k]) /\ posted[k][2] = n}
Encoding == IF enc = "encode" THEN {encImage} ELSE {}
PostedRise ==
    \A j, k \in DOMAIN posted :
        j < k /\ IsPicture(posted[j]) /\ IsPicture(posted[k]) => posted[j][2] < posted[k][2]
InSequence ==
    /\ Rising(encoded) /\ Rising(m_frames) /\ PostedRise
    /\ Before(Elements(encoded), Encoding \cup Elements(m_frames) \cup Waiting)
    /\ Before(Encoding, Elements(m_frames) \cup Waiting)
    /\ Before(Elements(m_frames), Waiting)
    /\ \A n \in Elements(encoded) \cup Encoding \cup Elements(m_frames) \cup Waiting : n <= images

CameraInv == CameraTypes /\ FollowInv /\ Opened /\ Ending /\ InSequence

(* An image for the widget, and the textures. *)
GuiImage == [kind : {"yuv", "rgb"}, n : Nat, size : Sizes \cup {NoSize}]
Textures == [size : Sizes \cup {NoSize}, layout : {"none", "yuv", "rgb"}, image : GuiImage,
             sizeUV : Sizes \cup {NoSize}, imageUV : GuiImage]

FrameTypes ==
    /\ toGui \in Seq(GuiImage) /\ gl \in Textures
    /\ m_image \in GuiImage /\ m_qimage \in GuiImage /\ m_image.kind = "yuv" /\ m_qimage.kind = "rgb"
    /\ {m_isYUV, m_is_update, m_is_tex_update, m_is_tex_update_q, overwritten, painting} \subseteq BOOLEAN

Current == IF m_isYUV THEN m_image ELSE m_qimage
PendingYUV == m_is_tex_update /\ m_image.size # NoSize
PendingRGB == m_is_tex_update_q /\ m_qimage.size # NoSize

(* Every upload is waited for by a tick; the image received last is in the texture, or will be *)
(* at the next tick.                                                                            *)
Drawn ==
    /\ last = Current
    /\ PendingYUV \/ PendingRGB => m_is_update
    /\ m_isYUV /\ PendingRGB => m_is_tex_update
    /\ ~m_isYUV /\ PendingYUV => m_is_tex_update_q
    /\ gl.layout = "yuv" => gl.sizeUV = gl.size
    /\ m_isYUV /\ last.size # NoSize /\ ~m_is_tex_update /\ ~overwritten =>
          gl.image = last /\ (gl.layout = "yuv" => gl.imageUV = last)
    /\ ~m_isYUV /\ last.size # NoSize /\ ~m_is_tex_update_q => gl.image = last
    /\ last.size # NoSize /\ ~m_is_update /\ ~painting => screen = Drawing(Current, gl.image, gl.imageUV)

FrameInv == stream \in Nat /\ FrameTypes /\ Drawn

-----------------------------------------------------------------------------
(* The slots posted *)

LEMMA SlotIs ==
    ASSUME NEW slot \in Slots
    PROVE  /\ slot[1] \in {"start", "stop", "image"}
           /\ slot[1] = "image" => slot[2] \in 0 .. MaxImages
           /\ slot[1] = "start" => slot = <<"start">>
           /\ slot[1] = "stop" => slot = <<"stop">>
  BY DEF Slots

LEMMA SlotsAre ==
    /\ <<"start">> \in Slots /\ <<"stop">> \in Slots
    /\ \A n \in 0 .. MaxImages :
          <<"image", n>> \in Slots /\ <<"image", n>>[1] = "image" /\ <<"image", n>>[2] = n
    /\ <<"start">>[1] = "start" /\ <<"stop">>[1] = "stop"
  BY DEF Slots

(* The front of a queue that has a slot of the kind. *)
LEMMA PostedHead ==
    ASSUME posted \in Seq(Slots), NEW kind, Posted(kind)
    PROVE  /\ posted # <<>> /\ Head(posted) \in Slots /\ Head(posted)[1] = kind
           /\ Tail(posted) \in Seq(Slots) /\ Head(posted) = posted[1]
           /\ Len(posted) \in Nat \ {0} /\ DOMAIN posted = 1 .. Len(posted)
           /\ DOMAIN Tail(posted) = 1 .. Len(posted) - 1
           /\ \A k \in 1 .. Len(posted) - 1 : Tail(posted)[k] = posted[k + 1]
  BY HeadTailProperties, EmptySeq, LenProperties DEF Posted

LEMMA TypePosted == CameraTypes => \A k \in DOMAIN posted : posted[k] \in Slots
  BY LenProperties, ElementOfSeq DEF CameraTypes

cameraVars == <<world, guiVars, loopVars, deviceVars, posted, m_frames, encVars>>

-----------------------------------------------------------------------------
(* The types of the camera *)

LEMMA InitCameraTypes == Init => CameraTypes
<1>. SUFFICES ASSUME Init PROVE CameraTypes
  OBVIOUS
<1>1. /\ posted \in Seq(Slots) /\ m_frames \in Seq(1 .. MaxImages) /\ encoded \in Seq(1 .. MaxImages)
      /\ Len(m_frames) = 0 /\ DOMAIN posted = {}
  BY EmptySeq DEF Init
<1>2. {m_isPlay, m_done, quitting, joined, m_InitAV, m_isInitAV, m_encoderThread, late} \subseteq BOOLEAN
  BY DEF Init
<1>3. /\ calls \in 0 .. MaxCalls /\ images \in 0 .. MaxImages /\ encImage \in 0 .. MaxImages
      /\ Len(m_frames) <= m_max_frames
  BY <1>1, CameraAssumption DEF Init
<1>4. {m_imageSize, m_fmt, testSize} \subseteq Sizes \cup {NoSize}
  BY DEF Init
<1>. QED
  BY <1>1, <1>2, <1>3, <1>4 DEF Init, CameraTypes, TypeOK

LEMMA GuiTypes == CameraTypes /\ GuiStep /\ UNCHANGED world => CameraTypes'
<1>. SUFFICES ASSUME CameraTypes, GuiStep, UNCHANGED world PROVE CameraTypes'
  OBVIOUS
<1>0. /\ UNCHANGED <<world, m_imageSize, m_isInitAV, m_fmt, m_encoderThread, late, deviceVars, m_frames, encVars>>
      /\ TypeOK /\ posted \in Seq(Slots)
  BY DEF GuiStep, CameraTypes
<1>1. posted' \in Seq(Slots) /\ (Posted("image") => Posted("image")')
  <2>1. CASE UNCHANGED posted
    BY <1>0, <2>1 DEF Posted
  <2>2. CASE EmitStartCamera
    <3>1. PICK slot \in Slots : posted' = Append(posted, slot)
      BY <2>2, SlotsAre DEF EmitStartCamera
    <3>2. posted' \in Seq(Slots) /\ (posted # <<>> => posted' # <<>> /\ Head(posted') = Head(posted))
      <4>1. Len(posted) \in Nat /\ Len(posted') = Len(posted) + 1 /\ posted' \in Seq(Slots)
            /\ \A k \in 1 .. Len(posted) : posted'[k] = posted[k]
        BY <1>0, <3>1, AppendProperties, LenProperties
      <4>2. posted # <<>> => 1 \in 1 .. Len(posted) /\ Head(posted) = posted[1]
        BY <1>0, <4>1, EmptySeq
      <4>3. posted' # <<>> /\ Head(posted') = posted'[1]
        BY <4>1, EmptySeq
      <4>. QED
        BY <4>1, <4>2, <4>3
    <3>. QED
      BY <3>2 DEF Posted
  <2>. QED
    BY <2>1, <2>2 DEF GuiStep, Start, SetPlay, Destroy, Destructor, JoinEncoder, Quit, Destroyed
<1>2. /\ gui' \in {"opened", "emit", "idle", "look", "join", "quit", "wait", "destroyed", "terminated"}
      /\ calls' \in 0 .. MaxCalls /\ loop' \in {loop, "run"}
      /\ {m_isPlay', m_done', quitting', joined'} \subseteq BOOLEAN
  <2>. USE DEF TypeOK
  <2>1. CASE \E play \in BOOLEAN : SetPlay(play)
    <3>1. PICK play \in BOOLEAN : SetPlay(play)
      BY <2>1
    <3>2. calls' \in 0 .. MaxCalls
      BY <1>0, <3>1, CameraAssumption DEF SetPlay
    <3>. QED
      BY <1>0, <3>1, <3>2 DEF SetPlay
  <2>2. CASE Start \/ EmitStartCamera
    BY <1>0, <2>2 DEF Start, EmitStartCamera
  <2>3. CASE Destroy \/ Quit \/ Destroyed
    BY <1>0, <2>3 DEF Destroy, Quit, Destroyed
  <2>4. CASE JoinEncoder
    <3>1. joined' \in BOOLEAN
      BY <2>4 DEF JoinEncoder
    <3>. QED
      BY <1>0, <2>4, <3>1 DEF JoinEncoder
  <2>. QED
    BY <2>1, <2>2, <2>3, <2>4 DEF GuiStep, Destructor
<1>3. \A k \in DOMAIN posted' : posted'[k] \in Slots
  BY <1>1, LenProperties, ElementOfSeq
<1>. QED
  BY <1>0, <1>1, <1>2, <1>3 DEF CameraTypes, TypeOK, Slots, world, deviceVars, encVars

LEMMA PresentTypes == CameraTypes /\ (\E n \in 0 .. MaxImages : Present(n)) /\ UNCHANGED world => CameraTypes'
<1>. SUFFICES ASSUME CameraTypes, NEW n \in 0 .. MaxImages, Present(n), UNCHANGED world PROVE CameraTypes'
  OBVIOUS
<1>0. /\ UNCHANGED <<world, guiVars, loopVars, device, m_frames, encVars>> /\ images' = images + 1
      /\ images < MaxImages /\ posted' = Append(posted, <<"image", n>>)
      /\ TypeOK /\ posted \in Seq(Slots) /\ <<"image", n>> \in Slots
  BY SlotsAre DEF Present, CameraTypes
<1>1. /\ Len(posted) \in Nat /\ Len(posted') = Len(posted) + 1 /\ posted' \in Seq(Slots)
      /\ \A k \in 1 .. Len(posted) : posted'[k] = posted[k]
  BY <1>0, AppendProperties, LenProperties
<1>2. Posted("image") => Posted("image")'
  <2>1. posted # <<>> => 1 \in 1 .. Len(posted) /\ Head(posted) = posted[1]
    BY <1>0, <1>1, EmptySeq
  <2>2. posted' # <<>> /\ Head(posted') = posted'[1]
    BY <1>1, EmptySeq
  <2>. QED
    BY <1>1, <2>1, <2>2 DEF Posted
<1>3. \A k \in DOMAIN posted' : posted'[k] \in Slots
  BY <1>1, LenProperties, ElementOfSeq
<1>4. images' \in 0 .. MaxImages
  BY <1>0, CameraAssumption DEF TypeOK
<1>. QED
  BY <1>0, <1>1, <1>2, <1>3, <1>4 DEF CameraTypes, TypeOK, Slots, world, guiVars, loopVars, encVars

LEMMA LoopTypes == CameraTypes /\ (Handler \/ Timer \/ Leave) /\ UNCHANGED world => CameraTypes'
<1>. SUFFICES ASSUME CameraTypes, Handler \/ Timer \/ Leave, UNCHANGED world PROVE CameraTypes'
  OBVIOUS
<1>0. /\ UNCHANGED <<world, guiVars, images, encImage, encoded>> /\ TypeOK /\ posted \in Seq(Slots)
  BY DEF Handler, Timer, Leave, encVars, CameraTypes
<1>1. posted' \in Seq(Slots)
  <2>1. CASE posted' = Tail(posted) /\ posted # <<>>
    BY <1>0, <2>1, HeadTailProperties
  <2>2. CASE posted' = <<>>
    BY <2>2, EmptySeq
  <2>3. CASE posted' = posted
    BY <1>0, <2>3
  <2>4. loop = "image" => posted # <<>>
    BY DEF CameraTypes, Posted
  <2>. QED
    BY <2>1, <2>2, <2>3, <2>4 DEF Handler, Timer, Leave, Run, onStartCamera, TestPlay, StopCamera, TakeImage,
       StoreThread, InitContext, LeaveLoop, loopVars, Posted
<1>2. /\ loop' \in {"exec", "stop", "image", "store", "stopped"}
      /\ loop' \in {"stop", "image"} => posted' = posted /\ Posted("image")
  BY DEF Handler, Timer, Leave, Run, onStartCamera, TestPlay, StopCamera, TakeImage,
     StoreThread, InitContext, LeaveLoop, loopVars, CameraTypes
<1>3. {m_isInitAV', m_encoderThread', late'} \subseteq BOOLEAN
  <2>1. CASE StoreThread
    <3>1. late' \in BOOLEAN
      BY <2>1 DEF StoreThread
    <3>. QED
      BY <1>0, <2>1, <3>1 DEF StoreThread, TypeOK
  <2>2. CASE ~StoreThread
    BY <1>0, <2>2 DEF Handler, Timer, Leave, Run, onStartCamera, TestPlay, StopCamera, TakeImage,
       InitContext, LeaveLoop, loopVars, TypeOK
  <2>. QED
    BY <2>1, <2>2
<1>4. {m_imageSize', m_fmt'} \subseteq Sizes \cup {NoSize}
  BY <1>0, CameraAssumption DEF Handler, Timer, Leave, Run, onStartCamera, TestPlay, StopCamera, TakeImage,
     StoreThread, InitContext, LeaveLoop, loopVars, TypeOK
<1>5. device' \in {"none", "active", "stopped"}
  BY <1>0 DEF Handler, Timer, Leave, Run, onStartCamera, TestPlay, StopCamera, TakeImage,
     StoreThread, InitContext, LeaveLoop, loopVars, TypeOK
<1>6. enc' \in {enc, "top"}
  BY DEF Handler, Timer, Leave, InitContext, encVars
<1>7. m_frames' \in Seq(1 .. MaxImages) /\ Len(m_frames') <= m_max_frames
  <2>1. CASE TakeImage
    <3>. DEFINE n == Head(posted)[2]
    <3>1. m_frames' = m_frames \/ (n # 0 /\ Room /\ m_frames' = Append(m_frames, n))
      BY <2>1 DEF TakeImage
    <3>2. n \in 0 .. MaxImages
      <4>1. Posted("image")
        BY <2>1 DEF TakeImage, CameraTypes
      <4>2. Head(posted) \in Slots /\ Head(posted)[1] = "image"
        BY <1>0, <4>1, PostedHead
      <4>. QED
        BY <4>2, SlotIs
    <3>. HIDE DEF n
    <3>3. CASE m_frames' = m_frames
      BY <1>0, <3>3 DEF TypeOK
    <3>4. CASE n # 0 /\ Room /\ m_frames' = Append(m_frames, n)
      <4>1. n \in 1 .. MaxImages /\ m_frames \in Seq(1 .. MaxImages) /\ Len(m_frames) < m_max_frames
        BY <1>0, <3>2, <3>4, CameraAssumption DEF TypeOK, Room
      <4>. QED
        BY <3>4, <4>1, AppendProperties, LenProperties, CameraAssumption
    <3>. QED
      BY <3>1, <3>3, <3>4
  <2>2. CASE ~TakeImage
    <3>1. m_frames' = m_frames
      BY <2>2 DEF Handler, Timer, Leave, Run, onStartCamera, TestPlay, StopCamera,
         StoreThread, InitContext, LeaveLoop
    <3>. QED
      BY <1>0, <3>1 DEF TypeOK
  <2>. QED
    BY <2>1, <2>2
<1>8. \A k \in DOMAIN posted' : posted'[k] \in Slots
  BY <1>1, LenProperties, ElementOfSeq
<1>. QED
  BY <1>0, <1>1, <1>2, <1>3, <1>4, <1>5, <1>6, <1>7, <1>8
     DEF CameraTypes, TypeOK, Slots, Posted, world, guiVars

LEMMA EncoderTypes == CameraTypes /\ doEncode /\ UNCHANGED world => CameraTypes'
<1>. SUFFICES ASSUME CameraTypes, doEncode, UNCHANGED world PROVE CameraTypes'
  OBVIOUS
<1>0. UNCHANGED <<world, guiVars, loopVars, deviceVars, posted>> /\ TypeOK
  BY DEF doEncode, CameraTypes
<1>1. /\ enc' \in {"top", "look", "encode", "finished"} /\ encImage' \in 0 .. MaxImages
      /\ enc' = "encode" => encImage' \in 1 .. MaxImages
      /\ m_frames' \in Seq(1 .. MaxImages) /\ Len(m_frames') <= m_max_frames
      /\ encoded' \in Seq(1 .. MaxImages)
  <2>1. CASE EncTop
    BY <1>0, <2>1 DEF EncTop, TypeOK
  <2>2. CASE EncLook
    <3>1. CASE m_frames = <<>>
      BY <1>0, <2>2, <3>1 DEF EncLook, TypeOK
    <3>2. CASE m_frames # <<>>
      <4>1. Head(m_frames) \in 1 .. MaxImages /\ Tail(m_frames) \in Seq(1 .. MaxImages)
            /\ Len(Tail(m_frames)) = Len(m_frames) - 1
        BY <1>0, <3>2, HeadTailProperties DEF TypeOK
      <4>2. Len(m_frames) \in Nat /\ Len(m_frames) <= m_max_frames
        BY <1>0, LenProperties DEF TypeOK
      <4>3. Len(Tail(m_frames)) <= m_max_frames
        BY <4>1, <4>2, CameraAssumption
      <4>4. Head(m_frames) \in 0 .. MaxImages
        BY <4>1, CameraAssumption
      <4>. QED
        BY <1>0, <2>2, <3>2, <4>1, <4>3, <4>4 DEF EncLook, TypeOK
    <3>. QED
      BY <3>1, <3>2
  <2>3. CASE EncodeFrame
    <3>1. encoded' \in Seq(1 .. MaxImages)
      BY <1>0, <2>3, AppendProperties DEF EncodeFrame, CameraTypes, TypeOK
    <3>2. encImage' \in 0 .. MaxImages
      BY <2>3, CameraAssumption DEF EncodeFrame
    <3>. QED
      BY <1>0, <2>3, <3>1, <3>2 DEF EncodeFrame, TypeOK
  <2>. QED
    BY <2>1, <2>2, <2>3 DEF doEncode
<1>. QED
  BY <1>0, <1>1 DEF CameraTypes, TypeOK, Posted, world, guiVars, loopVars, deviceVars

LEMMA StillTypes == CameraTypes /\ UNCHANGED cameraVars => CameraTypes'
  BY DEF CameraTypes, TypeOK, Posted, cameraVars, world, guiVars, loopVars, deviceVars, encVars

(* What a step of Viewer is to the camera. *)
LEMMA CameraSteps ==
    ASSUME [ViewerNext]_viewerVars
    PROVE  \/ UNCHANGED cameraVars
           \/ UNCHANGED world /\ (\/ GuiStep \/ (\E n \in 0 .. MaxImages : Present(n))
                                  \/ Handler \/ Timer \/ Leave \/ doEncode)
  BY DEF ViewerNext, viewerVars, vars, Next, sendImage, Widget, cameraVars

LEMMA CameraTypesStay == CameraTypes /\ [ViewerNext]_viewerVars => CameraTypes'
  BY CameraSteps, GuiTypes, PresentTypes, LoopTypes, EncoderTypes, StillTypes

-----------------------------------------------------------------------------
(* The camera follows the calls *)

Call(play) == IF play THEN <<"start">> ELSE <<"stop">>

LEMMA CallIs ==
    ASSUME NEW play
    PROVE  Call(play) \in Slots /\ Call(play)[1] # "image" /\ (Call(play)[1] = "start" <=> play)
  BY SlotsAre DEF Call

LEMMA AppendCall ==
    ASSUME posted \in Seq(Slots), NEW slot \in Slots, posted' = Append(posted, slot)
    PROVE  /\ LastCall(slot)'
           /\ slot[1] = "image" => /\ NoCalls => NoCalls'
                                   /\ \A call \in Slots : LastCall(call) => LastCall(call)'
<1>1. /\ Len(posted) \in Nat /\ DOMAIN posted = 1 .. Len(posted)
      /\ DOMAIN posted' = 1 .. Len(posted) + 1 /\ posted'[Len(posted) + 1] = slot
      /\ \A k \in 1 .. Len(posted) : posted'[k] = posted[k]
  <2>1. posted' \in Seq(Slots) /\ Len(posted') = Len(posted) + 1
    BY AppendProperties
  <2>. QED
    BY <2>1, AppendProperties, LenProperties
<1>2. \A k \in DOMAIN posted' : k \in DOMAIN posted \/ k = Len(posted) + 1
  BY <1>1
<1>3. \A k \in DOMAIN posted : k \in DOMAIN posted'
  BY <1>1
<1>4. LastCall(slot)'
  <2>1. Len(posted) + 1 \in DOMAIN posted' /\ \A j \in DOMAIN posted' : ~(j > Len(posted) + 1)
    BY <1>1
  <2>. QED
    BY <1>1, <2>1 DEF LastCall
<1>5. ASSUME slot[1] = "image", NoCalls PROVE NoCalls'
  BY <1>1, <1>2, <1>5 DEF NoCalls
<1>6. ASSUME slot[1] = "image", NEW call \in Slots, LastCall(call) PROVE LastCall(call)'
  <2>1. PICK k \in DOMAIN posted : posted[k] = call /\ \A j \in DOMAIN posted : j > k => posted[j][1] = "image"
    BY <1>6 DEF LastCall
  <2>2. \A j \in DOMAIN posted' : j > k => posted'[j][1] = "image"
    BY <1>1, <1>2, <1>6, <2>1
  <2>. QED
    BY <1>1, <1>3, <2>1, <2>2 DEF LastCall
<1>. QED
  BY <1>4, <1>5, <1>6

LEMMA TailCall ==
    ASSUME posted \in Seq(Slots), NEW kind, Posted(kind), posted' = Tail(posted),
           NEW call \in Slots, call[1] # "image", LastCall(call)
    PROVE  LastCall(call)' \/ (NoCalls' /\ Head(posted) = call)
<1>1. /\ Len(posted) \in Nat \ {0} /\ DOMAIN posted = 1 .. Len(posted) /\ Head(posted) = posted[1]
      /\ DOMAIN posted' = 1 .. Len(posted) - 1
      /\ \A k \in 1 .. Len(posted) - 1 : posted'[k] = posted[k + 1]
  BY PostedHead
<1>2. PICK k \in DOMAIN posted : posted[k] = call /\ \A j \in DOMAIN posted : j > k => posted[j][1] = "image"
  BY DEF LastCall
<1>3. ASSUME NEW j \in DOMAIN posted' PROVE j + 1 \in DOMAIN posted /\ posted'[j] = posted[j + 1]
  BY <1>1
<1>4. CASE k = 1
  <2>1. ASSUME NEW j \in DOMAIN posted' PROVE posted'[j][1] = "image"
    <3>1. j + 1 > 1
      BY <1>1
    <3>. QED
      BY <1>2, <1>3, <1>4, <3>1
  <2>. QED
    BY <1>1, <1>2, <1>4, <2>1 DEF NoCalls
<1>5. CASE k # 1
  <2>1. k - 1 \in DOMAIN posted' /\ (k - 1) + 1 = k
    BY <1>1, <1>5
  <2>2. posted'[k - 1] = call
    BY <1>2, <1>3, <2>1
  <2>3. ASSUME NEW j \in DOMAIN posted', j > k - 1 PROVE posted'[j][1] = "image"
    <3>1. j + 1 > k
      BY <1>1, <2>3
    <3>. QED
      BY <1>2, <1>3, <3>1
  <2>. QED
    BY <2>1, <2>2, <2>3 DEF LastCall
<1>. QED
  BY <1>4, <1>5

LEMMA TailNoCalls ==
    ASSUME posted \in Seq(Slots), NEW kind, Posted(kind), posted' = Tail(posted), NoCalls
    PROVE  NoCalls' /\ kind = "image"
<1>1. /\ Len(posted) \in Nat \ {0} /\ DOMAIN posted = 1 .. Len(posted)
      /\ DOMAIN posted' = 1 .. Len(posted) - 1 /\ posted[1][1] = kind
      /\ \A k \in 1 .. Len(posted) - 1 : posted'[k] = posted[k + 1]
  BY PostedHead
<1>2. 1 \in DOMAIN posted /\ \A k \in DOMAIN posted' : k + 1 \in DOMAIN posted
  BY <1>1
<1>. QED
  BY <1>1, <1>2 DEF NoCalls

LEMMA FollowStays == CameraTypes /\ FollowInv /\ [ViewerNext]_viewerVars => FollowInv'
<1>. SUFFICES ASSUME CameraTypes, FollowInv, [ViewerNext]_viewerVars, gui' = "idle" PROVE FollowInv'
  BY DEF FollowInv
<1>. PICK call \in Slots : call = Call(m_isPlay)
  BY CallIs
<1>0. posted \in Seq(Slots) /\ call[1] # "image"
  BY CallIs DEF CameraTypes
<1>00. /\ FollowInv <=> (gui = "idle" => LastCall(call) \/ (NoCalls /\ Followed))
       /\ m_isPlay' = m_isPlay => (FollowInv' <=> (LastCall(call)' \/ (NoCalls' /\ Followed')))
  BY DEF FollowInv, Call, LastCall
<1>1. CASE GuiStep
  <2>1. EmitStartCamera
    BY <1>1 DEF GuiStep, Start, SetPlay, Destroy, Destructor, JoinEncoder, Quit, Destroyed
  <2>2. posted' = Append(posted, call) /\ m_isPlay' = m_isPlay
    BY <2>1 DEF EmitStartCamera, Call
  <2>3. LastCall(call)'
    BY <1>0, <2>2, AppendCall
  <2>. QED
    BY <1>00, <2>2, <2>3
<1>2. CASE \E n \in 0 .. MaxImages : Present(n)
  <2>1. PICK n \in 0 .. MaxImages : Present(n)
    BY <1>2
  <2>2. /\ posted' = Append(posted, <<"image", n>>) /\ UNCHANGED <<gui, m_isPlay, loop, device>>
    BY <2>1 DEF Present, guiVars, loopVars
  <2>3. <<"image", n>> \in Slots /\ <<"image", n>>[1] = "image"
    BY SlotsAre
  <2>4. /\ NoCalls => NoCalls'
        /\ LastCall(call) => LastCall(call)'
    BY <1>0, <2>2, <2>3, AppendCall
  <2>5. Followed => Followed'
    BY <2>2 DEF Followed
  <2>. QED
    BY <1>00, <2>2, <2>4, <2>5
<1>3. CASE Handler \/ Timer \/ Leave
  <2>0. UNCHANGED <<gui, m_isPlay>> /\ gui = "idle"
    BY <1>3 DEF Handler, Timer, Leave, guiVars
  <2>1. CASE onStartCamera
    <3>1. PICK kind \in {"start", "stop"} : Posted(kind)
      BY <2>1 DEF onStartCamera
    <3>2. posted' = Tail(posted) /\ loop' = "exec" /\ loop = "exec"
          /\ (device = "none" => device' = "none")
          /\ (device # "none" => device' = IF kind = "start" THEN "active" ELSE "stopped")
      <4>1. CASE kind = "start"
        <5>1. Posted("start")
          BY <3>1, <4>1
        <5>. QED
          BY <2>1, <4>1, <5>1 DEF onStartCamera, loopVars
      <4>2. CASE kind = "stop"
        <5>1. ~Posted("start")
          BY <3>1, <4>2 DEF Posted
        <5>. QED
          BY <2>1, <4>2, <5>1 DEF onStartCamera, loopVars
      <4>. QED
        BY <4>1, <4>2
    <3>3. LastCall(call)
      BY <1>0, <1>00, <2>0, <3>1, <3>2, TailNoCalls
    <3>4. LastCall(call)' \/ (NoCalls' /\ Head(posted) = call)
      BY <1>0, <3>1, <3>2, <3>3, TailCall
    <3>5. CASE NoCalls' /\ Head(posted) = call
      <4>1. kind = "start" <=> m_isPlay
        BY <3>1, <3>5, CallIs DEF Posted
      <4>2. Followed'
        <5>1. CASE device = "none"
          BY <5>1, <3>2 DEF Followed
        <5>2. CASE device # "none"
          BY <5>2, <2>0, <3>2, <4>1 DEF Followed
        <5>. QED
          BY <5>1, <5>2
      <4>. QED
        BY <1>00, <2>0, <3>5, <4>2
    <3>. QED
      BY <1>00, <2>0, <3>4, <3>5
  <2>2. CASE TakeImage
    <3>1. posted' = Tail(posted) /\ loop = "image" /\ loop' = "exec" /\ device' = device /\ Posted("image")
      BY <2>2 DEF TakeImage, CameraTypes
    <3>2. Head(posted)[1] = "image"
      BY <1>0, <3>1, PostedHead
    <3>3. LastCall(call) => LastCall(call)'
      BY <1>0, <3>1, <3>2, TailCall
    <3>4. NoCalls => NoCalls'
      BY <1>0, <3>1, TailNoCalls
    <3>5. Followed => Followed'
      BY <2>0, <3>1 DEF Followed
    <3>. QED
      BY <1>00, <2>0, <3>3, <3>4, <3>5
  <2>3. CASE LeaveLoop
    <3>1. posted' = <<>> /\ loop' = "stopped"
      BY <2>3 DEF LeaveLoop
    <3>2. NoCalls' /\ Followed'
      BY <3>1 DEF NoCalls, Followed
    <3>. QED
      BY <1>00, <2>0, <3>2
  <2>4. CASE Run \/ TestPlay \/ StopCamera \/ StoreThread \/ InitContext
    <3>1. posted' = posted
      BY <2>4 DEF Run, TestPlay, StopCamera, StoreThread, InitContext
    <3>2. Followed => Followed'
      BY <2>0, <2>4 DEF Followed, Run, TestPlay, StopCamera, StoreThread, InitContext
    <3>3. (LastCall(call) => LastCall(call)') /\ (NoCalls => NoCalls')
      BY <3>1 DEF LastCall, NoCalls
    <3>. QED
      BY <1>00, <2>0, <3>2, <3>3
  <2>. QED
    BY <1>3, <2>1, <2>2, <2>3, <2>4 DEF Handler, Timer, Leave
<1>4. CASE doEncode \/ UNCHANGED cameraVars
  <2>1. UNCHANGED <<gui, m_isPlay, posted, loop, device>>
    BY <1>4 DEF doEncode, cameraVars, guiVars, loopVars, deviceVars
  <2>2. (LastCall(call) => LastCall(call)') /\ (NoCalls => NoCalls') /\ (Followed => Followed')
    BY <2>1 DEF LastCall, NoCalls, Followed
  <2>. QED
    BY <1>00, <2>1, <2>2
<1>. QED
  BY <1>1, <1>2, <1>3, <1>4, CameraSteps

-----------------------------------------------------------------------------
(* The encoder's thread *)

LEMMA OpenedStays == CameraTypes /\ Opened /\ [ViewerNext]_viewerVars => Opened'
<1>. SUFFICES ASSUME CameraTypes, Opened, [ViewerNext]_viewerVars PROVE Opened'
  OBVIOUS
<1>1. CASE GuiStep /\ UNCHANGED world
  <2>1. UNCHANGED <<m_imageSize, m_isInitAV, m_fmt, m_encoderThread, late, testSize, enc>>
    BY <1>1 DEF GuiStep, encVars, world
  <2>2. gui' # "none" /\ (loop' = loop \/ (loop' = "run" /\ gui = "none"))
    BY <1>1 DEF GuiStep, Start, SetPlay, EmitStartCamera, Destroy, Destructor, JoinEncoder, Quit, Destroyed
  <2>. QED
    BY <1>1, <2>1, <2>2 DEF Opened
<1>2. CASE (\E n \in 0 .. MaxImages : Present(n)) /\ UNCHANGED world
  BY <1>2 DEF Present, guiVars, loopVars, encVars, world, Opened
<1>3. CASE (Handler \/ Timer \/ Leave) /\ UNCHANGED world
  <2>0. testSize' = testSize /\ gui' = gui
    BY <1>3 DEF Handler, Timer, Leave, world, guiVars
  <2>1. CASE Handler /\ (Run \/ TakeImage)
    <3>1. /\ UNCHANGED <<m_isInitAV, m_fmt, m_encoderThread, late, enc>> /\ loop' = "exec" /\ loop \in {"run", "image"}
          /\ m_imageSize' \in {testSize, cameraSize, m_imageSize}
      BY <2>1 DEF Handler, Run, TakeImage, encVars
    <3>. QED
      BY <2>0, <3>1 DEF Opened
  <2>2. CASE Handler /\ (onStartCamera \/ TestPlay \/ StopCamera)
    <3>1. UNCHANGED <<m_isInitAV, m_fmt, m_encoderThread, late, enc, m_imageSize>>
          /\ loop' \in {"exec", "stop", "image"} /\ loop \in {"exec", "stop", "image"}
      BY <2>2 DEF Handler, onStartCamera, TestPlay, StopCamera, loopVars, encVars
    <3>. QED
      BY <2>0, <3>1 DEF Opened
  <2>3. CASE Handler /\ StoreThread
    <3>1. UNCHANGED <<m_isInitAV, m_fmt, enc, m_imageSize>>
          /\ loop' = "exec" /\ loop = "store" /\ m_encoderThread'
      BY <2>3 DEF Handler, StoreThread, encVars
    <3>. QED
      BY <2>0, <3>1 DEF Opened
  <2>4. CASE Timer
    <3>1. /\ loop = "exec" /\ ~m_isInitAV /\ m_isInitAV' /\ m_imageSize # NoSize
          /\ UNCHANGED <<m_imageSize, m_encoderThread, late>>
          /\ \/ UNCHANGED <<loop, m_fmt, enc>>
             \/ loop' = "store" /\ m_fmt' = m_imageSize /\ enc' = "top"
      BY <2>4 DEF Timer, InitContext
    <3>. QED
      BY <2>0, <3>1 DEF Opened
  <2>5. CASE Leave
    <3>1. /\ loop = "exec" /\ loop' = "stopped" /\ m_fmt' = NoSize
          /\ UNCHANGED <<m_imageSize, m_isInitAV, m_encoderThread, late, enc>>
      BY <2>5 DEF Leave, LeaveLoop, encVars
    <3>. QED
      BY <2>0, <3>1 DEF Opened
  <2>. QED
    BY <1>3, <2>1, <2>2, <2>3, <2>4, <2>5 DEF Handler
<1>4. CASE doEncode /\ UNCHANGED world
  <2>1. UNCHANGED <<m_imageSize, m_isInitAV, m_fmt, m_encoderThread, late, testSize, loop, gui>>
        /\ enc # "none" /\ enc' # "none"
    BY <1>4 DEF doEncode, EncTop, EncLook, EncodeFrame, guiVars, loopVars, world
  <2>. QED
    BY <2>1 DEF Opened
<1>5. CASE UNCHANGED cameraVars
  BY <1>5 DEF cameraVars, world, guiVars, loopVars, encVars, Opened
<1>. QED
  BY <1>1, <1>2, <1>3, <1>4, <1>5, CameraSteps

LEMMA EndingStays == CameraTypes /\ Opened /\ Ending /\ [ViewerNext]_viewerVars => Ending'
<1>. SUFFICES ASSUME CameraTypes, Opened, Ending, [ViewerNext]_viewerVars PROVE Ending'
  OBVIOUS
<1>1. CASE GuiStep
  <2>0. UNCHANGED <<m_encoderThread, late, enc>>
    BY <1>1 DEF GuiStep, encVars
  <2>1. CASE Start \/ (\E play \in BOOLEAN : SetPlay(play)) \/ EmitStartCamera \/ Destroy
    <3>1. /\ UNCHANGED <<quitting, joined>> /\ gui \in {"none", "opened", "idle", "emit"}
          /\ gui' \in {"opened", "emit", "idle", "look"}
          /\ (loop' = loop \/ loop' = "run")
      BY <2>1 DEF Start, SetPlay, EmitStartCamera, Destroy
    <3>. QED
      BY <2>0, <3>1 DEF Ending
  <2>2. CASE JoinEncoder
    <3>1. /\ gui \in {"look", "join"} /\ gui' = IF gui = "look" /\ m_encoderThread THEN "join" ELSE "quit"
          /\ (gui = "join" => enc = "finished") /\ (joined' <=> gui = "join") /\ UNCHANGED <<quitting, loop>>
      BY <2>2 DEF JoinEncoder
    <3>. QED
      BY <2>0, <3>1 DEF Ending
  <2>3. CASE Quit
    <3>1. gui = "quit" /\ gui' = "wait" /\ quitting' /\ UNCHANGED <<joined, loop>>
      BY <2>3 DEF Quit
    <3>. QED
      BY <2>0, <3>1 DEF Ending
  <2>4. CASE Destroyed
    <3>1. gui = "wait" /\ loop = "stopped" /\ UNCHANGED <<joined, loop, quitting>>
          /\ gui' = IF m_encoderThread /\ ~joined THEN "terminated" ELSE "destroyed"
      BY <2>4 DEF Destroyed
    <3>. QED
      BY <2>0, <3>1 DEF Ending
  <2>. QED
    BY <1>1, <2>1, <2>2, <2>3, <2>4 DEF GuiStep, Destructor
<1>2. CASE \E n \in 0 .. MaxImages : Present(n)
  BY <1>2 DEF Present, guiVars, loopVars, encVars, Ending
<1>3. CASE Handler \/ Timer \/ Leave
  <2>0. UNCHANGED <<gui, quitting, joined>>
    BY <1>3 DEF Handler, Timer, Leave, guiVars
  <2>1. CASE Handler /\ (Run \/ onStartCamera \/ TestPlay \/ StopCamera \/ TakeImage)
    <3>1. UNCHANGED <<m_encoderThread, late, enc>>
          /\ loop' \in {"exec", "stop", "image"} /\ loop \in {"run", "exec", "stop", "image"}
      BY <2>1 DEF Handler, Run, onStartCamera, TestPlay, StopCamera, TakeImage, loopVars, encVars
    <3>. QED
      BY <2>0, <3>1 DEF Ending
  <2>2. CASE Handler /\ StoreThread
    <3>1. /\ UNCHANGED enc /\ loop' = "exec" /\ loop = "store" /\ m_encoderThread'
          /\ (late' <=> gui \in {"quit", "wait"})
      BY <2>2 DEF Handler, StoreThread, encVars
    <3>. QED
      BY <2>0, <3>1 DEF Ending, Opened
  <2>3. CASE Timer
    <3>1. /\ loop = "exec" /\ ~m_isInitAV /\ UNCHANGED <<m_encoderThread, late>>
          /\ loop' \in {"exec", "store"}
      BY <2>3 DEF Timer, InitContext
    <3>2. enc = "none" /\ ~joined
      BY <3>1 DEF Opened, Ending
    <3>. QED
      BY <2>0, <3>1, <3>2 DEF Ending, Opened
  <2>4. CASE Leave
    <3>1. /\ loop = "exec" /\ loop' = "stopped" /\ quitting /\ UNCHANGED <<m_encoderThread, late, enc>>
      BY <2>4 DEF Leave, LeaveLoop, encVars
    <3>2. enc = "none" \/ m_encoderThread
      BY <3>1 DEF Opened
    <3>. QED
      BY <2>0, <3>1, <3>2 DEF Ending
  <2>. QED
    BY <1>3, <2>1, <2>2, <2>3, <2>4 DEF Handler
<1>4. CASE doEncode
  <2>1. UNCHANGED <<gui, quitting, joined, loop, m_encoderThread, late>> /\ enc \notin {"none", "finished"}
    BY <1>4 DEF doEncode, EncTop, EncLook, EncodeFrame, guiVars, loopVars
  <2>. QED
    BY <2>1 DEF Ending
<1>5. CASE UNCHANGED cameraVars
  BY <1>5 DEF cameraVars, guiVars, loopVars, encVars, Ending
<1>. QED
  BY <1>1, <1>2, <1>3, <1>4, <1>5, CameraSteps

-----------------------------------------------------------------------------
(* The order of the images *)

LEMMA ElementsType ==
    ASSUME NEW s \in Seq(1 .. MaxImages)
    PROVE  \A n \in Elements(s) : n \in 1 .. MaxImages /\ n \in Int
<1>1. DOMAIN s = 1 .. Len(s)
  BY LenProperties
<1>2. ASSUME NEW k \in DOMAIN s PROVE s[k] \in 1 .. MaxImages
  BY <1>1, ElementOfSeq
<1>. QED
  BY <1>2 DEF Elements

LEMMA AppendRising ==
    ASSUME NEW s \in Seq(1 .. MaxImages), NEW n \in 1 .. MaxImages
    PROVE  /\ Elements(Append(s, n)) = Elements(s) \cup {n}
           /\ Rising(s) /\ Before(Elements(s), {n}) => Rising(Append(s, n))
<1>. DEFINE t == Append(s, n)
<1>1. /\ Len(s) \in Nat /\ DOMAIN s = 1 .. Len(s) /\ DOMAIN t = 1 .. Len(s) + 1
      /\ t[Len(s) + 1] = n /\ \A k \in 1 .. Len(s) : t[k] = s[k]
  BY AppendProperties, LenProperties
<1>. HIDE DEF t
<1>2. \A k \in DOMAIN t : k \in DOMAIN s \/ k = Len(s) + 1
  BY <1>1
<1>3. Len(s) + 1 \in DOMAIN t /\ \A k \in DOMAIN s : k \in DOMAIN t
  BY <1>1
<1>4. Elements(t) = Elements(s) \cup {n}
  <2>1. ASSUME NEW m \in Elements(t) PROVE m \in Elements(s) \cup {n}
    BY <1>1, <1>2, <2>1 DEF Elements
  <2>2. ASSUME NEW m \in Elements(s) \cup {n} PROVE m \in Elements(t)
    BY <1>1, <1>3, <2>2 DEF Elements
  <2>. QED
    BY <2>1, <2>2
<1>5. ASSUME Rising(s), Before(Elements(s), {n}) PROVE Rising(t)
  <2>. SUFFICES ASSUME NEW j \in DOMAIN t, NEW k \in DOMAIN t, j < k PROVE t[j] < t[k]
    BY DEF Rising
  <2>1. j \in DOMAIN s
    BY <1>1
  <2>2. s[j] \in Elements(s)
    BY <2>1 DEF Elements
  <2>. QED
    BY <1>1, <1>2, <1>5, <2>1, <2>2 DEF Rising, Before
<1>. QED
  BY <1>4, <1>5 DEF t

LEMMA TailRising ==
    ASSUME NEW s \in Seq(1 .. MaxImages), s # <<>>
    PROVE  /\ Head(s) \in Elements(s) /\ Elements(Tail(s)) \subseteq Elements(s)
           /\ Rising(s) => Rising(Tail(s)) /\ Before({Head(s)}, Elements(Tail(s)))
<1>. DEFINE t == Tail(s)
<1>1. /\ Len(s) \in Nat \ {0} /\ DOMAIN s = 1 .. Len(s) /\ Head(s) = s[1]
      /\ DOMAIN t = 1 .. Len(s) - 1 /\ \A k \in 1 .. Len(s) - 1 : t[k] = s[k + 1]
  BY HeadTailProperties, LenProperties, EmptySeq
<1>. HIDE DEF t
<1>2. 1 \in DOMAIN s /\ \A k \in DOMAIN t : k \in Int /\ k + 1 \in DOMAIN s /\ t[k] = s[k + 1] /\ 1 < k + 1
  BY <1>1
<1>3. Head(s) \in Elements(s) /\ Elements(t) \subseteq Elements(s)
  BY <1>1, <1>2 DEF Elements
<1>4. ASSUME Rising(s) PROVE Rising(t) /\ Before({Head(s)}, Elements(t))
  <2>1. ASSUME NEW j \in DOMAIN t, NEW k \in DOMAIN t, j < k PROVE t[j] < t[k]
    <3>1. j + 1 < k + 1
      BY <1>2, <2>1
    <3>. QED
      BY <1>2, <1>4, <3>1 DEF Rising
  <2>2. ASSUME NEW n \in Elements(t) PROVE Head(s) < n
    BY <1>1, <1>2, <1>4, <2>2 DEF Elements, Rising
  <2>. QED
    BY <2>1, <2>2 DEF Rising, Before
<1>. QED
  BY <1>3, <1>4 DEF t

LEMMA AppendWaiting ==
    ASSUME posted \in Seq(Slots), NEW slot \in Slots, posted' = Append(posted, slot), PostedRise,
           IsPicture(slot) => Before(Waiting, {slot[2]})
    PROVE  PostedRise' /\ Waiting' \subseteq Waiting \cup (IF IsPicture(slot) THEN {slot[2]} ELSE {})
<1>1. /\ Len(posted) \in Nat /\ DOMAIN posted = 1 .. Len(posted)
      /\ DOMAIN posted' = 1 .. Len(posted) + 1 /\ posted'[Len(posted) + 1] = slot
      /\ \A k \in 1 .. Len(posted) : posted'[k] = posted[k]
  <2>1. posted' \in Seq(Slots) /\ Len(posted') = Len(posted) + 1
    BY AppendProperties
  <2>. QED
    BY <2>1, AppendProperties, LenProperties
<1>2. \A k \in DOMAIN posted' : k \in DOMAIN posted \/ k = Len(posted) + 1
  BY <1>1
<1>3. ASSUME NEW j \in DOMAIN posted', NEW k \in DOMAIN posted', j < k,
             IsPicture(posted'[j]), IsPicture(posted'[k])
      PROVE  posted'[j][2] < posted'[k][2]
  <2>1. j \in DOMAIN posted
    BY <1>1, <1>3
  <2>2. CASE k \in DOMAIN posted
    BY <1>1, <1>3, <2>1, <2>2 DEF PostedRise
  <2>3. CASE k = Len(posted) + 1
    <3>1. posted[j] \in Slots /\ IsPicture(posted[j])
      BY <1>1, <1>3, <2>1, ElementOfSeq
    <3>2. posted[j][2] \in 1 .. MaxImages
      BY <3>1, SlotIs, CameraAssumption DEF IsPicture
    <3>3. posted[j][2] \in Waiting
      BY <2>1, <3>1, <3>2 DEF Waiting
    <3>. QED
      BY <1>1, <1>3, <2>1, <2>3, <3>3 DEF Before
  <2>. QED
    BY <1>2, <2>2, <2>3
<1>4. ASSUME NEW n \in Waiting' PROVE n \in Waiting \cup (IF IsPicture(slot) THEN {slot[2]} ELSE {})
  <2>1. PICK k \in DOMAIN posted' : IsPicture(posted'[k]) /\ posted'[k][2] = n
    BY <1>4 DEF Waiting
  <2>2. n \in 1 .. MaxImages
    BY <1>4 DEF Waiting
  <2>. QED
    BY <1>1, <1>2, <2>1, <2>2 DEF Waiting
<1>. QED
  BY <1>3, <1>4 DEF PostedRise

LEMMA TailWaiting ==
    ASSUME posted \in Seq(Slots), NEW kind, Posted(kind), posted' = Tail(posted), PostedRise
    PROVE  /\ PostedRise' /\ Waiting' \subseteq Waiting
           /\ IsPicture(Head(posted)) =>
                 Head(posted)[2] \in Waiting /\ Before({Head(posted)[2]}, Waiting')
<1>1. /\ Len(posted) \in Nat \ {0} /\ DOMAIN posted = 1 .. Len(posted) /\ Head(posted) = posted[1]
      /\ DOMAIN posted' = 1 .. Len(posted) - 1 /\ Head(posted) \in Slots
      /\ \A k \in 1 .. Len(posted) - 1 : posted'[k] = posted[k + 1]
  BY PostedHead
<1>2. 1 \in DOMAIN posted
      /\ \A k \in DOMAIN posted' : k \in Int /\ k + 1 \in DOMAIN posted /\ posted'[k] = posted[k + 1] /\ 1 < k + 1
  BY <1>1
<1>3. ASSUME NEW j \in DOMAIN posted', NEW k \in DOMAIN posted', j < k,
             IsPicture(posted'[j]), IsPicture(posted'[k])
      PROVE  posted'[j][2] < posted'[k][2]
  <2>1. j + 1 < k + 1
    BY <1>2, <1>3
  <2>. QED
    BY <1>2, <1>3, <2>1 DEF PostedRise
<1>4. ASSUME NEW n \in Waiting'
      PROVE  n \in Waiting /\ (IsPicture(Head(posted)) => Head(posted)[2] < n)
  <2>1. PICK k \in DOMAIN posted' : IsPicture(posted'[k]) /\ posted'[k][2] = n
    BY <1>4 DEF Waiting
  <2>2. n \in 1 .. MaxImages
    BY <1>4 DEF Waiting
  <2>3. k + 1 \in DOMAIN posted /\ IsPicture(posted[k + 1]) /\ posted[k + 1][2] = n /\ 1 < k + 1
    BY <1>2, <2>1
  <2>4. n \in Waiting
    BY <2>2, <2>3 DEF Waiting
  <2>5. IsPicture(Head(posted)) => Head(posted)[2] < n
    BY <1>1, <1>2, <2>3 DEF PostedRise
  <2>. QED
    BY <2>4, <2>5
<1>5. ASSUME IsPicture(Head(posted)) PROVE Head(posted)[2] \in Waiting
  <2>1. Head(posted)[2] \in 1 .. MaxImages
    BY <1>1, <1>5, SlotIs, CameraAssumption DEF IsPicture
  <2>. QED
    BY <1>1, <1>2, <1>5, <2>1 DEF Waiting
<1>. QED
  BY <1>3, <1>4, <1>5 DEF PostedRise, Before

(* A step that at most takes images out of the posted ones. *)
LEMMA FewerWait ==
    ASSUME InSequence, UNCHANGED <<encoded, enc, encImage, m_frames>>, images' = images,
           PostedRise', Waiting' \subseteq Waiting
    PROVE  InSequence'
<1>1. Encoding' = Encoding
  BY DEF Encoding
<1>. QED
  BY <1>1 DEF InSequence, Before

LEMMA SequenceStays == CameraTypes /\ Opened /\ InSequence /\ [ViewerNext]_viewerVars => InSequence'
<1>. SUFFICES ASSUME CameraTypes, Opened, InSequence, [ViewerNext]_viewerVars PROVE InSequence'
  OBVIOUS
<1>0. posted \in Seq(Slots) /\ m_frames \in Seq(1 .. MaxImages) /\ encoded \in Seq(1 .. MaxImages)
      /\ images \in 0 .. MaxImages /\ PostedRise
  BY DEF CameraTypes, TypeOK, InSequence
<1>1. CASE GuiStep
  <2>0. UNCHANGED <<encoded, enc, encImage, m_frames, images>>
    BY <1>1 DEF GuiStep, encVars, deviceVars
  <2>1. PostedRise' /\ Waiting' \subseteq Waiting
    <3>1. CASE EmitStartCamera
      <4>1. PICK slot \in {<<"start">>, <<"stop">>} : posted' = Append(posted, slot)
        BY <3>1 DEF EmitStartCamera
      <4>2. slot \in Slots /\ ~IsPicture(slot)
        BY <4>1, SlotsAre DEF IsPicture
      <4>. QED
        BY <1>0, <4>1, <4>2, AppendWaiting
    <3>2. CASE ~EmitStartCamera
      <4>1. posted' = posted
        BY <1>1, <3>2 DEF GuiStep, Start, SetPlay, Destroy, Destructor, JoinEncoder, Quit, Destroyed
      <4>. QED
        BY <1>0, <4>1 DEF PostedRise, Waiting
    <3>. QED
      BY <3>1, <3>2
  <2>. QED
    BY <2>0, <2>1, FewerWait
<1>2. CASE \E n \in 0 .. MaxImages : Present(n)
  <2>1. PICK n \in 0 .. MaxImages : Present(n)
    BY <1>2
  <2>2. /\ UNCHANGED <<encoded, enc, encImage, m_frames>> /\ images' = images + 1 /\ n \in {0, images + 1}
        /\ posted' = Append(posted, <<"image", n>>)
    BY <2>1 DEF Present, encVars
  <2>. PICK slot \in Slots : slot = <<"image", n>>
    BY SlotsAre
  <2>3. slot[2] = n /\ (IsPicture(slot) => n = images + 1)
    BY <2>2, SlotsAre DEF IsPicture
  <2>4. \A m \in Waiting : m \in Int /\ m <= images
    BY DEF Waiting, InSequence
  <2>5. IsPicture(slot) => Before(Waiting, {slot[2]})
    BY <1>0, <2>3, <2>4 DEF Before
  <2>6. PostedRise' /\ Waiting' \subseteq Waiting \cup (IF IsPicture(slot) THEN {slot[2]} ELSE {})
    BY <1>0, <2>2, <2>5, AppendWaiting
  <2>7. Waiting' \subseteq Waiting \cup {images + 1}
    BY <2>3, <2>6
  <2>8. Encoding' = Encoding
    BY <2>2 DEF Encoding
  <2>9. \A m \in Elements(encoded) \cup Encoding \cup Elements(m_frames) : m \in Int /\ m <= images
    <3>1. \A m \in Elements(encoded) \cup Elements(m_frames) : m \in Int
      BY <1>0, ElementsType
    <3>2. \A m \in Encoding : m \in Int
      BY DEF Encoding, CameraTypes
    <3>. QED
      BY <3>1, <3>2 DEF InSequence
  <2>10. \A m \in Elements(encoded) \cup Encoding \cup Elements(m_frames) \cup Waiting : m < images + 1 /\ m <= images + 1
    BY <1>0, <2>4, <2>9
  <2>11. images + 1 <= images + 1
    BY <1>0
  <2>. QED
    BY <2>2, <2>6, <2>7, <2>8, <2>10, <2>11 DEF InSequence, Before
<1>3. CASE Handler \/ Timer \/ Leave
  <2>0. UNCHANGED <<encoded, encImage, images>>
    BY <1>3 DEF Handler, Timer, Leave, encVars
  <2>1. CASE Handler /\ onStartCamera
    <3>1. PICK kind \in {"start", "stop"} : Posted(kind)
      BY <2>1 DEF onStartCamera
    <3>2. posted' = Tail(posted) /\ UNCHANGED <<enc, m_frames>>
      BY <2>1 DEF Handler, onStartCamera, encVars
    <3>3. PostedRise' /\ Waiting' \subseteq Waiting
      BY <1>0, <3>1, <3>2, TailWaiting
    <3>. QED
      BY <2>0, <3>2, <3>3, FewerWait
  <2>2. CASE Handler /\ TakeImage
    <3>. DEFINE n == Head(posted)[2]
    <3>1. /\ posted' = Tail(posted) /\ UNCHANGED enc /\ Posted("image")
          /\ m_frames' = m_frames \/ (n # 0 /\ m_frames' = Append(m_frames, n))
      BY <2>2 DEF Handler, TakeImage, encVars, CameraTypes
    <3>2. PostedRise' /\ Waiting' \subseteq Waiting
      BY <1>0, <3>1, TailWaiting
    <3>3. CASE m_frames' = m_frames
      BY <2>0, <3>1, <3>2, <3>3, FewerWait
    <3>4. CASE n # 0 /\ m_frames' = Append(m_frames, n)
      <4>1. IsPicture(Head(posted))
        BY <1>0, <3>1, <3>4, PostedHead DEF IsPicture
      <4>2. n \in Waiting /\ Before({n}, Waiting')
        BY <1>0, <3>1, <4>1, TailWaiting
      <4>3. n \in 1 .. MaxImages
        BY <4>2 DEF Waiting
      <4>. HIDE DEF n
      <4>4. Before(Elements(m_frames), {n}) /\ Before(Elements(encoded), {n}) /\ Before(Encoding, {n})
        BY <4>2 DEF InSequence, Before
      <4>5. Elements(m_frames') = Elements(m_frames) \cup {n} /\ Rising(m_frames')
        BY <1>0, <3>4, <4>3, <4>4, AppendRising DEF InSequence
      <4>6. Encoding' = Encoding
        BY <2>0, <3>1 DEF Encoding
      <4>. QED
        BY <2>0, <3>2, <4>2, <4>4, <4>5, <4>6 DEF InSequence, Before
    <3>. QED
      BY <3>1, <3>3, <3>4
  <2>3. CASE Handler /\ (Run \/ TestPlay \/ StopCamera \/ StoreThread)
    <3>1. UNCHANGED <<posted, enc, m_frames>>
      BY <2>3 DEF Handler, Run, TestPlay, StopCamera, StoreThread, encVars
    <3>2. PostedRise' /\ Waiting' \subseteq Waiting
      BY <1>0, <3>1 DEF PostedRise, Waiting
    <3>. QED
      BY <2>0, <3>1, <3>2, FewerWait
  <2>4. CASE Timer
    <3>1. UNCHANGED <<posted, m_frames>> /\ ~m_isInitAV /\ enc' \in {enc, "top"}
      BY <2>4 DEF Timer, InitContext
    <3>2. Encoding' = Encoding
      BY <2>0, <3>1 DEF Encoding, Opened
    <3>3. PostedRise' /\ Waiting' = Waiting
      BY <1>0, <3>1 DEF PostedRise, Waiting
    <3>. QED
      BY <2>0, <3>1, <3>2, <3>3 DEF InSequence
  <2>5. CASE Leave
    <3>1. posted' = <<>> /\ UNCHANGED <<enc, m_frames>>
      BY <2>5 DEF Leave, LeaveLoop, encVars
    <3>2. PostedRise' /\ Waiting' \subseteq Waiting
      BY <3>1 DEF PostedRise, Waiting
    <3>. QED
      BY <2>0, <3>1, <3>2, FewerWait
  <2>. QED
    BY <1>3, <2>1, <2>2, <2>3, <2>4, <2>5 DEF Handler
<1>4. CASE doEncode
  <2>0. UNCHANGED <<images, posted>>
    BY <1>4 DEF doEncode, deviceVars
  <2>1. PostedRise' /\ Waiting' = Waiting
    BY <1>0, <2>0 DEF PostedRise, Waiting
  <2>2. CASE EncTop
    <3>1. UNCHANGED <<encoded, encImage, m_frames>> /\ Encoding' = Encoding
      BY <2>2 DEF EncTop, Encoding
    <3>. QED
      BY <2>0, <2>1, <3>1 DEF InSequence
  <2>3. CASE EncLook
    <3>1. CASE m_frames = <<>>
      <4>1. UNCHANGED <<encoded, encImage, m_frames>> /\ Encoding' = Encoding
        BY <2>3, <3>1 DEF EncLook, Encoding
      <4>. QED
        BY <2>0, <2>1, <4>1 DEF InSequence
    <3>2. CASE m_frames # <<>>
      <4>1. /\ m_frames' = Tail(m_frames) /\ Encoding' = {Head(m_frames)} /\ encoded' = encoded
        BY <2>3, <3>2 DEF EncLook, Encoding
      <4>2. /\ Head(m_frames) \in Elements(m_frames) /\ Elements(m_frames') \subseteq Elements(m_frames)
            /\ Rising(m_frames') /\ Before({Head(m_frames)}, Elements(m_frames'))
        BY <1>0, <3>2, <4>1, TailRising DEF InSequence
      <4>. QED
        BY <2>0, <2>1, <4>1, <4>2 DEF InSequence, Before
    <3>. QED
      BY <3>1, <3>2
  <2>4. CASE EncodeFrame
    <3>1. /\ encoded' = Append(encoded, encImage) /\ m_frames' = m_frames /\ Encoding = {encImage}
          /\ Encoding' = {} /\ encImage \in 1 .. MaxImages
      BY <2>4 DEF EncodeFrame, Encoding, CameraTypes
    <3>2. Before(Elements(encoded), {encImage})
      BY <3>1 DEF InSequence, Before
    <3>3. Elements(encoded') = Elements(encoded) \cup {encImage} /\ Rising(encoded')
      BY <1>0, <3>1, <3>2, AppendRising DEF InSequence
    <3>. QED
      BY <2>0, <2>1, <3>1, <3>3 DEF InSequence, Before
  <2>. QED
    BY <1>4, <2>2, <2>3, <2>4 DEF doEncode
<1>5. CASE UNCHANGED cameraVars
  <2>1. UNCHANGED <<encoded, enc, encImage, m_frames, images, posted>>
    BY <1>5 DEF cameraVars, encVars, deviceVars
  <2>2. PostedRise' /\ Waiting' \subseteq Waiting
    BY <1>0, <2>1 DEF PostedRise, Waiting
  <2>. QED
    BY <2>1, <2>2, FewerWait
<1>. QED
  BY <1>1, <1>2, <1>3, <1>4, <1>5, CameraSteps

-----------------------------------------------------------------------------
(* The theorems about the camera *)

LEMMA InitCamera == ViewerInit => CameraInv
<1>. SUFFICES ASSUME Init PROVE CameraInv
  BY DEF ViewerInit
<1>1. CameraTypes
  BY InitCameraTypes
<1>2. FollowInv
  BY DEF Init, FollowInv
<1>3. Opened /\ Ending
  BY DEF Init, Opened, Ending
<1>4. DOMAIN posted = {} /\ DOMAIN encoded = {} /\ DOMAIN m_frames = {} /\ enc # "encode"
  BY DEF Init
<1>5. InSequence
  BY <1>4 DEF InSequence, Rising, PostedRise, Before, Elements, Encoding, Waiting
<1>. QED
  BY <1>1, <1>2, <1>3, <1>5 DEF CameraInv

LEMMA CameraHolds == Spec => []CameraInv
<1>1. CameraInv /\ [ViewerNext]_viewerVars => CameraInv'
  BY CameraTypesStay, FollowStays, OpenedStays, EndingStays, SequenceStays DEF CameraInv
<1>. QED
  BY <1>1, InitCamera, PTL DEF Spec

(* The types of CameraStream, with the limit of its queue. *)
THEOREM CameraStreamTypes == Spec => []TypeOK
<1>1. CameraInv => TypeOK
  BY DEF CameraInv, CameraTypes
<1>. QED
  BY <1>1, CameraHolds, PTL

(* Once the posted calls have been served the camera runs exactly while m_isPlay says so. *)
THEOREM CameraFollowsCalls == Spec => []CameraFollows
<1>1. CameraInv => CameraFollows
  <2>. SUFFICES ASSUME CameraInv, gui = "idle", loop \in {"exec", "image"}, device # "none",
                       \A k \in DOMAIN posted : posted[k][1] = "image"
                PROVE  m_isPlay <=> device = "active"
    BY DEF CameraFollows
  <2>1. PICK call \in Slots : call = Call(m_isPlay)
    BY CallIs
  <2>2. ~LastCall(call)
    BY <2>1, CallIs DEF LastCall
  <2>3. LastCall(call) \/ (NoCalls /\ Followed)
    BY <2>1 DEF CameraInv, FollowInv, Call, LastCall
  <2>. QED
    BY <2>2, <2>3 DEF Followed
<1>. QED
  BY <1>1, CameraHolds, PTL

(* The encoder gets each image once and in order, while it is open for that size; its thread has *)
(* ended before it is closed and is joined, but for the one stored after the destructor looked.  *)
THEOREM EncoderIsServed == Spec => []EncoderServed
<1>1. CameraInv => EncoderServed
  <2>. SUFFICES ASSUME CameraInv PROVE EncoderServed
    OBVIOUS
  <2>1. enc = "encode" => late \/ m_fmt = cameraSize \/ testSize \notin {cameraSize, NoSize}
    BY DEF CameraInv, Opened, Ending
  <2>2. \A j, k \in DOMAIN encoded : j < k => encoded[j] < encoded[k]
    BY DEF CameraInv, InSequence, Rising
  <2>3. /\ loop = "stopped" => late \/ enc \in {"none", "finished"}
        /\ gui = "terminated" => late
    BY DEF CameraInv, Ending
  <2>. QED
    BY <2>1, <2>2, <2>3 DEF EncoderServed
<1>. QED
  BY <1>1, CameraHolds, PTL

-----------------------------------------------------------------------------
(* The widget *)

LEMMA ImageIs ==
    ASSUME NEW kind \in {"yuv", "rgb"}, NEW n \in Nat, NEW size \in Sizes \cup {NoSize}
    PROVE  /\ image(kind, n, size) \in GuiImage
           /\ image(kind, n, size).kind = kind /\ image(kind, n, size).size = size
  BY DEF image, GuiImage

LEMMA InitFrame == ViewerInit => FrameInv
<1>. SUFFICES ASSUME Init, VideoFrameInit, stream = 0 PROVE FrameInv
  BY DEF ViewerInit
<1>1. /\ null("yuv") \in GuiImage /\ null("rgb") \in GuiImage /\ null("yuv").kind = "yuv"
      /\ null("rgb").kind = "rgb" /\ null("yuv").size = NoSize
  BY ImageIs DEF null
<1>2. toGui \in Seq(GuiImage)
  BY EmptySeq DEF Init
<1>3. gl \in Textures
  BY <1>1 DEF VideoFrameInit, Textures
<1>4. {m_isYUV, m_is_update, m_is_tex_update, m_is_tex_update_q, overwritten, painting} \subseteq BOOLEAN
  BY DEF VideoFrameInit
<1>5. FrameTypes
  BY <1>1, <1>2, <1>3, <1>4 DEF VideoFrameInit, FrameTypes
<1>6. Drawn
  BY <1>1 DEF VideoFrameInit, Drawn, Current, PendingYUV, PendingRGB
<1>7. stream \in Nat
  OBVIOUS
<1>. QED
  BY <1>5, <1>6, <1>7 DEF FrameInv

(* What the camera and the stream do to the widget: they post images to it. *)
LEMMA PostsStay ==
    CameraInv /\ FrameInv /\ [ViewerNext]_viewerVars /\ UNCHANGED frameVars => FrameInv'
<1>. SUFFICES ASSUME CameraInv, FrameInv, [ViewerNext]_viewerVars, UNCHANGED frameVars PROVE FrameInv'
  OBVIOUS
<1>1. toGui' \in Seq(GuiImage)
  <2>0. toGui \in Seq(GuiImage)
    BY DEF FrameInv, FrameTypes
  <2>. DEFINE Add(im) == toGui' = Append(toGui, im)
  <2>1. CASE \E im \in GuiImage : Add(im)
    BY <2>0, <2>1, AppendProperties
  <2>2. CASE toGui' = toGui
    BY <2>0, <2>2
  <2>3. CASE toGui # <<>> /\ toGui' = Tail(toGui)
    BY <2>0, <2>3, HeadTailProperties
  <2>4. CASE TakeImage
    <3>. DEFINE n == Head(posted)[2]
    <3>1. toGui' = toGui \/ (n # 0 /\ Add(image("rgb", n, cameraSize)))
      BY <2>4 DEF TakeImage
    <3>2. n \in Nat
      <4>1. Posted("image") /\ posted \in Seq(Slots)
        BY <2>4 DEF TakeImage, CameraInv, CameraTypes
      <4>2. Head(posted) \in Slots /\ Head(posted)[1] = "image"
        BY <4>1, PostedHead
      <4>3. n \in 0 .. MaxImages
        BY <4>2, SlotIs
      <4>. QED
        BY <4>3, CameraAssumption
    <3>. HIDE DEF n
    <3>3. image("rgb", n, cameraSize) \in GuiImage
      BY <3>2, ImageIs, CameraAssumption
    <3>. QED
      BY <3>1, <3>3, <2>1, <2>2
  <2>5. CASE \E size \in Sizes \cup {NoSize} : sendImage(size)
    <3>1. PICK size \in Sizes \cup {NoSize} : sendImage(size)
      BY <2>5
    <3>2. stream + 1 \in Nat
      BY DEF FrameInv
    <3>. QED
      BY <3>1, <3>2, <2>1, ImageIs DEF sendImage
  <2>6. CASE Widget
    BY <2>2, <2>3, <2>6 DEF Widget, VideoFrameNext, onReceiveImage, Set, onTimeout, paintEvent
  <2>7. CASE ~TakeImage /\ Next
    BY <2>2, <2>7 DEF Next, GuiStep, Present, Handler, Timer, Leave, doEncode, Run, onStartCamera,
       TestPlay, StopCamera, StoreThread, InitContext, LeaveLoop
  <2>8. CASE UNCHANGED viewerVars
    BY <2>2, <2>8 DEF viewerVars, vars
  <2>. QED
    BY <2>4, <2>5, <2>6, <2>7, <2>8 DEF ViewerNext
<1>2. stream' \in Nat
  BY DEF ViewerNext, viewerVars, sendImage, Widget, FrameInv
<1>3. FrameTypes'
  BY <1>1 DEF FrameInv, FrameTypes, frameVars
<1>4. Drawn'
  BY DEF FrameInv, Drawn, Current, PendingYUV, PendingRGB, Drawing, frameVars
<1>. QED
  BY <1>2, <1>3, <1>4 DEF FrameInv

LEMMA ReceiveStays == FrameInv /\ onReceiveImage /\ stream' = stream => FrameInv'
<1>. SUFFICES ASSUME FrameInv, onReceiveImage, stream' = stream PROVE FrameInv'
  OBVIOUS
<1>0. /\ FrameTypes /\ Drawn /\ toGui \in Seq(GuiImage) /\ toGui # <<>> /\ toGui' = Tail(toGui)
      /\ m_is_update' = TRUE /\ last' = Head(toGui) /\ UNCHANGED <<gl, overwritten, painting>>
  BY DEF FrameInv, FrameTypes, onReceiveImage
<1>1. Head(toGui) \in GuiImage /\ toGui' \in Seq(GuiImage)
  BY <1>0, HeadTailProperties
<1>2. CASE Head(toGui).kind = "yuv"
  <2>1. /\ m_isYUV' = TRUE /\ m_image' = Head(toGui) /\ m_is_tex_update' = TRUE
        /\ UNCHANGED <<m_qimage, m_is_tex_update_q>>
    BY <1>2 DEF onReceiveImage
  <2>2. FrameTypes'
    BY <1>0, <1>1, <1>2, <2>1 DEF FrameTypes
  <2>3. Drawn'
    BY <1>0, <2>1 DEF Drawn, Current, PendingYUV, PendingRGB
  <2>. QED
    BY <2>2, <2>3 DEF FrameInv
<1>3. CASE Head(toGui).kind # "yuv"
  <2>1. /\ m_isYUV' = FALSE /\ m_qimage' = Head(toGui) /\ m_is_tex_update_q' = TRUE
        /\ UNCHANGED <<m_image, m_is_tex_update>>
    BY <1>3 DEF onReceiveImage
  <2>2. Head(toGui).kind = "rgb"
    BY <1>1, <1>3 DEF GuiImage
  <2>3. FrameTypes'
    BY <1>0, <1>1, <2>1, <2>2 DEF FrameTypes
  <2>4. Drawn'
    BY <1>0, <2>1 DEF Drawn, Current, PendingYUV, PendingRGB
  <2>. QED
    BY <2>3, <2>4 DEF FrameInv
<1>. QED
  BY <1>2, <1>3

LEMMA SetStays == FrameInv /\ Set /\ stream' = stream => FrameInv'
<1>. SUFFICES ASSUME FrameInv, Set, stream' = stream PROVE FrameInv'
  OBVIOUS
<1>1. /\ m_is_update' = TRUE
      /\ UNCHANGED <<m_image, m_qimage, m_isYUV, m_is_tex_update, m_is_tex_update_q, gl, last, overwritten,
                     painting, toGui>>
  BY DEF Set
<1>2. FrameTypes'
  BY <1>1 DEF FrameInv, FrameTypes
<1>3. Drawn'
  BY <1>1 DEF FrameInv, Drawn, Current, PendingYUV, PendingRGB
<1>. QED
  BY <1>2, <1>3 DEF FrameInv

LEMMA PaintStays == FrameInv /\ paintEvent /\ stream' = stream => FrameInv'
<1>. SUFFICES ASSUME FrameInv, paintEvent, stream' = stream PROVE FrameInv'
  OBVIOUS
<1>1. /\ painting' = FALSE /\ screen' = Drawing(Current, gl.image, gl.imageUV)
      /\ UNCHANGED <<m_image, m_qimage, m_isYUV, m_is_update, m_is_tex_update, m_is_tex_update_q, gl, last,
                     overwritten, settings, toGui>>
  BY DEF paintEvent, Current
<1>2. FrameTypes'
  BY <1>1 DEF FrameInv, FrameTypes
<1>3. Drawn'
  BY <1>1 DEF FrameInv, Drawn, Current, PendingYUV, PendingRGB, Drawing
<1>. QED
  BY <1>2, <1>3 DEF FrameInv

(* The textures after an upload. *)
LEMMA UploadYUV ==
    ASSUME NEW g \in Textures, m_image \in GuiImage
    PROVE  /\ generateTexture(g) \in Textures /\ generateTexture(g).image = m_image
           /\ (g.layout = "yuv" => g.sizeUV = g.size) =>
                 /\ generateTexture(g).layout = "yuv" => generateTexture(g).sizeUV = generateTexture(g).size
                 /\ generateTexture(g).layout = "yuv" => generateTexture(g).imageUV = m_image
<1>1. m_image.size \in Sizes \cup {NoSize} /\ null("yuv") \in GuiImage
  BY ImageIs DEF GuiImage, null
<1>2. CASE g.size # m_image.size
  BY <1>1, <1>2 DEF generateTexture, Textures
<1>3. CASE g.size = m_image.size
  BY <1>1, <1>3 DEF generateTexture, Textures
<1>. QED
  BY <1>2, <1>3

LEMMA UploadRGB ==
    ASSUME NEW g \in Textures, m_qimage \in GuiImage
    PROVE  /\ generateTextureQ(g) \in Textures /\ generateTextureQ(g).image = m_qimage
           /\ (g.layout = "yuv" => g.sizeUV = g.size) =>
                 (generateTextureQ(g).layout = "yuv" =>
                     generateTextureQ(g).sizeUV = generateTextureQ(g).size)
<1>1. m_qimage.size \in Sizes \cup {NoSize}
  BY DEF GuiImage
<1>2. CASE g.size # m_qimage.size
  BY <1>1, <1>2 DEF generateTextureQ, Textures
<1>3. CASE g.size = m_qimage.size
  BY <1>1, <1>3 DEF generateTextureQ, Textures
<1>. QED
  BY <1>2, <1>3

LEMMA TickStays == FrameInv /\ onTimeout /\ stream' = stream => FrameInv'
<1>. SUFFICES ASSUME FrameInv, onTimeout, stream' = stream PROVE FrameInv'
  OBVIOUS
<1>. PICK g : g = IF PendingYUV THEN generateTexture(gl) ELSE gl
  OBVIOUS
<1>0. /\ m_is_update' = FALSE /\ painting' = TRUE
      /\ gl' = IF PendingRGB THEN generateTextureQ(g) ELSE g
      /\ (m_is_tex_update' <=> m_is_tex_update /\ ~PendingYUV)
      /\ (m_is_tex_update_q' <=> m_is_tex_update_q /\ ~PendingRGB)
      /\ UNCHANGED <<m_image, m_qimage, m_isYUV, last, toGui>>
  BY DEF onTimeout, PendingYUV, PendingRGB
<1>1. overwritten' = IF PendingYUV \/ PendingRGB THEN PendingYUV /\ PendingRGB /\ m_isYUV ELSE overwritten
  BY DEF onTimeout, PendingYUV, PendingRGB
<1>2. {m_is_update', m_is_tex_update', m_is_tex_update_q', overwritten', painting'} \subseteq BOOLEAN
  BY DEF onTimeout, FrameInv, FrameTypes
<1>3. /\ gl \in Textures /\ m_image \in GuiImage /\ m_qimage \in GuiImage
      /\ gl.layout = "yuv" => gl.sizeUV = gl.size
  BY DEF FrameInv, FrameTypes, Drawn
<1>4. /\ g \in Textures /\ (g.layout = "yuv" => g.sizeUV = g.size)
      /\ PendingYUV => g.image = m_image /\ (g.layout = "yuv" => g.imageUV = m_image)
      /\ ~PendingYUV => g = gl
  BY <1>3, UploadYUV
<1>5. /\ gl' \in Textures /\ (gl'.layout = "yuv" => gl'.sizeUV = gl'.size)
      /\ PendingRGB => gl'.image = m_qimage
      /\ ~PendingRGB => gl' = g
  BY <1>0, <1>3, <1>4, UploadRGB
<1>6. FrameTypes'
  BY <1>0, <1>2, <1>5 DEF FrameInv, FrameTypes
<1>7. ~PendingYUV' /\ ~PendingRGB'
  BY <1>0 DEF PendingYUV, PendingRGB
<1>8. /\ last' = Current' /\ Current' = Current /\ last = Current
  BY <1>0 DEF FrameInv, Drawn, Current
<1>9. ASSUME m_isYUV, last.size # NoSize, ~m_is_tex_update', ~overwritten'
      PROVE  gl'.image = last /\ (gl'.layout = "yuv" => gl'.imageUV = last)
  <2>1. last = m_image
    BY <1>8, <1>9 DEF Current
  <2>2. CASE PendingYUV
    BY <1>1, <1>4, <1>5, <1>9, <2>1, <2>2
  <2>3. CASE ~PendingYUV
    <3>1. ~m_is_tex_update /\ ~PendingRGB
      BY <1>0, <1>9, <2>1, <2>3 DEF PendingYUV, FrameInv, Drawn
    <3>2. ~overwritten
      BY <1>1, <1>9, <2>3, <3>1
    <3>. QED
      BY <1>4, <1>5, <1>9, <2>3, <3>1, <3>2 DEF FrameInv, Drawn
  <2>. QED
    BY <2>2, <2>3
<1>10. ASSUME ~m_isYUV, last.size # NoSize, ~m_is_tex_update_q'
       PROVE  gl'.image = last
  <2>1. last = m_qimage
    BY <1>8, <1>10 DEF Current
  <2>2. CASE PendingRGB
    BY <1>5, <2>1, <2>2
  <2>3. CASE ~PendingRGB
    <3>1. ~m_is_tex_update_q /\ ~PendingYUV
      BY <1>0, <1>10, <2>1, <2>3 DEF PendingRGB, FrameInv, Drawn
    <3>. QED
      BY <1>4, <1>5, <1>10, <2>3, <3>1 DEF FrameInv, Drawn
  <2>. QED
    BY <2>2, <2>3
<1>11. Drawn'
  BY <1>0, <1>5, <1>7, <1>8, <1>9, <1>10 DEF Drawn
<1>. QED
  BY <1>6, <1>11 DEF FrameInv

(* Once nothing is outstanding the screen shows the image received last, all of its planes, with *)
(* the present settings, but for the cases DrawsLast names.                                      *)
THEOREM ScreenDrawsLast == Spec => []DrawsLast
<1>1. CameraInv /\ FrameInv /\ [ViewerNext]_viewerVars => FrameInv'
  <2>. SUFFICES ASSUME CameraInv, FrameInv, [ViewerNext]_viewerVars PROVE FrameInv'
    OBVIOUS
  <2>1. CASE UNCHANGED frameVars
    BY <2>1, PostsStay
  <2>2. CASE Widget
    BY <2>2, ReceiveStays, SetStays, TickStays, PaintStays DEF Widget, VideoFrameNext
  <2>3. UNCHANGED frameVars \/ Widget
    BY DEF ViewerNext, viewerVars, sendImage
  <2>. QED
    BY <2>1, <2>2, <2>3
<1>2. FrameInv => DrawsLast
  <2>. SUFFICES ASSUME FrameInv, ~m_is_update, ~painting, last.size # NoSize, gl.layout = last.kind, ~overwritten
                PROVE  screen = Drawing(last, last, last)
    BY DEF DrawsLast
  <2>1. /\ last = Current /\ ~PendingYUV /\ ~PendingRGB
        /\ screen = Drawing(Current, gl.image, gl.imageUV)
    BY DEF FrameInv, Drawn
  <2>2. CASE m_isYUV
    <3>1. last = m_image /\ last.kind = "yuv" /\ ~m_is_tex_update
      BY <2>1, <2>2 DEF Current, PendingYUV, FrameInv, FrameTypes
    <3>2. gl.image = last /\ gl.imageUV = last
      BY <2>2, <3>1 DEF FrameInv, Drawn
    <3>. QED
      BY <2>1, <3>2
  <2>3. CASE ~m_isYUV
    <3>1. last = m_qimage /\ last.kind = "rgb" /\ ~m_is_tex_update_q
      BY <2>1, <2>3 DEF Current, PendingRGB, FrameInv, FrameTypes
    <3>2. gl.image = last
      BY <2>3, <3>1 DEF FrameInv, Drawn
    <3>. QED
      BY <2>1, <3>1, <3>2 DEF Drawing
  <2>. QED
    BY <2>2, <2>3
<1>. QED
  BY <1>1, <1>2, InitFrame, CameraHolds, PTL DEF Spec

-----------------------------------------------------------------------------
(* The pixels of the pictures on this way, for every colour and every size of an image: *)
(* the arithmetic of YUVImage, which converts them, and of the rows that set copies.    *)
Pixels == INSTANCE YUVImage

(* No value of cnvrgb2yuv leaves a byte, so storing it in an uchar loses nothing; they *)
(* are in the ranges of BT.601.                                                        *)
THEOREM ConvertsInRange ==
    ASSUME NEW r \in Pixels!Byte, NEW g \in Pixels!Byte, NEW b \in Pixels!Byte
    PROVE  Pixels!y(r, g, b) \in 16 .. 235 /\ Pixels!u(r, g, b) \in 16 .. 240 /\ Pixels!v(r, g, b) \in 16 .. 240
  BY SMT DEF Pixels!Byte, Pixels!y, Pixels!u, Pixels!v

LEMMA Monotone ==
    ASSUME NEW m \in Nat, NEW n \in Nat, m <= n, NEW k \in Nat
    PROVE  m * k <= n * k
  BY SMT

LEMMA ProductIsNat ==
    ASSUME NEW m \in Nat, NEW n \in Nat
    PROVE  m * n \in Nat
  BY SMT

(* Every pixel is written inside the plane of Y, whatever the size. *)
THEOREM LumaInBounds ==
    ASSUME NEW w \in Nat, NEW h \in Nat, NEW i \in Pixels!Rows(h), NEW j \in Pixels!Columns(w),
           NEW k \in 0 .. 1, NEW x \in 0 .. 1
    PROVE  0 <= Pixels!indexY(w, i, j, k, x) /\ Pixels!indexY(w, i, j, k, x) < Pixels!lY(w, h)
<1>1. 2 * i + k \in Nat /\ 2 * i + k + 1 <= h
  BY DEF Pixels!Rows
<1>2. 2 * j + x \in Nat /\ 2 * j + x < w
  BY DEF Pixels!Columns
<1>3. (2 * i + k + 1) * w <= h * w
  BY <1>1, Monotone
<1>4. (2 * i + k + 1) * w = (2 * i + k) * w + w
  BY <1>1, SMT
<1>5. (2 * i + k) * w \in Nat /\ h * w \in Nat /\ h * w = w * h
  BY <1>1, ProductIsNat, SMT
<1>6. Pixels!indexY(w, i, j, k, x) = (2 * i + k) * w + (2 * j + x)
  <2>. i \in Int /\ j \in Int /\ k \in Int /\ x \in Int
    BY DEF Pixels!Rows, Pixels!Columns
  <2>. QED
    BY <1>5 DEF Pixels!indexY
<1>7. (2 * i + k) * w + w <= Pixels!lY(w, h)
  BY <1>3, <1>4, <1>5 DEF Pixels!lY
<1>. QED
  BY <1>2, <1>5, <1>6, <1>7 DEF Pixels!lY

(* For an even width the planes of U and V hold every index written, each of them once: *)
(* the rows follow each other.  (For 7 by 6 the last index is the length of the plane.) *)
THEOREM ChromaInBounds ==
    ASSUME NEW a \in Nat, NEW h \in Nat, NEW i \in Pixels!Rows(h), NEW j \in Pixels!Columns(2 * a)
    PROVE  /\ 0 <= Pixels!indexU(2 * a, i, j) /\ Pixels!indexU(2 * a, i, j) < Pixels!lU(2 * a, h)
           /\ Pixels!indexU(2 * a, i, j) = i * a + j
<1>1. i \in Nat /\ i + 1 <= h \div 2 /\ h \div 2 \in Nat /\ 2 * (h \div 2) <= h
  BY DEF Pixels!Rows
<1>2. j \in Nat /\ j < a
  BY DEF Pixels!Columns
<1>3. i * a \in Nat /\ (i * (2 * a)) \div 2 = i * a
  <2>1. i * (2 * a) = 2 * (i * a) /\ i * a \in Nat
    BY <1>1, ProductIsNat, SMT
  <2>. QED
    BY <2>1
<1>4. (i + 1) * a = i * a + a /\ (i + 1) * a <= (h \div 2) * a
  BY <1>1, Monotone, SMT
<1>5. (h \div 2) * a <= (a * h) \div 2
  <2>1. (2 * (h \div 2)) * a <= h * a
    BY <1>1, Monotone
  <2>2. (2 * (h \div 2)) * a = 2 * ((h \div 2) * a) /\ h * a = a * h
    BY <1>1, SMT
  <2>3. (h \div 2) * a \in Nat /\ a * h \in Nat
    BY <1>1, ProductIsNat
  <2>. QED
    BY <2>1, <2>2, <2>3
<1>6. Pixels!lU(2 * a, h) = (a * h) \div 2
  BY DEF Pixels!lU
<1>. QED
  BY <1>2, <1>3, <1>4, <1>5, <1>6, ProductIsNat DEF Pixels!indexU

THEOREM OddWidthOverruns == Pixels!indexU(7, 2, 2) = Pixels!lU(7, 6) /\ 2 \in Pixels!Rows(6) /\ 2 \in Pixels!Columns(7)
  BY SMT DEF Pixels!indexU, Pixels!lU, Pixels!Rows, Pixels!Columns
=============================================================================
