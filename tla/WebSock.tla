------------------------------- MODULE WebSock -------------------------------
(***************************************************************************)
(* WebSock (websock.cpp, websock.h): the pipeline from a received image to *)
(* the signal that shows it, and the threads that run it:                  *)
(*   ws   the QThread's event loop: images from VideoData (tryParseData),  *)
(*        events of TestSender (event), the 10 ms timer (onTimeout);       *)
(*   snd  doSendPktToCodec: packets to the H.264 decoder, pictures from it;*)
(*   dec  doGetDecodedFrame: pictures to m_frames;                         *)
(*   one thread per JPEG frame (Frame::encode);                            *)
(*   main the thread that destroys the WebSock.                            *)
(* m_mutex guards the pushes to m_frames and the pop; every size and front *)
(* is read outside it.  The operations of std::queue are taken as atomic.  *)
(* A critical section that only pushes is one step; onTimeout's pops, and  *)
(* ~Frame joins the frame's thread inside it.                              *)
(***************************************************************************)
EXTENDS Integers, Sequences, FiniteSets

CONSTANTS
    MAX_FRAMES,        \* #define, 8: JPEG frames are queued below it
    MAX_BUFFERS,       \* #define, 3000: packets and decoded frames
    MAX_QUEUE_SUZE,    \* #define, 15: pictures waiting for dec
    Kinds,             \* the kinds of images the peer sends
    CodecOpen,         \* initH264 found and opened the decoder
    Delay,             \* the most pictures the decoder holds back
    MaxImages          \* bound: images that arrive

ASSUME WebSockAssumption ==
    /\ MAX_FRAMES \in Nat \ {0} /\ MAX_BUFFERS \in Nat \ {0} /\ MAX_QUEUE_SUZE \in Nat \ {0}
    /\ MAX_FRAMES <= MAX_BUFFERS
    /\ Kinds \subseteq {"jpeg", "h264"}
    /\ CodecOpen \in BOOLEAN
    /\ Delay \in Nat /\ MaxImages \in Nat

VARIABLES
    arrived,       \* images that have arrived; their numbers are the images' names
    ws, wsImage,   \* where the event loop is, and the image it is handling
    m_framesH264,  \* packets for the decoder
    snd, sndImage,
    inside,        \* external: images the decoder has been given and not returned
    avail,         \* external: how many of them receive_frame returns before EAGAIN
    leaked,        \* AVFrames allocated and never freed, saturating at 1
    m_avframes,    \* decoded pictures for dec
    dec, decImage,
    m_frames,      \* frames to show: [image, done, thr]
    m_mutex,
    shown,         \* history: the images of the signals sendImage
    m_done, quitting, main,
    overreadMatches    \* the byte behind JPEG_STRING in this build, see IsJpeg

wsVars == <<arrived, ws, wsImage, shown>>
sndVars == <<snd, sndImage, inside, avail, leaked>>
decVars == <<dec, decImage>>
mainVars == <<m_done, quitting, main, overreadMatches>>
vars == <<wsVars, m_framesH264, sndVars, m_avframes, decVars, m_frames, m_mutex, mainVars>>

Image == [id : 1 .. MaxImages, kind : {"jpeg", "h264"}]
NoImage == [id |-> 0, kind |-> "none"]
Frame == [image : Image, done : BOOLEAN, thr : {"none", "running", "finished"}]

Init ==
    /\ arrived = 0 /\ ws = "loop" /\ wsImage = NoImage
    /\ m_framesH264 = <<>>
    /\ snd = "top" /\ sndImage = NoImage
    /\ inside = <<>> /\ avail = 0 /\ leaked = 0
    /\ m_avframes = <<>>
    /\ dec = "top" /\ decImage = NoImage
    /\ m_frames = <<>> /\ m_mutex = "free" /\ shown = <<>>
    /\ m_done = FALSE /\ quitting = FALSE /\ main = "running"
    /\ overreadMatches \in BOOLEAN

-----------------------------------------------------------------------------
(* ws: the images that arrive *)

(* check_string(data, JPEG_STRING, 3) compares one byte past JPEG_STRING when *)
(* the three match, and says no when that byte is the image's fourth.         *)
IsJpeg(kind) == kind = "jpeg" /\ ~overreadMatches

NextImage(kind) == [id |-> arrived + 1, kind |-> kind]

(* Mutant: the limit is compared with <=. *)
JpegFits_OneMore == Len(m_frames) <= MAX_FRAMES

(* tryParseData with a JPEG: the size is compared before the lock. *)
JpegFits == Len(m_frames) < MAX_FRAMES

ReceiveJpeg(kind) ==
    /\ ws = "loop" /\ arrived < MaxImages /\ arrived' = arrived + 1
    /\ IsJpeg(kind)
    /\ IF JpegFits THEN ws' = "push" /\ wsImage' = NextImage(kind) ELSE UNCHANGED <<ws, wsImage>>
    /\ UNCHANGED <<m_framesH264, m_frames, m_mutex, shown>>

(* tryParseData with anything else, and event with an EventTest. *)
ReceiveH264(kind) ==
    /\ ws = "loop" /\ arrived < MaxImages /\ arrived' = arrived + 1
    /\ ~IsJpeg(kind)
    /\ m_framesH264' = IF Len(m_framesH264) < MAX_BUFFERS
                       THEN Append(m_framesH264, NextImage(kind)) ELSE m_framesH264
    /\ UNCHANGED <<ws, wsImage, m_frames, m_mutex, shown>>

(* m_frames.push(Frame(pkt.data)) under the mutex. *)
PushJpeg ==
    /\ ws = "push" /\ ws' = "start" /\ m_mutex = "free"
    /\ m_frames' = Append(m_frames, [image |-> wsImage, done |-> FALSE, thr |-> "none"])
    /\ UNCHANGED <<arrived, wsImage, m_framesH264, m_mutex, shown>>

(* Mutant: front() for back(). *)
Back_Front == 1

Back == Len(m_frames)

(* m_frames.back().start(), after the unlock: back() may be another frame by now. *)
StartBack ==
    /\ ws = "start" /\ ws' = "loop" /\ wsImage' = NoImage
    /\ m_frames' = [m_frames EXCEPT ![Back].thr = "running"]
    /\ UNCHANGED <<arrived, m_framesH264, m_mutex, shown>>

-----------------------------------------------------------------------------
(* ws: the timer *)

FrontDone == m_frames # <<>> /\ Head(m_frames).done

(* Mutant: the front is popped whether done or not. *)
TestFront_Any ==
    /\ ws = "timeout" /\ ws' = IF m_frames # <<>> THEN "lock" ELSE "loop"
    /\ UNCHANGED <<arrived, wsImage, m_framesH264, m_frames, m_mutex, shown>>

(* The test of onTimeout's loop, outside the lock. *)
TestFront ==
    /\ ws = "timeout" /\ ws' = IF FrontDone THEN "lock" ELSE "loop"
    /\ UNCHANGED <<arrived, wsImage, m_framesH264, m_frames, m_mutex, shown>>

LockToPop ==
    /\ ws = "lock" /\ ws' = "pop"
    /\ m_mutex = "free" /\ m_mutex' = "ws"
    /\ UNCHANGED <<arrived, wsImage, m_framesH264, m_frames, shown>>

(* The copy and the pop; ~Frame waits for the thread of the popped frame. *)
PopFront ==
    /\ ws = "pop" /\ ws' = "emit"
    /\ Head(m_frames).thr # "running"
    /\ wsImage' = Head(m_frames).image /\ m_frames' = Tail(m_frames)
    /\ m_mutex' = "free"
    /\ UNCHANGED <<arrived, m_framesH264, shown>>

EmitSendImage ==
    /\ ws = "emit" /\ ws' = "timeout"
    /\ shown' = Append(shown, wsImage) /\ wsImage' = NoImage
    /\ UNCHANGED <<arrived, m_framesH264, m_frames, m_mutex>>

WsStep ==
    /\ PushJpeg \/ StartBack \/ TestFront \/ LockToPop \/ PopFront \/ EmitSendImage
    /\ UNCHANGED <<sndVars, m_avframes, decVars, mainVars>>

(* The loop takes an image or the timer, or returns from exec() after quit(). *)
Event ==
    /\ \/ \E kind \in Kinds : ReceiveJpeg(kind) \/ ReceiveH264(kind)
       \/ /\ ws = "loop" /\ ws' = "timeout"
          /\ UNCHANGED <<arrived, wsImage, m_framesH264, m_frames, m_mutex, shown>>
    /\ UNCHANGED <<sndVars, m_avframes, decVars, mainVars>>

TimerFires == Event /\ ws' = "timeout"

LeaveLoop ==
    /\ ws = "loop" /\ quitting /\ ws' = "stopped"
    /\ UNCHANGED <<arrived, wsImage, shown, m_framesH264, sndVars, m_avframes, decVars, m_frames,
                   m_mutex, mainVars>>

(* Mutant: encode forgets done. *)
Encoded_NotDone(frame) == [frame EXCEPT !.thr = "finished"]

Encoded(frame) == [frame EXCEPT !.thr = "finished", !.done = TRUE]

(* Frame::encode, in the thread of a frame. *)
Encode ==
    /\ \E k \in DOMAIN m_frames :
          /\ m_frames[k].thr = "running"
          /\ m_frames' = [m_frames EXCEPT ![k] = Encoded(@)]
    /\ UNCHANGED <<wsVars, m_framesH264, sndVars, m_avframes, decVars, m_mutex, mainVars>>

-----------------------------------------------------------------------------
(* snd *)

(* Mutant: while(true). *)
SndTop_Forever ==
    /\ snd = "top" /\ snd' = "receive"
    /\ UNCHANGED <<m_framesH264, sndImage, inside, avail, leaked, m_avframes>>

(* while(!m_done), and parseH264's av_frame_alloc. *)
SndTop ==
    /\ snd = "top" /\ snd' = IF m_done THEN "stopped" ELSE "receive"
    /\ UNCHANGED <<m_framesH264, sndImage, inside, avail, leaked, m_avframes>>

(* Mutant: no limit on the pictures waiting for dec. *)
PictureFits_Always == TRUE

PictureFits == Len(m_avframes) < MAX_QUEUE_SUZE

(* avcodec_receive_frame gave a picture: it is queued for dec, or dropped when *)
(* dec is behind.                                                              *)
ReceivePicture ==
    /\ snd = "receive" /\ CodecOpen /\ avail > 0
    /\ m_avframes' = IF PictureFits THEN Append(m_avframes, Head(inside)) ELSE m_avframes
    /\ inside' = Tail(inside) /\ avail' = avail - 1
    /\ UNCHANGED <<m_framesH264, snd, sndImage, leaked>>

(* EAGAIN ends the loop, and the AVFrame allocated last is never freed.  A decoder  *)
(* that is not open answers EINVAL instead, and the loop goes on for ever: snd      *)
(* stays here.                                                                      *)
ReceiveAgain ==
    /\ snd = "receive" /\ CodecOpen /\ avail = 0
    /\ leaked' = 1 /\ snd' = "take"
    /\ UNCHANGED <<m_framesH264, sndImage, inside, avail, m_avframes>>

(* Mutant: front() without pop(). *)
TakePacket_Keeps ==
    /\ snd = "take"
    /\ IF m_framesH264 = <<>> THEN snd' = "top" /\ UNCHANGED sndImage
       ELSE snd' = "send" /\ sndImage' = Head(m_framesH264)
    /\ UNCHANGED <<m_framesH264, inside, avail, leaked, m_avframes>>

TakePacket ==
    /\ snd = "take"
    /\ IF m_framesH264 = <<>> THEN snd' = "top" /\ UNCHANGED <<m_framesH264, sndImage>>
       ELSE /\ snd' = "send"
            /\ sndImage' = Head(m_framesH264) /\ m_framesH264' = Tail(m_framesH264)
    /\ UNCHANGED <<inside, avail, leaked, m_avframes>>

(* avcodec_send_packet: EAGAIN, and the loop of doSendPkt, while the decoder has *)
(* output nobody has read (avail > 0), which parseH264 never leaves.  Otherwise  *)
(* the packet is refused (an error, which doSendPkt ignores), or taken; then     *)
(* some of the images inside are ready and at most Delay are held back.          *)
SendPacket ==
    /\ snd = "send" /\ avail = 0
    /\ snd' = "top" /\ sndImage' = NoImage
    /\ \/ UNCHANGED <<inside, avail>>
       \/ /\ sndImage.kind = "h264"
          /\ inside' = Append(inside, sndImage)
          /\ avail' \in {n \in 0 .. Len(inside') : Len(inside') - n <= Delay}
    /\ UNCHANGED <<m_framesH264, leaked, m_avframes>>

SndStep ==
    /\ SndTop \/ ReceivePicture \/ ReceiveAgain \/ TakePacket \/ SendPacket
    /\ UNCHANGED <<wsVars, decVars, m_frames, m_mutex, mainVars>>

-----------------------------------------------------------------------------
(* dec *)

DecTop ==
    /\ dec = "top"
    /\ IF m_done THEN dec' = "stopped" /\ UNCHANGED <<decImage, m_avframes>>
       ELSE /\ m_avframes # <<>> /\ dec' = "check"
            /\ decImage' = Head(m_avframes) /\ m_avframes' = Tail(m_avframes)
    /\ UNCHANGED m_frames

(* createImage compares the size before the lock. *)
DecCheck ==
    /\ dec = "check"
    /\ IF Len(m_frames) < MAX_BUFFERS THEN dec' = "push" /\ UNCHANGED decImage
       ELSE dec' = "top" /\ decImage' = NoImage
    /\ UNCHANGED <<m_avframes, m_frames>>

DecodedFrame == [image |-> decImage, done |-> TRUE, thr |-> "none"]

DecPush ==
    /\ dec = "push" /\ m_mutex = "free"
    /\ m_frames' = Append(m_frames, DecodedFrame)
    /\ dec' = "top" /\ decImage' = NoImage
    /\ UNCHANGED m_avframes

DecStep ==
    /\ DecTop \/ DecCheck \/ DecPush
    /\ UNCHANGED <<wsVars, m_framesH264, sndVars, m_mutex, mainVars>>

-----------------------------------------------------------------------------
(* main *)

(* ~WebSock: m_done = true, quit(); what follows waits. *)
Destroy ==
    /\ main = "running" /\ main' = "waiting"
    /\ m_done' = TRUE /\ quitting' = TRUE
    /\ UNCHANGED <<wsVars, m_framesH264, sndVars, m_avframes, decVars, m_frames, m_mutex,
                   overreadMatches>>

(* wait(), the two joins, avcodec_free_context, and the members: ~Frame joins the *)
(* threads of the frames that are left.                                           *)
Destroyed ==
    /\ main = "waiting" /\ main' = "done"
    /\ ws = "stopped" /\ snd = "stopped" /\ dec = "stopped"
    /\ \A k \in DOMAIN m_frames : m_frames[k].thr # "running"
    /\ m_frames' = <<>> /\ m_framesH264' = <<>> /\ inside' = <<>> /\ avail' = 0
    /\ m_avframes' = <<>>
    /\ UNCHANGED <<wsVars, snd, sndImage, leaked, decVars, m_mutex, m_done, quitting,
                   overreadMatches>>

Next ==
    \/ Event \/ WsStep \/ LeaveLoop \/ Encode
    \/ SndStep \/ DecStep
    \/ Destroy \/ Destroyed

Spec == Init /\ [][Next]_vars

(* Every thread runs.  The event loop serves the timer between the images, of which *)
(* there are finitely many, and checks for quit() between two events, whatever      *)
(* events there are: strong fairness.                                               *)
LiveSpec ==
    /\ Spec
    /\ WF_vars(WsStep) /\ WF_vars(TimerFires) /\ SF_vars(LeaveLoop)
    /\ WF_vars(Encode) /\ WF_vars(SndStep) /\ WF_vars(DecStep) /\ WF_vars(Destroyed)

-----------------------------------------------------------------------------
TypeOK ==
    /\ arrived \in 0 .. MaxImages
    /\ ws \in {"loop", "push", "start", "timeout", "lock", "pop", "emit", "stopped"}
    /\ wsImage \in Image \cup {NoImage}
    /\ m_framesH264 \in Seq(Image) /\ Len(m_framesH264) <= MAX_BUFFERS
    /\ snd \in {"top", "receive", "take", "send", "stopped"}
    /\ sndImage \in Image \cup {NoImage}
    /\ inside \in Seq(Image) /\ avail \in 0 .. Len(inside) /\ leaked \in 0 .. 1
    /\ m_avframes \in Seq(Image) /\ Len(m_avframes) <= MAX_QUEUE_SUZE
    /\ dec \in {"top", "check", "push", "stopped"}
    /\ decImage \in Image \cup {NoImage}
    /\ m_frames \in Seq(Frame)
    /\ m_mutex \in {"free", "ws"}
    /\ shown \in Seq(Image)
    /\ m_done \in BOOLEAN /\ quitting \in BOOLEAN
    /\ main \in {"running", "waiting", "done"} /\ overreadMatches \in BOOLEAN

(* Both producers compare m_frames.size() before they lock: together they overrun  *)
(* the larger limit by one frame and no more, and the JPEG frames never overrun    *)
(* theirs.                                                                         *)
FramesBound ==
    /\ Len(m_frames) <= MAX_BUFFERS + 1
    /\ Cardinality({k \in DOMAIN m_frames : m_frames[k].image.kind = "jpeg"}) <= MAX_FRAMES

(* What ws reads outside the lock still holds when it is used: back().start() finds *)
(* a frame, and never one that has a thread already (std::terminate would answer    *)
(* that), although dec may push after the unlock; and the front that onTimeout pops *)
(* is the one it saw done.                                                          *)
UnlockedReadsHold ==
    /\ ws = "start" => m_frames # <<>> /\ m_frames[Len(m_frames)].thr = "none"
    /\ ws \in {"lock", "pop"} => FrontDone

(* No interleaving of the unlocked queues shows an image twice or one kind of them  *)
(* out of order: along the pipeline, from the images shown to those that came last, *)
(* the images of a kind have rising numbers, and an image is in one place only.    *)
ImagesOf(frames) == [k \in DOMAIN frames |-> frames[k].image]
One(step, image) == IF step THEN <<image>> ELSE <<>>
Pipeline ==
    shown \o One(ws = "emit", wsImage) \o ImagesOf(m_frames) \o One(ws = "push", wsImage)
        \o One(dec \in {"check", "push"}, decImage) \o m_avframes \o inside
        \o One(snd = "send", sndImage) \o m_framesH264
PipelineInOrder ==
    \A j, k \in DOMAIN Pipeline :
        j < k /\ Pipeline[j].kind = Pipeline[k].kind => Pipeline[j].id < Pipeline[k].id

(* A JPEG frame is left without a thread, and the queue stops at it for good, only  *)
(* when dec pushed between the unlock and back(): the thread went to a frame of dec *)
(* behind it.                                                                       *)
Unstarted(k) ==
    ~m_frames[k].done /\ m_frames[k].thr = "none" /\ ~(ws = "start" /\ m_frames[k].image = wsImage)
StuckOnlyWhenOvertaken ==
    \A k \in DOMAIN m_frames :
        Unstarted(k) => \E j \in DOMAIN m_frames :
            j > k /\ m_frames[j].image.kind = "h264" /\ m_frames[j].thr # "none"

(* A queued frame is shown, unless the WebSock is destroyed or the queue has a frame *)
(* that StartBack missed (StuckOnlyWhenOvertaken says when that is).                *)
Queued(id) == \E k \in DOMAIN m_frames : m_frames[k].image.id = id
Shown(id) == \E k \in DOMAIN shown : shown[k].id = id
Stuck == \E k \in DOMAIN m_frames : Unstarted(k)
QueuedShown == \A id \in 1 .. MaxImages : Queued(id) ~> (Shown(id) \/ Stuck \/ m_done)

(* ~WebSock returns, whatever the threads are doing and whatever is queued.         *)
DestructorReturns == (main = "waiting") ~> (main = "done")

(* frame.h:568-569 says of av_frame_alloc that what it returns must be freed with   *)
(* av_frame_free.                                                                   *)
PicturesFreed == leaked = 0
=============================================================================
