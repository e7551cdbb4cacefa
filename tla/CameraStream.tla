------------------------------ MODULE CameraStream ------------------------------
(***************************************************************************)
(* CameraStream (camerastream.cpp) with VideoSurface (videosurface.cpp):   *)
(* the pictures of a local camera, for the widget and an H.264 encoder.    *)
(*   gui   the caller of start, startPlay, stopPlay and the destructor;    *)
(*   loop  the QThread's event loop: run, onStartCamera, onSendImage,      *)
(*         onTimeout; the camera is driven from it;                        *)
(*   enc   doEncode, a std::thread that initContext starts.                *)
(* QCamera is external: start and stop take effect at once, its frames     *)
(* have one size, and one that cannot be mapped gives a null image, 0      *)
(* here.  The encoder is external: encodeFrame reads all its output, so    *)
(* avcodec_send_frame does not answer EAGAIN and its loop ends.            *)
(***************************************************************************)
EXTENDS Images

CONSTANTS
    cameraSize,     \* external: the size of the camera's frames
    m_max_frames,   \* 5
    MaxImages,      \* bound: frames the camera presents
    MaxCalls        \* bound: calls of startPlay and stopPlay

ASSUME CameraAssumption ==
    /\ cameraSize \in Sizes /\ m_max_frames \in Nat \ {0}
    /\ MaxImages \in Nat /\ MaxCalls \in Nat

VARIABLES
    testSize,               \* external: the size of test.jpg, or NoSize
    m_InitAV,
    gui, calls,             \* where the caller is; calls made
    m_isPlay, m_done, quitting,
    joined,                 \* the destructor has joined the encoder's thread
    loop,                   \* where the event loop is
    m_imageSize, m_isInitAV,
    m_fmt,                  \* the size the encoder is open for, or NoSize
    m_encoderThread,        \* it has been set
    late,                   \* history: that was after the destructor looked at it
    device, images,         \* external: the QCamera, and the frames it has presented
    posted,                 \* the slots posted to the loop
    m_frames,               \* images for the encoder
    enc, encImage,          \* where enc is, and its image
    encoded                 \* history: images given to the encoder

world == <<testSize, m_InitAV>>
guiVars == <<gui, calls, m_isPlay, m_done, quitting, joined>>
loopVars == <<loop, m_imageSize, m_isInitAV, m_fmt, m_encoderThread, late>>
deviceVars == <<device, images>>
encVars == <<enc, encImage, encoded>>
vars == <<world, guiVars, loopVars, deviceVars, posted, m_frames, encVars, toGui>>

(* m_InitAV is TRUE unless the caller says otherwise, as MainWindow does. *)
Init ==
    /\ testSize \in Sizes \cup {NoSize} /\ m_InitAV \in BOOLEAN
    /\ gui = "none" /\ calls = 0
    /\ m_isPlay = FALSE /\ m_done = FALSE /\ quitting = FALSE /\ joined = FALSE
    /\ loop = "new" /\ m_imageSize = NoSize /\ m_isInitAV = FALSE
    /\ m_fmt = NoSize /\ m_encoderThread = FALSE /\ late = FALSE
    /\ device = "none" /\ images = 0 /\ posted = <<>> /\ m_frames = <<>>
    /\ enc = "none" /\ encImage = 0 /\ encoded = <<>>
    /\ toGui = <<>>

-----------------------------------------------------------------------------
(* gui *)

(* The thread is started; startPlay follows. *)
Start ==
    /\ gui = "none" /\ gui' = "opened" /\ loop' = "run"
    /\ UNCHANGED <<calls, m_isPlay, m_done, quitting, joined, posted>>

(* startPlay, with TRUE, and stopPlay: the flag, and then the signal. *)
SetPlay(play) ==
    /\ \/ gui = "opened" /\ play /\ UNCHANGED calls
       \/ gui = "idle" /\ calls < MaxCalls /\ calls' = calls + 1
    /\ m_isPlay' = play /\ gui' = "emit"
    /\ UNCHANGED <<m_done, quitting, joined, loop, posted>>

(* Mutant: stopPlay leaves it to the next image to stop the camera. *)
EmitStartCamera_StartOnly ==
    /\ gui = "emit" /\ gui' = "idle"
    /\ posted' = IF m_isPlay THEN Append(posted, <<"start">>) ELSE posted
    /\ UNCHANGED <<calls, m_isPlay, m_done, quitting, joined, loop>>

EmitStartCamera ==
    /\ gui = "emit" /\ gui' = "idle"
    /\ posted' = Append(posted, IF m_isPlay THEN <<"start">> ELSE <<"stop">>)
    /\ UNCHANGED <<calls, m_isPlay, m_done, quitting, joined, loop>>

(* Mutant: m_done is not set. *)
Destroy_NotDone ==
    /\ gui = "idle" /\ gui' = "look"
    /\ UNCHANGED <<calls, m_isPlay, m_done, quitting, joined, loop, posted>>

(* ~CameraStream, in four steps: m_done is set; the encoder's thread is looked at, *)
(* and joined if there is one; quit(); wait().                                      *)
Destroy ==
    /\ gui = "idle" /\ gui' = "look" /\ m_done' = TRUE
    /\ UNCHANGED <<calls, m_isPlay, quitting, joined, loop, posted>>

(* Mutant: the thread is left alone. *)
JoinEncoder_Never ==
    /\ gui = "look" /\ gui' = "quit"
    /\ UNCHANGED <<calls, m_isPlay, m_done, quitting, joined, loop, posted>>

JoinEncoder ==
    /\ gui \in {"look", "join"} /\ gui' = IF gui = "look" /\ m_encoderThread THEN "join" ELSE "quit"
    /\ gui = "join" => enc = "finished"
    /\ joined' = (gui = "join")
    /\ UNCHANGED <<calls, m_isPlay, m_done, quitting, loop, posted>>

Quit ==
    /\ gui = "quit" /\ gui' = "wait" /\ quitting' = TRUE
    /\ UNCHANGED <<calls, m_isPlay, m_done, joined, loop, posted>>

(* A std::thread that is destroyed without a join ends the program. *)
Destroyed ==
    /\ gui = "wait" /\ loop = "stopped"
    /\ gui' = IF m_encoderThread /\ ~joined THEN "terminated" ELSE "destroyed"
    /\ UNCHANGED <<calls, m_isPlay, m_done, quitting, joined, loop, posted>>

Destructor == JoinEncoder \/ Quit \/ Destroyed
GuiStep ==
    /\ Start \/ (\E play \in BOOLEAN : SetPlay(play)) \/ EmitStartCamera \/ Destroy \/ Destructor
    /\ UNCHANGED <<m_imageSize, m_isInitAV, m_fmt, m_encoderThread, late, deviceVars, m_frames,
                   encVars, toGui>>

-----------------------------------------------------------------------------
(* The camera: VideoSurface::present *)

Present(n) ==
    /\ device = "active" /\ images < MaxImages /\ n \in {0, images + 1}
    /\ images' = images + 1
    /\ posted' = Append(posted, <<"image", n>>)
    /\ UNCHANGED <<guiVars, loopVars, device, m_frames, encVars, toGui>>

-----------------------------------------------------------------------------
(* loop *)

(* run() up to exec(): there may be no test.jpg and no camera. *)
Run ==
    /\ loop = "run" /\ loop' = "exec"
    /\ m_imageSize' = testSize
    /\ device' \in {"none", "active"}
    /\ UNCHANGED <<m_isInitAV, m_fmt, m_encoderThread, late, posted, m_frames, toGui>>

Posted(slot) == posted # <<>> /\ Head(posted)[1] = slot

onStartCamera ==
    /\ loop = "exec" /\ (Posted("start") \/ Posted("stop"))
    /\ posted' = Tail(posted)
    /\ device' = IF device = "none" THEN "none" ELSE IF Posted("start") THEN "active" ELSE "stopped"
    /\ UNCHANGED <<loopVars, m_frames, toGui>>

(* onSendImage: the flag is read, and startPlay may come before the camera is stopped. *)
TestPlay ==
    /\ loop = "exec" /\ Posted("image")
    /\ loop' = IF m_isPlay THEN "image" ELSE "stop"
    /\ UNCHANGED <<m_imageSize, m_isInitAV, m_fmt, m_encoderThread, late, device, posted, m_frames,
                   toGui>>

StopCamera ==
    /\ loop = "stop" /\ loop' = "image" /\ device' = "stopped"
    /\ UNCHANGED <<m_imageSize, m_isInitAV, m_fmt, m_encoderThread, late, posted, m_frames, toGui>>

(* Mutant: one image more than m_max_frames. *)
Room_OneMore == Len(m_frames) <= m_max_frames

Room == Len(m_frames) < m_max_frames

TakeImage ==
    /\ loop = "image" /\ loop' = "exec"
    /\ posted' = Tail(posted)
    /\ LET n == Head(posted)[2] IN
         IF n = 0 THEN UNCHANGED <<m_imageSize, m_frames, toGui>>
         ELSE /\ m_imageSize' = cameraSize
              /\ m_frames' = IF m_fmt # NoSize /\ m_InitAV /\ Room
                             THEN Append(m_frames, n) ELSE m_frames
              /\ toGui' = Append(toGui, image("rgb", n, cameraSize))
    /\ UNCHANGED <<m_isInitAV, m_fmt, m_encoderThread, late, device>>

(* onTimeout and initContext: no encoder may be found or opened, and that is final; *)
(* otherwise the thread runs before m_encoderThread holds it.                       *)
InitContext ==
    /\ loop = "exec" /\ ~m_isInitAV /\ m_InitAV /\ m_imageSize # NoSize
    /\ m_isInitAV' = TRUE
    /\ \/ UNCHANGED <<loop, m_fmt, enc>>
       \/ loop' = "store" /\ m_fmt' = m_imageSize /\ enc' = "top"
    /\ UNCHANGED <<m_imageSize, m_encoderThread, late, device, posted, m_frames, toGui>>

StoreThread ==
    /\ loop = "store" /\ loop' = "exec"
    /\ m_encoderThread' = TRUE /\ late' = (gui \in {"quit", "wait"})
    /\ UNCHANGED <<m_imageSize, m_isInitAV, m_fmt, device, posted, m_frames, toGui>>

(* exec() returns between two events, and run() deletes the camera and the encoder. *)
LeaveLoop ==
    /\ loop = "exec" /\ quitting /\ loop' = "stopped"
    /\ device' = "none" /\ m_fmt' = NoSize /\ posted' = <<>>
    /\ UNCHANGED <<m_imageSize, m_isInitAV, m_encoderThread, late, m_frames, toGui>>

Handler ==
    /\ Run \/ onStartCamera \/ TestPlay \/ StopCamera \/ TakeImage \/ StoreThread
    /\ UNCHANGED <<guiVars, images, encVars>>
Timer == InitContext /\ UNCHANGED <<guiVars, images, encImage, encoded>>
Leave == LeaveLoop /\ UNCHANGED <<guiVars, images, encVars>>

-----------------------------------------------------------------------------
(* enc: doEncode tests the flag, then the queue; encodeFrame uses m_fmt later. *)

EncTop == enc = "top" /\ enc' = (IF m_done THEN "finished" ELSE "look")
          /\ UNCHANGED <<encImage, encoded, m_frames>>

EncLook ==
    /\ enc = "look"
    /\ IF m_frames = <<>> THEN enc' = "top" /\ UNCHANGED <<encImage, m_frames>>
       ELSE enc' = "encode" /\ encImage' = Head(m_frames) /\ m_frames' = Tail(m_frames)
    /\ UNCHANGED encoded

EncodeFrame ==
    /\ enc = "encode" /\ enc' = "top"
    /\ encoded' = Append(encoded, encImage) /\ encImage' = 0
    /\ UNCHANGED m_frames

doEncode ==
    /\ EncTop \/ EncLook \/ EncodeFrame
    /\ UNCHANGED <<guiVars, loopVars, deviceVars, posted, toGui>>

-----------------------------------------------------------------------------
Next ==
    /\ GuiStep \/ (\E n \in 0 .. MaxImages : Present(n)) \/ Handler \/ Timer \/ Leave \/ doEncode
    /\ UNCHANGED world

(* Every thread runs; exec() looks for quit() between any two events. *)
Fairness ==
    /\ WF_vars(Destructor /\ GuiStep /\ UNCHANGED world) /\ WF_vars(Handler /\ UNCHANGED world)
    /\ SF_vars(Leave /\ UNCHANGED world) /\ WF_vars(doEncode /\ UNCHANGED world)

-----------------------------------------------------------------------------
TypeOK ==
    /\ gui \in {"none", "opened", "emit", "idle", "look", "join", "quit", "wait", "destroyed",
                "terminated"}
    /\ calls \in 0 .. MaxCalls
    /\ {m_isPlay, m_done, quitting, joined, m_InitAV, m_isInitAV, m_encoderThread, late} \subseteq BOOLEAN
    /\ loop \in {"new", "run", "exec", "stop", "image", "store", "stopped"}
    /\ {m_imageSize, m_fmt, testSize} \subseteq Sizes \cup {NoSize}
    /\ device \in {"none", "active", "stopped"} /\ images \in 0 .. MaxImages
    /\ \A k \in DOMAIN posted : posted[k] \in {<<"start">>, <<"stop">>} \cup ({"image"} \X (0 .. MaxImages))
    /\ m_frames \in Seq(1 .. MaxImages) /\ Len(m_frames) <= m_max_frames
    /\ enc \in {"none", "top", "look", "encode", "finished"} /\ encImage \in 0 .. MaxImages
    /\ encoded \in Seq(1 .. MaxImages)

(* When the calls posted have been served, the camera runs exactly while m_isPlay    *)
(* says so, although images that were on the way stop it by themselves and startPlay *)
(* may come between their look at the flag and the stop.                             *)
CameraFollows ==
    gui = "idle" /\ loop \in {"exec", "image"} /\ device # "none"
        /\ (\A k \in DOMAIN posted : posted[k][1] = "image")
            => (m_isPlay <=> device = "active")

(* The encoder is given the images in the order they were taken, each once, while it  *)
(* is open and with the size it was opened for (a test.jpg of another size spoils     *)
(* that); its thread ends before it is closed, and is joined, unless m_encoderThread  *)
(* was set after the destructor had looked at it.                                     *)
EncoderServed ==
    /\ enc = "encode" => late \/ m_fmt = cameraSize \/ testSize \notin {cameraSize, NoSize}
    /\ \A j, k \in DOMAIN encoded : j < k => encoded[j] < encoded[k]
    /\ loop = "stopped" => late \/ enc \in {"none", "finished"}
    /\ gui = "terminated" => late

(* ~CameraStream returns, or ends the program, whatever is posted or being encoded. *)
DestructorReturns == (gui = "look") ~> (gui \in {"destroyed", "terminated"})
=============================================================================
