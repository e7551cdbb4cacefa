---------------------------------- MODULE Viewer ----------------------------------
(***************************************************************************)
(* The local camera and the widget as MainWindow wires them                *)
(* (mainwindow.cpp): CameraStream's images and those of the stream are     *)
(* posted to VideoFrame, which lives in the thread that starts, stops and  *)
(* destroys the camera.  That thread is in one of these calls or serves an *)
(* event of the widget.                                                    *)
(***************************************************************************)
EXTENDS CameraStream, VideoFrame

CONSTANT MaxStream      \* bound: images of the stream

ASSUME ViewerAssumption == MaxStream \in Nat

VARIABLE stream         \* external: the images WebSock has sent to the widget

viewerVars == <<vars, frameVars, stream>>

(* Only the encoder looks at the size of test.jpg. *)
ViewerInit ==
    /\ Init /\ VideoFrameInit /\ stream = 0
    /\ m_InitAV \/ testSize = NoSize

(* WebSock's sendImage: a JPEG image arrives null. *)
sendImage(size) ==
    /\ ~m_InitAV /\ stream < MaxStream /\ stream' = stream + 1
    /\ toGui' = Append(toGui, image("yuv", stream + 1, size))
    /\ UNCHANGED <<world, guiVars, loopVars, deviceVars, posted, m_frames, encVars, frameVars>>

(* The widget gets an event when the thread is in no call. *)
Widget ==
    /\ ~m_InitAV /\ gui \in {"none", "idle"}
    /\ VideoFrameNext
    /\ UNCHANGED <<world, guiVars, loopVars, deviceVars, posted, m_frames, encVars, stream>>

ViewerNext ==
    \/ Next /\ UNCHANGED <<frameVars, stream>>
    \/ \E size \in Sizes \cup {NoSize} : sendImage(size)
    \/ Widget

Spec == ViewerInit /\ [][ViewerNext]_viewerVars /\ Fairness
=============================================================================
