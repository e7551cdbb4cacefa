-------------------------------- MODULE VideoFrame --------------------------------
(***************************************************************************)
(* VideoFrame (videoframe.cpp), the OpenGL widget that shows the images of *)
(* the stream (YUV, three luminance textures) and those of the local       *)
(* camera (RGB, which uses the first of the three).  Everything runs in    *)
(* the GUI thread, one event at a time: queued images, a 1 ms timer, the   *)
(* sliders and the mouse, paint events.  An image of size NoSize is null.  *)
(* OpenGL is external: its context is current when the timer fires,        *)
(* glTexImage2D lays a texture out anew, and glTexSubImage2D fills a       *)
(* rectangle of the layout there is.                                       *)
(***************************************************************************)
EXTENDS Images

CONSTANT
    MaxSettings     \* bound: changes of the brightness, the scale or the position

ASSUME FrameAssumption == MaxSettings \in Nat

VARIABLES
    m_image, m_qimage,  \* the last YUV and the last RGB image
    m_isYUV,            \* the later of the two is YUV
    m_is_update, m_is_tex_update, m_is_tex_update_q,
    gl,                 \* m_prev_width and _height (size); the kind of image that laid out the
                        \* first texture; its image; the size and the image of the other two
    last,               \* history: the last image received
    overwritten,        \* history: an RGB image went over a later YUV one
    settings,           \* changes of the brightness, the scale or the position
    painting,           \* update() has been called and no paint event has come
    screen              \* what the last paint event drew

null(kind) == image(kind, 0, NoSize)

VideoFrameInit ==
    /\ m_image = null("yuv") /\ m_qimage = null("rgb") /\ m_isYUV = TRUE
    /\ m_is_update = FALSE /\ m_is_tex_update = FALSE /\ m_is_tex_update_q = FALSE
    /\ gl = [size |-> NoSize, layout |-> "none", image |-> null("yuv"),
             sizeUV |-> NoSize, imageUV |-> null("yuv")]
    /\ last = null("yuv") /\ overwritten = FALSE /\ settings = 0 /\ painting = FALSE
    /\ screen = <<>>

frameVars == <<m_image, m_qimage, m_isYUV, m_is_update, m_is_tex_update, m_is_tex_update_q, gl,
               last, overwritten, settings, painting, screen>>

-----------------------------------------------------------------------------
(* Mutant: an RGB image leaves the shader as it is. *)
onReceiveImage_KeepsShader ==
    /\ toGui # <<>>
    /\ IF Head(toGui).kind = "yuv"
       THEN m_isYUV' = TRUE /\ m_image' = Head(toGui) /\ m_is_tex_update' = TRUE
            /\ UNCHANGED <<m_qimage, m_is_tex_update_q>>
       ELSE m_qimage' = Head(toGui) /\ m_is_tex_update_q' = TRUE
            /\ UNCHANGED <<m_image, m_isYUV, m_is_tex_update>>
    /\ m_is_update' = TRUE
    /\ last' = Head(toGui) /\ toGui' = Tail(toGui)
    /\ UNCHANGED <<gl, overwritten, settings, painting, screen>>

onReceiveImage ==
    /\ toGui # <<>>
    /\ IF Head(toGui).kind = "yuv"
       THEN m_isYUV' = TRUE /\ m_image' = Head(toGui) /\ m_is_tex_update' = TRUE
            /\ UNCHANGED <<m_qimage, m_is_tex_update_q>>
       ELSE m_isYUV' = FALSE /\ m_qimage' = Head(toGui) /\ m_is_tex_update_q' = TRUE
            /\ UNCHANGED <<m_image, m_is_tex_update>>
    /\ m_is_update' = TRUE
    /\ last' = Head(toGui) /\ toGui' = Tail(toGui)
    /\ UNCHANGED <<gl, overwritten, settings, painting, screen>>

(* setRedBrightness and its like, setEV, setScale, mouseMoveEvent. *)
Set ==
    /\ settings < MaxSettings /\ settings' = settings + 1
    /\ m_is_update' = TRUE
    /\ UNCHANGED <<m_image, m_qimage, m_isYUV, m_is_tex_update, m_is_tex_update_q, gl,
                   last, overwritten, painting, screen, toGui>>

(* The two uploads.  Both compare with the one m_prev_width and m_prev_height, and the *)
(* RGB one leaves the textures of U and V as they are.                                 *)
generateTexture(g) ==
    IF g.size # m_image.size
    THEN [size |-> m_image.size, layout |-> "yuv", image |-> m_image,
          sizeUV |-> m_image.size, imageUV |-> m_image]
    ELSE [g EXCEPT !.image = m_image,
                   !.imageUV = IF g.sizeUV = m_image.size THEN m_image ELSE null("yuv")]

generateTextureQ(g) ==
    IF g.size # m_qimage.size
    THEN [g EXCEPT !.size = m_qimage.size, !.layout = "rgb", !.image = m_qimage]
    ELSE [g EXCEPT !.image = m_qimage]

onTimeout ==
    LET yuv == m_is_tex_update /\ m_image.size # NoSize
        rgb == m_is_tex_update_q /\ m_qimage.size # NoSize
        g == IF yuv THEN generateTexture(gl) ELSE gl
    IN  /\ m_is_update /\ m_is_update' = FALSE
        /\ gl' = IF rgb THEN generateTextureQ(g) ELSE g
        /\ m_is_tex_update' = (m_is_tex_update /\ ~yuv)
        /\ m_is_tex_update_q' = (m_is_tex_update_q /\ ~rgb)
        /\ overwritten' = IF yuv \/ rgb THEN yuv /\ rgb /\ m_isYUV ELSE overwritten
        /\ painting' = TRUE
        /\ UNCHANGED <<m_image, m_qimage, m_isYUV, last, settings, screen, toGui>>

(* drawImage chooses the shader and the aspect by m_isYUV; its early return is never taken, *)
(* for nothing is both YUV and not.  The paint events that no update() asked for are left   *)
(* out: they draw what the one asked for draws next, or has drawn.                          *)
Drawing(im, luma, chroma) ==
    [shader |-> im.kind, size |-> im.size, image |-> luma, settings |-> settings,
     imageUV |-> IF im.kind = "yuv" THEN chroma ELSE null("yuv")]

paintEvent ==
    /\ painting /\ painting' = FALSE
    /\ screen' = Drawing(IF m_isYUV THEN m_image ELSE m_qimage, gl.image, gl.imageUV)
    /\ UNCHANGED <<m_image, m_qimage, m_isYUV, m_is_update, m_is_tex_update, m_is_tex_update_q, gl,
                   last, overwritten, settings, toGui>>

VideoFrameNext == onReceiveImage \/ Set \/ onTimeout \/ paintEvent

-----------------------------------------------------------------------------
(* Once no image, timer or paint event is outstanding, the screen shows the last image  *)
(* received, all of its planes, with its aspect and the present settings; unless it is  *)
(* null, went into a texture laid out for the other kind, or was overwritten by an RGB  *)
(* image received before it (both textures are filled at one tick, the RGB one second). *)
DrawsLast ==
    toGui = <<>> /\ ~m_is_update /\ ~painting
        /\ last.size # NoSize /\ gl.layout = last.kind /\ ~overwritten
            => screen = Drawing(last, last, last)
=============================================================================
