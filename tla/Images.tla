---------------------------------- MODULE Images ----------------------------------
(* What the camera and the stream share with the widget: the images on their way to it. *)
EXTENDS Integers, Sequences

CONSTANTS Sizes, NoSize     \* the sizes of images, and that of a null one

ASSUME SizesAssumption == NoSize \notin Sizes

VARIABLE toGui              \* the posted calls of VideoFrame's onReceiveImage

(* An image is of the stream ("yuv") or of the camera ("rgb"); n numbers those of a kind. *)
image(kind, n, size) == [kind |-> kind, n |-> n, size |-> size]
=============================================================================
