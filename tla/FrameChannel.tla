---------------------------- MODULE FrameChannel ----------------------------
(***************************************************************************)
(* What the ASF datagram protocol promises the application, whatever       *)
(* datagrams the network loses, repeats or reorders: the images it gets    *)
(* are images that were sent, each of them whole.  Nothing more: an image  *)
(* may be lost, and one that fits a datagram may arrive twice.             *)
(***************************************************************************)
EXTENDS Integers, Sequences

CONSTANT Sizes   \* the sizes an image may have

VARIABLES
    sizes,     \* sizes[s]: the size of the s-th image sent
    received   \* the images the application got, by their index in sizes

chan == <<sizes, received>>

Init == sizes = <<>> /\ received = <<>>

Send == \E n \in Sizes : sizes' = Append(sizes, n) /\ UNCHANGED received

Deliver ==
    /\ \E s \in DOMAIN sizes : received' = Append(received, s)
    /\ UNCHANGED sizes

Next == Send \/ Deliver

Spec == Init /\ [][Next]_chan
=============================================================================
