------------------------------ MODULE VideoData ------------------------------
(***************************************************************************)
(* VideoData (videodata.cpp): the reassembly of images from ASF datagrams  *)
(* in addData, with a peer that cuts its images as get_udp_packets does    *)
(* and a UDP network between them.                                         *)
(*                                                                         *)
(* A byte of an image is [src, pos]: the image it is of (the src-th one    *)
(* sent, which no header carries) and its position there.  A datagram is   *)
(* its payload header, with src.  addData loops over the packets of a      *)
(* datagram; the sender puts one in each, so a call is one of the actions  *)
(* of addData below.  m_creating, m_prevID, m_id and m_receive_frames are  *)
(* written and never read, and are left out.                               *)
(***************************************************************************)
EXTENDS Fragmentation, Sequences, FiniteSets

CONSTANTS
    FrameSizes,    \* the sizes of the images sent
    UIntMod,       \* 2^32, the width of Frame_number
    Networks,      \* what networks there may be between the sender and the receiver
    Restarting,    \* the peer program may be started again
    MaxFrames,     \* bound: images sent
    MaxExtra       \* bound: datagrams received that are copies or not ASF

ASSUME VideoAssumption ==
    /\ FrameSizes \subseteq Nat \ {0}
    /\ UIntMod \in Nat \ {0}
    /\ Networks \subseteq [lossy : BOOLEAN, duplicating : BOOLEAN, reordering : BOOLEAN]
    /\ Restarting \in BOOLEAN
    /\ MaxFrames \in Nat /\ MaxExtra \in Nat

VARIABLES
    network,              \* the network of this behaviour
    sent,                 \* the images sent so far: [number, size]
    m_frame_number,       \* the sender's counter
    net,                  \* the datagrams on their way
    extra,                \* bound: copies and foreign datagrams received
    m_currentID,          \* the image being received; int, compared as uint
    m_FrameSize,
    m_currentFrameSize,
    m_packet,             \* the bytes collected of it
    m_frames,             \* the images collected and not yet taken
    m_lost_packet,
    taken                 \* history: the images the application took

netVars == <<network, sent, m_frame_number, net, extra>>
rcvVars == <<m_currentID, m_FrameSize, m_currentFrameSize, m_packet, m_frames,
             m_lost_packet>>
vars == <<netVars, rcvVars, taken>>

Lossy == network.lossy
Duplicating == network.duplicating
Reordering == network.reordering
Clean == ~Lossy /\ ~Duplicating /\ ~Reordering

(* m_currentID = -1 as the comparison with the quint32 Frame_number sees it. *)
NoId == UIntMod - 1

(* Bytes from .. from+count-1 of image s. *)
Bytes(s, from, count) == [k \in 1 .. count |-> [src |-> s, pos |-> from + k - 1]]
Whole(s) == Bytes(s, 0, sent[s].size)

Datagrams(s, number, size) ==
    {[src |-> s, number |-> number, offset |-> f.offset, len |-> f.len,
      frameSize |-> f.frameSize] : f \in Fragments(size)}

(* The constructor leaves m_currentID and m_currentFrameSize uninitialised; the *)
(* values stand for the ids a peer uses, for -1, and for a size in or out of    *)
(* the range of the frames.                                                     *)
Garbage == 0 .. 1
Init ==
    /\ network \in Networks
    /\ sent = <<>> /\ m_frame_number = 0
    /\ net = {} /\ extra = 0
    /\ m_currentID \in Garbage \cup {NoId}
    /\ m_currentFrameSize \in Garbage
    /\ m_FrameSize = 0
    /\ m_packet = <<>> /\ m_frames = <<>>
    /\ m_lost_packet = 0 /\ taken = <<>>

-----------------------------------------------------------------------------
(* The sender and the network *)

(* get_udp_packets, and the datagrams it returned written to the socket. *)
SendFrame(size) ==
    /\ Len(sent) < MaxFrames
    /\ sent' = Append(sent, [number |-> m_frame_number, size |-> size])
    /\ net' = net \cup Datagrams(Len(sent) + 1, m_frame_number, size)
    /\ m_frame_number' = (m_frame_number + 1) % UIntMod
    /\ UNCHANGED <<network, extra, rcvVars, taken>>

(* The peer program is started again: its numbers start from 0 again. *)
SenderRestart ==
    /\ Restarting /\ m_frame_number # 0
    /\ m_frame_number' = 0
    /\ UNCHANGED <<network, sent, net, extra, rcvVars, taken>>

Lose(d) ==
    /\ Lossy
    /\ net' = net \ {d}
    /\ UNCHANGED <<network, sent, m_frame_number, extra, rcvVars, taken>>

Before(d, e) == d.src < e.src \/ (d.src = e.src /\ d.offset < e.offset)

(* The network hands over d: the oldest one unless it reorders; a network that  *)
(* duplicates may hand it over again later.                                     *)
Arrives(d) ==
    /\ Reordering \/ \A e \in net \ {d} : Before(d, e)
    /\ \/ net' = net \ {d} /\ UNCHANGED extra
       \/ Duplicating /\ extra < MaxExtra /\ extra' = extra + 1 /\ UNCHANGED net
    /\ UNCHANGED <<network, sent, m_frame_number, taken>>

-----------------------------------------------------------------------------
(* addData *)

(* A datagram of another program: the id, the flags or the stream is not ours. *)
RejectForeign ==
    /\ extra < MaxExtra /\ extra' = extra + 1
    /\ m_lost_packet' = m_lost_packet + 1
    /\ UNCHANGED <<network, sent, m_frame_number, net, m_currentID, m_FrameSize,
                   m_currentFrameSize, m_packet, m_frames, taken>>

(* Mutant: the first fragment of an image does not change the number. *)
Stray_FirstToo(d) == m_currentID # d.number

(* Mutant: any fragment is taken for the image being received. *)
Stray_Never(d) == m_currentID # d.number /\ d.offset # 0 /\ FALSE

Stray(d) == m_currentID # d.number /\ d.offset # 0

RejectStray(d) ==
    /\ Arrives(d)
    /\ Stray(d)
    /\ m_lost_packet' = m_lost_packet + 1
    /\ UNCHANGED <<m_currentID, m_FrameSize, m_currentFrameSize, m_packet, m_frames>>

(* What the code has set when it compares the sizes: a datagram of offset 0 *)
(* starts its image, whatever was being collected.                          *)
Starts(d) == d.offset = 0
FrameSizeAt(d) == IF Starts(d) THEN d.frameSize ELSE m_FrameSize
CollectedAt(d) == IF Starts(d) THEN 0 ELSE m_currentFrameSize
PacketAt(d) == IF Starts(d) THEN <<>> ELSE m_packet

(* Another size under the number being received: the number stays, the *)
(* bytes collected stay.                                               *)
RejectSize(d) ==
    /\ Arrives(d)
    /\ ~Stray(d) /\ FrameSizeAt(d) # d.frameSize
    /\ m_currentID' = d.number
    /\ m_lost_packet' = m_lost_packet + 1
    /\ UNCHANGED <<m_FrameSize, m_currentFrameSize, m_packet, m_frames>>

Expected(d) == ~Stray(d) /\ FrameSizeAt(d) = d.frameSize

(* Mutant: -1 stored where the unsigned number is compared. *)
GivenUp_Signed == -1

(* m_currentID = -1, as it is compared with the next number. *)
GivenUp == NoId

(* m_packet.size() != Fragment_offset: the image is given up. *)
RejectGap(d) ==
    /\ Arrives(d)
    /\ Expected(d) /\ Len(PacketAt(d)) # d.offset
    /\ m_currentID' = GivenUp
    /\ m_lost_packet' = m_lost_packet + 1
    /\ UNCHANGED <<m_FrameSize, m_currentFrameSize, m_packet, m_frames>>

(* qMin<int>(m_FrameSize - m_currentFrameSize, size), the bytes taken of d. *)
sizeOf(d) == MinOf(d.frameSize - CollectedAt(d), d.len)
Appended(d) == PacketAt(d) \o Bytes(d.src, d.offset, sizeOf(d))

(* Mutant: the check of the offset that finds the lost fragment is missing. *)
Fits_AnyOffset(d) == Expected(d)

Fits(d) == Expected(d) /\ Len(PacketAt(d)) = d.offset

(* Mutant: the image is complete only past its size. *)
Completes_Past(d) == CollectedAt(d) + sizeOf(d) > d.frameSize

Completes(d) == CollectedAt(d) + sizeOf(d) >= d.frameSize

AppendFragment(d) ==
    /\ Arrives(d)
    /\ Fits(d) /\ ~Completes(d)
    /\ m_currentID' = d.number
    /\ m_FrameSize' = d.frameSize
    /\ m_packet' = Appended(d)
    /\ m_currentFrameSize' = CollectedAt(d) + sizeOf(d)
    /\ UNCHANGED <<m_frames, m_lost_packet>>

(* The last fragment: the image is queued and the buffer is cleared; the number *)
(* and m_currentFrameSize stay.                                                 *)
CompleteFrame(d) ==
    /\ Arrives(d)
    /\ Fits(d) /\ Completes(d)
    /\ m_currentID' = d.number
    /\ m_FrameSize' = d.frameSize
    /\ m_frames' = Append(m_frames, Appended(d))
    /\ m_packet' = <<>>
    /\ m_currentFrameSize' = CollectedAt(d) + sizeOf(d)
    /\ UNCHANGED m_lost_packet

addData(d) == \/ RejectStray(d) \/ RejectSize(d) \/ RejectGap(d)
              \/ AppendFragment(d) \/ CompleteFrame(d)

(* Mutant: the newest image is taken first. *)
getFrame_Newest == m_frames[Len(m_frames)]

getFrame == Head(m_frames)

(* Mutant: the image taken is not removed. *)
removeFrame_Keeps == m_frames

removeFrame == Tail(m_frames)

(* frameCount, getFrame and removeFrame as tryParseData calls them (websock.cpp:280-282). *)
TakeFrame ==
    /\ m_frames # <<>>
    /\ taken' = Append(taken, getFrame)
    /\ m_frames' = removeFrame
    /\ UNCHANGED <<netVars, m_currentID, m_FrameSize, m_currentFrameSize, m_packet,
                   m_lost_packet>>

Next ==
    \/ \E size \in FrameSizes : SendFrame(size)
    \/ SenderRestart
    \/ \E d \in net : Lose(d)
    \/ RejectForeign
    \/ \E d \in net : addData(d)
    \/ TakeFrame

Spec == Init /\ [][Next]_vars

(* The event loop of the receiving thread: a datagram the socket holds is read, *)
(* and a collected image is taken.                                              *)
LiveSpec == Spec /\ WF_vars(\E d \in net : addData(d)) /\ WF_vars(TakeFrame)
-----------------------------------------------------------------------------
Byte == [src : Nat, pos : Nat]
DatagramType == [src : Nat, number : Nat, offset : Nat, len : Nat, frameSize : Nat]

(* The types; the ids are compared as unsigned ints. *)
TypeOK ==
    /\ network \in Networks
    /\ sent \in Seq([number : 0 .. UIntMod - 1, size : Nat \ {0}])
    /\ m_frame_number \in 0 .. UIntMod - 1
    /\ net \subseteq DatagramType
    /\ extra \in 0 .. MaxExtra
    /\ m_currentID \in Nat
    /\ m_FrameSize \in Nat /\ m_currentFrameSize \in Nat
    /\ m_packet \in Seq(Byte)
    /\ m_frames \in Seq(Seq(Byte)) /\ taken \in Seq(Seq(Byte))
    /\ m_lost_packet \in Nat

(* The images collected so far, in the order they were completed. *)
assembled == taken \o m_frames

(* An image of the size and the bytes the sender sent, each at its place: what   *)
(* the offset and size checks of addData are for.  It holds whatever the network *)
(* does and however often the sender restarts or its counter wraps; the bytes    *)
(* may then be of several images of the same size.                               *)
PlacedIn(f, size) ==
    \A k \in 1 .. Len(f) :
        /\ f[k].pos = k - 1
        /\ f[k].src \in DOMAIN sent /\ sent[f[k].src].size = size
Placed ==
    \A j \in 1 .. Len(assembled) :
        Len(assembled[j]) > 0 /\ PlacedIn(assembled[j], Len(assembled[j]))

(* While the numbers of the images differ, no image is mixed: every image        *)
(* collected is an image that was sent, whole, although the network may lose,    *)
(* repeat and reorder its datagrams and the first ids are garbage.               *)
IsWhole(f) == \E s \in DOMAIN sent : f = Whole(s)
Intact ==
    ~Restarting /\ Len(sent) < UIntMod =>
        \A j \in 1 .. Len(assembled) : IsWhole(assembled[j])

(* A network that keeps the order delivers the images in the order they were     *)
(* sent, each at most once, whatever it loses.                                   *)
LastSource(f) == f[Len(f)].src
InOrder ==
    ~Reordering /\ ~Duplicating =>
        \A j, k \in DOMAIN assembled :
            j < k => LastSource(assembled[j]) < LastSource(assembled[k])

(* Without copies of datagrams no image is delivered twice, even when the        *)
(* network reorders them.                                                        *)
AtMostOnce ==
    ~Duplicating =>
        \A j, k \in DOMAIN assembled :
            j # k => LastSource(assembled[j]) # LastSource(assembled[k])

(* On a network without loss, copies and reordering addData rejects nothing but  *)
(* foreign datagrams, truncated images and uninitialised ids included.           *)
CleanNetworkRejectsNothing ==
    Clean => m_lost_packet = extra

(* ... and every image that get_udp_packets could send whole is taken by the     *)
(* application.                                                                  *)
SentWhole(s) == s \in DOMAIN sent /\ ~Truncated(sent[s].size)
TakenWhole(s) == s \in DOMAIN sent /\ \E j \in DOMAIN taken : taken[j] = Whole(s)
EveryWholeFrameTaken == \A s \in 1 .. MaxFrames : Clean /\ SentWhole(s) ~> TakenWhole(s)

(* What the application gets is what FrameChannel promises.  An image it took is *)
(* mapped to the index of the image sent that it equals, 0 when it equals none.  *)
IndexOf(f) == IF IsWhole(f) THEN f[1].src ELSE 0
Channel == INSTANCE FrameChannel WITH
    Sizes <- FrameSizes,
    sizes <- [s \in DOMAIN sent |-> sent[s].size],
    received <- [j \in DOMAIN taken |-> IndexOf(taken[j])]
ImplementsChannel == Channel!Spec

(* The inductive invariant of the proofs.  What is collected is placed, and of   *)
(* the size announced ...                                                        *)
NetGenuine ==
    \A d \in net : /\ d.src \in DOMAIN sent
                   /\ d \in Datagrams(d.src, sent[d.src].number, sent[d.src].size)
Collecting ==
    m_packet # <<>> => /\ m_currentFrameSize = Len(m_packet)
                       /\ Len(m_packet) < m_FrameSize
                       /\ PlacedIn(m_packet, m_FrameSize)
(* ... and while the numbers differ it is all of the image they name.            *)
Numbered ==
    /\ \A s \in DOMAIN sent : sent[s].number = s - 1
    /\ m_frame_number = Len(sent)
OfCurrent ==
    m_packet # <<>> =>
        /\ m_currentID = NoId \/ m_currentID < Len(sent)
        /\ \A s \in DOMAIN sent :
              m_currentID = sent[s].number => m_packet = Bytes(s, 0, Len(m_packet))
IInv == NetGenuine /\ Collecting
NumberInv == ~Restarting /\ Len(sent) < UIntMod => Numbered /\ OfCurrent
=============================================================================
