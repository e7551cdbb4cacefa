------------------------------ MODULE UdpSender ------------------------------
(***************************************************************************)
(* VideoData::get_udp_packets (videodata.cpp:318-371), the sending half of *)
(* the protocol, called again and again with frames of any size: one       *)
(* action for the entry of a call, one per iteration of its loop, one for  *)
(* the return.                                                             *)
(***************************************************************************)
EXTENDS Fragmentation, Sequences

CONSTANTS
    FrameSizes,   \* the data.size() a caller may pass
    UIntMod,      \* 2^32: m_frame_number is an unsigned int and wraps
    MaxCalls      \* bound: calls made in a behaviour

ASSUME SenderAssumption ==
    FrameSizes \subseteq Nat /\ UIntMod \in Nat \ {0} /\ MaxCalls \in Nat

VARIABLES
    pc,               \* "idle" between calls, "loop" in one, "thrown" after the throw
    n,                \* data.size()
    i,                \* the loop's counter
    current,          \* bytes of data already given to a datagram
    output,           \* the datagrams built so far by this call
    m_frame_number,
    calls             \* bound: calls made so far

vars == <<pc, n, i, current, output, m_frame_number, calls>>

Init ==
    /\ pc = "idle" /\ n = 0 /\ i = 0 /\ current = 0
    /\ output = <<>> /\ m_frame_number = 0 /\ calls = 0

(* if(!data.size()) return output: no datagram, and no frame number used. *)
CallEmpty ==
    /\ pc = "idle" /\ calls < MaxCalls /\ 0 \in FrameSizes
    /\ n' = 0 /\ i' = 0 /\ current' = 0 /\ output' = <<>> /\ calls' = calls + 1
    /\ UNCHANGED <<pc, m_frame_number>>

(* Mutant: current survives from one call to the next. *)
Call_KeepsCurrent(size) ==
    /\ pc = "idle" /\ calls < MaxCalls
    /\ size # 0
    /\ n' = size /\ i' = 0 /\ output' = <<>>
    /\ pc' = "loop" /\ calls' = calls + 1
    /\ UNCHANGED <<current, m_frame_number>>

Call(size) ==
    /\ pc = "idle" /\ calls < MaxCalls
    /\ size # 0
    /\ n' = size /\ i' = 0 /\ current' = 0 /\ output' = <<>>
    /\ pc' = "loop" /\ calls' = calls + 1
    /\ UNCHANGED m_frame_number

(* qMin<int>(MAXSIZEPKT - stream.device()->pos() - sizeof(pheader), data.size() - current) *)
size_i == MinOf(Capacity, n - current)

(* Mutant: the loop bound of an upper limit that is included. *)
More_Included == i <= max_pkt(n)

More == i < max_pkt(n)

(* Mutant: Fragment_offset is filled in after current has moved on. *)
Built_OffsetAfter == [number |-> m_frame_number, offset |-> current + size_i,
                      frameSize |-> n, len |-> size_i % U16]

(* What both headers say of the datagram; Payload_length is 16 bits wide. *)
Built == [number |-> m_frame_number, offset |-> current, frameSize |-> n, len |-> size_i % U16]

(* One iteration.  "if(size < 0) throw" guards it: Tiles says that the throw is dead. *)
EmitDatagram ==
    /\ pc = "loop" /\ More
    /\ size_i >= 0
    /\ output' = Append(output, Built)
    /\ current' = current + size_i
    /\ i' = i + 1
    /\ UNCHANGED <<pc, n, m_frame_number, calls>>

(* Mutant: a frame number that does not wrap at the width of unsigned int. *)
NextNumber_NoWrap == m_frame_number + 1

NextNumber == (m_frame_number + 1) % UIntMod

Return ==
    /\ pc = "loop" /\ ~More
    /\ pc' = "idle"
    /\ m_frame_number' = NextNumber
    /\ UNCHANGED <<n, i, current, output, calls>>

Next ==
    \/ CallEmpty
    \/ \E size \in FrameSizes : Call(size)
    \/ EmitDatagram
    \/ Return

Spec == Init /\ [][Next]_vars

-----------------------------------------------------------------------------
Datagram == [number : Nat, offset : Nat, frameSize : Nat, len : Nat]

(* The types of the call's locals and of the counter. *)
TypeOK ==
    /\ pc \in {"idle", "loop"}
    /\ n \in Nat /\ i \in Nat /\ current \in Nat /\ calls \in 0 .. MaxCalls
    /\ m_frame_number \in 0 .. UIntMod - 1
    /\ output \in Seq(Datagram)

(* The exception of videodata.cpp:347-349 is dead code: no iteration of any  *)
(* call computes a negative size, although max_pkt and current are computed  *)
(* with two different divisors.                                              *)
NeverThrows == pc = "loop" /\ i < max_pkt(n) => size_i >= 0

(* The loop never throws, and its datagrams tile a prefix of the frame: the   *)
(* first starts at 0, each starts where the one before ended, none is empty   *)
(* (an empty one at offset 0 would make the receiver drop what it has), none  *)
(* is larger with its headers than MAXSIZEPKT, and all carry one frame number *)
(* and size.                                                                  *)
Tiles ==
    /\ NeverThrows
    /\ \A k \in 1 .. Len(output) :
           /\ output[k].offset = IF k = 1 THEN 0
                                 ELSE output[k - 1].offset + output[k - 1].len
           /\ output[k].len > 0
           /\ output[k].len + HEADERS <= MAXSIZEPKT
           /\ output[k].frameSize = n
           /\ pc = "loop" => output[k].number = m_frame_number

(* What a call returns is the closed form VideoData's network is built from. *)
ReturnsFragments ==
    pc = "idle" =>
        /\ {[offset |-> output[k].offset, len |-> output[k].len,
              frameSize |-> output[k].frameSize] : k \in 1 .. Len(output)}
             = Fragments(n)
        /\ Len(output) = IF n = 0 THEN 0 ELSE max_pkt(n)

(* The bytes of a frame no datagram carries are its tail, and they are never  *)
(* more than the headers of the call's datagrams displace.                    *)
TailLossBounded ==
    pc = "idle" => /\ current = Carried(n)
                   /\ n - current <= HEADERS * max_pkt(n)
                   /\ n <= Capacity => current = n

(* videodata.h:100-102 says of get_udp_packets that it splits the input data  *)
(* into packets for sending, so every byte of the data is in some packet.     *)
EveryByteSent == pc = "idle" => current = n
=============================================================================
