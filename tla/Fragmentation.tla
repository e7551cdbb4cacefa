---------------------------- MODULE Fragmentation ----------------------------
(***************************************************************************)
(* How VideoData::get_udp_packets (videodata.cpp) cuts a frame of n bytes  *)
(* into datagrams: the constants of its arithmetic, and the datagrams its  *)
(* loop emits written in closed form.  UdpSender is the loop itself, one   *)
(* iteration per step, and its runs and theorems show that it emits        *)
(* exactly these fragments.  VideoData sends them over a network.          *)
(***************************************************************************)
EXTENDS Integers

CONSTANTS
    MAXSIZEPKT,   \* #define MAXSIZEPKT: the largest datagram, 60000 bytes
    HEADERS,      \* 12 bytes of ASFDataHeader on the wire, plus
                  \* sizeof(ASFPayloadHeader) = 28 with its padding
    U16           \* 2^16, the width of ASFPayloadHeader::Payload_length

ASSUME SizesAssumption ==
    /\ MAXSIZEPKT \in Nat /\ HEADERS \in Nat /\ U16 \in Nat
    /\ 0 < HEADERS /\ HEADERS < MAXSIZEPKT
    /\ MAXSIZEPKT - HEADERS < U16

MinOf(a, b) == IF a <= b THEN a ELSE b

(* The most payload a datagram takes: MAXSIZEPKT - pos() - sizeof(pheader). *)
Capacity == MAXSIZEPKT - HEADERS

(* qRound(n / MAXSIZEPKT + 0.5): the division is of doubles and qRound adds *)
(* another half before it truncates, so an exact multiple is rounded up     *)
(* too.  It divides by the size of the datagram, not by Capacity.           *)
max_pkt(n) == n \div MAXSIZEPKT + 1

(* The i-th datagram of a frame of n bytes, i counted from 0. *)
Offset(n, i) == MinOf(i * Capacity, n)
Fragment(n, i) ==
    [offset |-> Offset(n, i),
     len    |-> MinOf(Capacity, n - Offset(n, i)) % U16,
     frameSize |-> n]

(* What the loop returns for a frame of n bytes; the empty frame is returned *)
(* early.                                                                   *)
Fragments(n) == IF n = 0 THEN {} ELSE {Fragment(n, i) : i \in 0 .. max_pkt(n) - 1}

(* The bytes of the frame that some datagram carries.  It is less than n when *)
(* the headers of max_pkt(n) datagrams do not fit beside the data.            *)
Carried(n) == MinOf(max_pkt(n) * Capacity, n)
Truncated(n) == Carried(n) < n
=============================================================================
