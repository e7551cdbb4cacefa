----------------------------- MODULE MCUdpSender -----------------------------
(***************************************************************************)
(* UdpSender with the program's own numbers: frames around every boundary  *)
(* of the first multiples of the payload (59960) and of the datagram       *)
(* (60000), and around the 16-bit width of Payload_length.                 *)
(***************************************************************************)
EXTENDS UdpSender

Around(m, radius) == {x \in (m - radius) .. (m + radius) : x >= 0}

RealSizes ==
    {0} \cup UNION {Around(k * 59960, 1) \cup Around(k * 60000, 1) : k \in 0 .. 4}
        \cup Around(65536, 1) \cup {59980, 119950}
=============================================================================
