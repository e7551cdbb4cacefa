----------------------------- MODULE MCVideoData -----------------------------
(***************************************************************************)
(* VideoData with payloads of 2 bytes (MAXSIZEPKT 3, HEADERS 1): images of *)
(* one to three datagrams, and of 5 bytes, whose last byte                 *)
(* get_udp_packets never sends.                                            *)
(***************************************************************************)
EXTENDS VideoData

AnyNetwork == [lossy : BOOLEAN, duplicating : BOOLEAN, reordering : BOOLEAN]
UncopiedNetworks == {w \in AnyNetwork : w.lossy /\ ~w.duplicating}

OneTwoTruncated == {2, 4, 5}
TwoThree == {4, 6}
=============================================================================
