----------------------------- MODULE MCTcpParser -----------------------------
(***************************************************************************)
(* The markers of a 64-bit build, where both lengths are 8, and two        *)
(* payloads.  Swallowing can be told from packets only by counting bytes:  *)
(* an end marker and a header whose data would be the 21 bytes behind it.  *)
(* These are its own packet's end marker and the header of the packet that *)
(* follows, whose end marker, or whose data if that is Swallowing too,     *)
(* then passes for the end.  In the empty payload nothing is like a        *)
(* marker.                                                                 *)
(***************************************************************************)
EXTENDS TcpParser

BeginBytes == <<86, 73, 68, 69, 79, 0, 80, 65>>
EndBytes == <<80, 65, 67, 75, 0, 1, 27, 3>>

HeaderOf(length) == BeginBytes \o <<1, length, 0, 0, 0>>
Swallowing == EndBytes \o HeaderOf(21)

PacketLike == {<<>>, Swallowing}
=============================================================================
