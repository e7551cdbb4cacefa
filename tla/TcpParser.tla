------------------------------ MODULE TcpParser ------------------------------
(***************************************************************************)
(* parsePacket of tcpsocket.cpp: packets out of a TCP stream that arrives  *)
(* in pieces of any size, from a peer that frames them as writeNextPacket  *)
(* does.  One action per case of the switch.  The history variables count  *)
(* positions in the bytes that have arrived: sent and delivered say where  *)
(* a packet begins.                                                        *)
(***************************************************************************)
EXTENDS Integers, Sequences, FiniteSets

CONSTANTS
    begin_packet,  \* the len_begin_packet bytes at the literal "VIDEO"
    end_packet,    \* the len_end_packet bytes at the literal "PACK"
    type_end,      \* 10
    MAX_SIZE,      \* 999999999 in case M_SIZE
    Documented,    \* the peer writes the format of common.h:83 instead
    Payloads,      \* what the peer sends, sequences of bytes
    MaxPackets,    \* bound: packets the peer writes
    MaxBreaks      \* bound: connections that break

Byte == 0 .. 255

(* No byte of the stream is above 127, so no four of them are a size that makes       *)
(* m_indexPos + m_dataSize wrap at 2^32.                                              *)
ASSUME ParserAssumption ==
    /\ begin_packet \in Seq(0 .. 127) /\ Len(begin_packet) >= 3
    /\ end_packet \in Seq(0 .. 127) /\ Len(end_packet) >= 2
    /\ type_end \in Nat /\ type_end > 1 /\ MAX_SIZE \in Nat /\ Documented \in BOOLEAN
    /\ \A data \in Payloads : data \in Seq(0 .. 127) /\ Len(data) < 128
    /\ MaxPackets \in Nat /\ MaxBreaks \in Nat

(* What M_BEGIN looks for is nowhere in an end marker and the begin marker behind it, *)
(* but where that begins.                                                             *)
ASSUME MarkerAssumption ==
    \A k \in 1 .. Len(end_packet) :
        \E j \in 1 .. 3 : (end_packet \o begin_packet)[k + j - 1] # begin_packet[j]

VARIABLES
    wire,        \* bytes the peer has written that have not arrived
    written,     \* packets written so far
    parsing,     \* parsePacket is running
    m_buffer, m_indexPos, m_state, m_type, m_dataSize, m_dataBegin,
    arrived,     \* history: how many bytes have arrived
    sent,        \* history: the packets of which a byte was not lost, [at, type, data]
    breaks,      \* history: where in the stream a connection broke
    splits,      \* history: packets cut by a read after their first or second byte
    delivered,   \* history: the packets given to the owner, [at, type, data]
    owed         \* history: how many the owner must have been given when the call returns

peerVars == <<wire, written, arrived, sent, breaks, splits>>
packetVars == <<m_type, m_dataSize, m_dataBegin>>
vars == <<peerVars, parsing, m_buffer, m_indexPos, m_state, packetVars, delivered, owed>>

type_video == 1
Uint(n) == <<n % 256, (n \div 256) % 256, (n \div 65536) % 256, (n \div 16777216) % 256>>

(* Mutant: the bytes in the other order. *)
getUint_BigEndian(at) ==
    m_buffer[at + 4] + 256 * (m_buffer[at + 3] + 256 * (m_buffer[at + 2] + 256 * m_buffer[at + 1]))

getUint(at) ==
    m_buffer[at + 1] + 256 * (m_buffer[at + 2] + 256 * (m_buffer[at + 3] + 256 * m_buffer[at + 4]))

(* "VIDEO"|t|size|data|"PACK": with the literals' own bytes, which end before a NUL, *)
(* or with as many bytes as writeNextPacket takes of them.                           *)
UpToNul(bytes) ==
    SubSeq(bytes, 1, Cardinality({n \in 1 .. Len(bytes) : \A k \in 1 .. n : bytes[k] # 0}))
Marker(bytes) == IF Documented THEN UpToNul(bytes) ELSE bytes
Header(data) == Marker(begin_packet) \o <<type_video>> \o Uint(Len(data))
Format(data) == Header(data) \o data \o Marker(end_packet)
PacketLen(data) == Len(Format(data))
Ends(p) == p.at + PacketLen(p.data)

(* The bytes before the data of a packet, and where the data of a delivered one began. *)
HeaderLen == Len(Marker(begin_packet)) + 5
First(d) == d.at - HeaderLen
Delivered(p) == \E i \in DOMAIN delivered : First(delivered[i]) = p.at

Init ==
    /\ wire = <<>> /\ written = 0 /\ parsing = FALSE
    /\ m_buffer = <<>> /\ m_indexPos = 0 /\ m_state = "BEGIN"
    /\ m_type = 0 /\ m_dataSize = 0 /\ m_dataBegin = 0
    /\ arrived = 0 /\ sent = {} /\ breaks = {} /\ splits = {}
    /\ delivered = <<>> /\ owed = 0

-----------------------------------------------------------------------------
(* The peer and the connection *)

writeNextPacket(data) ==
    /\ written < MaxPackets
    /\ written' = written + 1
    /\ wire' = wire \o Format(data)
    /\ sent' = sent \cup {[at |-> arrived + Len(wire), type |-> type_video, data |-> data]}
    /\ UNCHANGED <<arrived, breaks, splits, parsing, m_buffer, owed>>

(* Of m bytes a packet is there, with a byte behind it, that is still to be delivered. *)
Due(p, m) == Ends(p) < m /\ ~Delivered(p)

(* onReadyRead, with the first n bytes of what is under way. *)
onReadyRead(n) ==
    /\ ~parsing /\ n \in 1 .. Len(wire)
    /\ m_buffer' = m_buffer \o SubSeq(wire, 1, n)
    /\ wire' = SubSeq(wire, n + 1, Len(wire))
    /\ arrived' = arrived + n
    /\ splits' = splits \cup {p.at : p \in {q \in sent : arrived + n - q.at \in 1 .. 2}}
    /\ owed' = Len(delivered) + (IF \E p \in sent : Due(p, arrived') /\ p.at \notin splits' THEN 1 ELSE 0)
    /\ parsing' = TRUE
    /\ UNCHANGED <<written, sent, breaks>>

(* The connection breaks and onTimeout makes another: what is under way is lost, the *)
(* parser's state is kept.  A packet may be cut.                                     *)
Reconnect ==
    /\ ~parsing /\ Cardinality(breaks) < MaxBreaks
    /\ breaks' = breaks \cup {arrived}
    /\ wire' = <<>>
    /\ sent' = {p \in sent : p.at < arrived}
    /\ UNCHANGED <<written, arrived, splits, parsing, m_buffer, owed>>

-----------------------------------------------------------------------------
(* The cases of parsePacket's switch *)

size == Len(m_buffer)

(* Mutant: the data is not waited for. *)
Wanted_NotTheData ==
    CASE m_state = "BEGIN_CHECK" -> Len(begin_packet)
      [] m_state = "SIZE"        -> 4
      [] m_state = "END_CHECK"   -> Len(end_packet)
      [] OTHER                   -> 0

(* A case goes on when there is a byte behind those it asks for, and returns to wait *)
(* for it otherwise.                                                                 *)
Wanted ==
    CASE m_state = "BEGIN_CHECK" -> Len(begin_packet)
      [] m_state = "SIZE"        -> 4
      [] m_state = "DATA"        -> m_dataSize
      [] m_state = "END_CHECK"   -> Len(end_packet)
      [] OTHER                   -> 0

(* Mutant: what was parsed stays in the buffer. *)
Remove_Keeps(n) == m_buffer' = m_buffer

Remove(n) == m_buffer' = SubSeq(m_buffer, n + 1, size)

Case(state) == m_state = state /\ m_indexPos + Wanted < size
GoTo(state, at) ==
    m_state' = state /\ m_indexPos' = at /\ UNCHANGED <<parsing, m_buffer, delivered, owed>>
StartAgain ==
    Remove(m_indexPos) /\ m_state' = "BEGIN" /\ m_indexPos' = 0 /\ parsing' = FALSE
        /\ UNCHANGED <<packetVars, owed>>

(* strncmp of the bytes at m_indexPos: it compares no further than a NUL. *)
check_string(string) ==
    \A k \in DOMAIN string :
        (\A j \in 1 .. k - 1 : string[j] # 0) => m_buffer[m_indexPos + k] = string[k]

Begin ==
    /\ Case("BEGIN")
    /\ IF m_indexPos + 2 < size /\ \A k \in 1 .. 3 : m_buffer[m_indexPos + k] = begin_packet[k]
       THEN GoTo("BEGIN_CHECK", m_indexPos)
       ELSE GoTo("BEGIN", m_indexPos + 1)
    /\ UNCHANGED packetVars

BeginCheck ==
    /\ Case("BEGIN_CHECK")
    /\ IF check_string(begin_packet)
       THEN GoTo("TYPE", m_indexPos + Len(begin_packet))
       ELSE GoTo("ERROR", m_indexPos + 1)
    /\ UNCHANGED packetVars

Type ==
    /\ Case("TYPE")
    /\ m_type' = m_buffer[m_indexPos + 1]
    /\ IF m_type' = 0 \/ m_type' >= type_end
       THEN GoTo("ERROR", m_indexPos)
       ELSE GoTo("SIZE", m_indexPos + 1)
    /\ UNCHANGED <<m_dataSize, m_dataBegin>>

(* The limit is compared with the size of the buffer. *)
Size ==
    /\ Case("SIZE")
    /\ m_dataSize' = getUint(m_indexPos)
    /\ IF size > MAX_SIZE
       THEN GoTo("ERROR", m_indexPos) /\ UNCHANGED m_dataBegin
       ELSE GoTo("DATA", m_indexPos + 4) /\ m_dataBegin' = m_indexPos'
    /\ UNCHANGED m_type

Data == Case("DATA") /\ GoTo("END_CHECK", m_indexPos + m_dataSize) /\ UNCHANGED packetVars

(* Mutant: the copy begins a byte early. *)
Packet_Early ==
    [at   |-> arrived - size + m_dataBegin,
     type |-> m_type,
     data |-> SubSeq(m_buffer, m_dataBegin, m_dataBegin + m_dataSize - 1)]

(* What the owner is sent, and where in the stream it was. *)
Packet ==
    [at   |-> arrived - size + m_dataBegin,
     type |-> m_type,
     data |-> SubSeq(m_buffer, m_dataBegin + 1, m_dataBegin + m_dataSize)]

(* Mutant: the data is not looked at again when the end marker is missing. *)
LookAgainAt_TheEnd == m_indexPos

LookAgainAt == m_dataBegin

(* The end marker stays in the buffer, and the call returns after one packet. *)
EndCheck ==
    /\ Case("END_CHECK")
    /\ IF check_string(end_packet)
       THEN delivered' = Append(delivered, Packet) /\ StartAgain
       ELSE GoTo("ERROR", LookAgainAt) /\ UNCHANGED packetVars

Error == Case("ERROR") /\ StartAgain /\ UNCHANGED delivered

WaitForBytes ==
    /\ m_indexPos + Wanted >= size
    /\ parsing' = FALSE
    /\ UNCHANGED <<m_buffer, m_indexPos, m_state, packetVars, delivered, owed>>

parsePacket ==
    /\ parsing
    /\ Begin \/ BeginCheck \/ Type \/ Size \/ Data \/ EndCheck \/ Error \/ WaitForBytes
    /\ UNCHANGED peerVars

Peer ==
    /\ \/ \E data \in Payloads : writeNextPacket(data)
       \/ \E n \in 1 .. Len(wire) : onReadyRead(n)
       \/ Reconnect
    /\ UNCHANGED <<m_indexPos, m_state, packetVars, delivered>>

Next == Peer \/ parsePacket

Spec == Init /\ [][Next]_vars

-----------------------------------------------------------------------------
(* The types, and that the parser never stands behind the bytes it has: it waits for *)
(* the data before it steps over it.                                                 *)
TypeOK ==
    /\ wire \in Seq(Byte) /\ written \in 0 .. MaxPackets /\ parsing \in BOOLEAN
    /\ m_buffer \in Seq(Byte) /\ m_indexPos \in 0 .. size
    /\ m_state \in {"BEGIN", "BEGIN_CHECK", "TYPE", "SIZE", "DATA", "END_CHECK", "ERROR"}
    /\ m_type \in Byte /\ m_dataSize \in Nat /\ m_dataBegin \in Nat
    /\ arrived \in Nat /\ size <= arrived
    /\ breaks \subseteq 0 .. arrived /\ splits \subseteq 0 .. arrived
    /\ delivered \in Seq([at : Nat, type : 1 .. type_end - 1, data : Seq(Byte)])
    /\ owed \in 0 .. Len(delivered) + 1

(* The bytes of a packet that was delivered end here; a connection broke in them; it is *)
(* not one that was sent.                                                               *)
Last(d) == First(d) + PacketLen(d.data)
Straddles(d) == \E b \in breaks : First(d) < b /\ b < Last(d)
Wrong(d) == [at |-> First(d), type |-> d.type, data |-> d.data] \notin sent

(* Where in a packet something looks like the beginning of one.  Its own beginning is 1. *)
Openings ==
    [data \in Payloads |->
        {k \in 1 .. PacketLen(data) - 2 :
            \A j \in 1 .. 3 : Format(data)[k + j - 1] = begin_packet[j]}]
Misleading(p) == Openings[p.data] # {1}

(* Place n is inside packet p, or where a connection cut it; it is in a header or in what *)
(* looks like one.                                                                        *)
Has(p, n) == p.at < n /\ n < Ends(p) /\ ~\E b \in breaks : p.at < b /\ b < n
Cut(p) == \E b \in breaks : Has(p, b)
HeaderCut(b) ==
    \E p \in sent : Has(p, b) /\ \E k \in Openings[p.data] : b - p.at - k \in 0 .. HeaderLen - 2
Swallowed(p) ==
    \E i \in DOMAIN delivered :
        LET d == delivered[i] IN
            (Wrong(d) \/ Straddles(d)) /\ First(d) < p.at /\ p.at < Last(d)

(* The parser did not see the beginning of packet p, and may look for one inside it: a   *)
(* read ended behind its first or second byte and its data looks like a packet's; it was *)
(* cut; it is the first on a connection after one that broke in a header, and made that  *)
(* header complete; or a wrong packet took its beginning.                                *)
OutOfStep(p) ==
    \/ p.at \in splits /\ Misleading(p)
    \/ Cut(p)
    \/ p.at \in breaks /\ HeaderCut(p.at)
    \/ Swallowed(p)

(* What the owner gets is what the peer sent, byte for byte.  Otherwise a connection broke *)
(* in the bytes it was made of, or they begin inside a packet that the parser did not see  *)
(* begin: wherever else the reads cut the stream, what a payload looks like never matters. *)
Exact ==
    \A i \in DOMAIN delivered :
        LET d == delivered[i] IN
            Wrong(d) => Straddles(d) \/ \E p \in sent : Has(p, First(d)) /\ OutOfStep(p)

(* No byte is delivered twice, and the packets come in the order of the stream. *)
InOrder ==
    \A i, j \in DOMAIN delivered :
        i < j => delivered[i].at + Len(delivered[i].data) <= First(delivered[j])

(* Where the parser is in the stream: the bytes before it are never looked at again. *)
Position ==
    arrived - size + (IF m_state \in {"DATA", "END_CHECK"} THEN m_dataBegin ELSE m_indexPos)

(* The parser leaves a packet behind without delivering it only when a read ended after *)
(* its first or second byte, where M_BEGIN does not wait for the third, or when it did  *)
(* not see it begin for another of the reasons above.                                   *)
PassesOnlySplit ==
    \A p \in sent :
        ~Cut(p) /\ Ends(p) <= Position => Delivered(p) \/ p.at \in splits \/ OutOfStep(p)

(* One connection, and no read that let the parser into a payload it could mistake. *)
Steady == breaks = {} /\ \A p \in sent : p.at \in splits => ~Misleading(p)

(* A call that finds whole packets in the buffer, each with a byte behind it, delivers   *)
(* one before it returns.  It delivers no more than that one: the others wait for a call *)
(* each, so for as many more reads as there are of them.                                 *)
EachCallTakesOne == ~parsing /\ Steady => Len(delivered) >= owed
=============================================================================
