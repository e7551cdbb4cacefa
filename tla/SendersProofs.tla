---------------------------- MODULE SendersProofs ----------------------------
(***************************************************************************)
(* The two senders of the library: what get_udp_packets does for every     *)
(* size of a frame and every choice of the protocol's sizes, and the two   *)
(* properties of tcpserver for any ports, connections and bounds.          *)
(***************************************************************************)
EXTENDS UdpSender, TcpServer, FragmentationProofs

(* get_udp_packets *)

(* The fields the closed form Fragment describes, of the k-th datagram. *)
Shape(d) == [offset |-> d.offset, len |-> d.len, frameSize |-> d.frameSize]

(* Where the loop is: i datagrams have been built, they are the first i       *)
(* fragments, and current is where the next one starts.                       *)
LoopInv ==
    /\ n = 0 => pc = "idle" /\ i = 0
    /\ i <= max_pkt(n)
    /\ pc = "idle" /\ n # 0 => i = max_pkt(n)
    /\ current = Offset(n, i)
    /\ Len(output) = i
    /\ \A k \in 1 .. i : /\ Shape(output[k]) = Fragment(n, k - 1)
                         /\ (k - 1) * Capacity < n
                         /\ pc = "loop" => output[k].number = m_frame_number

IInv == TypeOK /\ LoopInv

LEMMA InitInv == Init => IInv
<1>. SUFFICES ASSUME Init PROVE IInv
  OBVIOUS
<1>1. TypeOK
  BY SenderAssumption DEF Init, TypeOK
<1>2. max_pkt(0) \in Nat /\ Offset(0, 0) = 0
  BY MaxPkt, SizesAreNat DEF Offset, MinOf
<1>3. LoopInv
  BY <1>2 DEF Init, LoopInv
<1>. QED
  BY <1>1, <1>3 DEF IInv

LEMMA NextInv == IInv /\ [Next]_vars => IInv'
<1>. SUFFICES ASSUME IInv, [Next]_vars PROVE IInv'
  OBVIOUS
<1>. USE DEF IInv
<1>0. Offset(0, 0) = 0 /\ \A x \in Nat : Offset(x, 0) = 0 /\ max_pkt(x) \in Nat /\ max_pkt(x) > 0
  BY MaxPkt, SizesAreNat DEF Offset, MinOf
<1>1. CASE CallEmpty
  <2>1. TypeOK'
    BY <1>1, SenderAssumption DEF CallEmpty, TypeOK
  <2>2. LoopInv'
    BY <1>1, <1>0 DEF CallEmpty, LoopInv
  <2>. QED
    BY <2>1, <2>2
<1>2. ASSUME NEW size \in FrameSizes, Call(size) PROVE IInv'
  <2>0. size \in Nat
    BY SenderAssumption
  <2>1. TypeOK'
    BY <1>2, <2>0, SenderAssumption DEF Call, TypeOK
  <2>2. LoopInv'
    BY <1>2, <2>0, <1>0 DEF Call, LoopInv
  <2>. QED
    BY <2>1, <2>2
<1>3. CASE EmitDatagram
  <2>. DEFINE d == [number |-> m_frame_number, offset |-> current,
                    frameSize |-> n, len |-> size_i % U16]
  <2>1. n \in Nat /\ i \in Nat /\ n # 0 /\ i < max_pkt(n) /\ current = Offset(n, i)
        /\ pc = "loop" /\ m_frame_number \in Nat
    BY <1>3, SenderAssumption DEF EmitDatagram, Built, More, TypeOK, LoopInv
  <2>2. i * Capacity < n
    BY <2>1, SomethingLeft
  <2>3. /\ current \in Nat /\ size_i \in Nat /\ size_i % U16 = size_i
        /\ current + size_i = Offset(n, i + 1)
    BY <2>1, <2>2, Iteration DEF size_i
  <2>4. d \in Datagram /\ Shape(d) = Fragment(n, i) /\ d.number = m_frame_number
    BY <2>1, <2>3 DEF Datagram, Shape, Fragment, size_i
  <2>5. output' = Append(output, d) /\ output \in Seq(Datagram) /\ Len(output) = i
    BY <1>3 DEF EmitDatagram, Built, More, TypeOK, LoopInv
  <2>6. /\ output' \in Seq(Datagram) /\ Len(output') = i + 1
        /\ \A k \in 1 .. i : output'[k] = output[k]
        /\ output'[i + 1] = d
    BY <2>1, <2>4, <2>5
  <2>7. TypeOK'
    BY <1>3, <2>1, <2>3, <2>6 DEF EmitDatagram, Built, More, TypeOK
  <2>8. \A k \in 1 .. i + 1 : /\ Shape(output'[k]) = Fragment(n, k - 1)
                              /\ (k - 1) * Capacity < n
                              /\ output'[k].number = m_frame_number
    <3>. TAKE k \in 1 .. i + 1
    <3>1. CASE k \in 1 .. i
      BY <3>1, <2>1, <2>6 DEF LoopInv
    <3>2. CASE k = i + 1
      <4>1. k - 1 = i
        BY <3>2, <2>1
      <4>. QED
        BY <3>2, <4>1, <2>2, <2>4, <2>6
    <3>. QED
      BY <3>1, <3>2, <2>1
  <2>9. LoopInv'
    <3>1. /\ n' = n /\ i' = i + 1 /\ pc' = pc /\ m_frame_number' = m_frame_number
          /\ current' = Offset(n, i + 1)
      BY <1>3, <2>3 DEF EmitDatagram, Built, More
    <3>2. i + 1 <= max_pkt(n)
      BY <2>1, <1>0
    <3>3. \A k \in 1 .. i' : /\ Shape(output[k])' = Fragment(n, k - 1)'
                            /\ ((k - 1) * Capacity < n)'
                            /\ (pc = "loop" => output[k].number = m_frame_number)'
      BY <2>8, <3>1 DEF Shape, Fragment, Offset
    <3>4. /\ max_pkt(n)' = max_pkt(n)
          /\ Offset(n, i)' = Offset(n, i + 1)
      BY <3>1 DEF max_pkt, Offset
    <3>. QED
      BY <2>1, <2>6, <3>1, <3>2, <3>3, <3>4 DEF LoopInv
  <2>. QED
    BY <2>7, <2>9
<1>4. CASE Return
  <2>1. TypeOK'
    BY <1>4, SenderAssumption DEF Return, NextNumber, More, TypeOK
  <2>2. i = max_pkt(n)
    BY <1>4, <1>0 DEF Return, NextNumber, More, TypeOK, LoopInv
  <2>3. LoopInv'
    BY <1>4, <2>2 DEF Return, NextNumber, More, LoopInv
  <2>. QED
    BY <2>1, <2>3
<1>5. CASE UNCHANGED vars
  BY <1>5 DEF vars, TypeOK, LoopInv, Shape
<1>. QED
  BY <1>1, <1>2, <1>3, <1>4, <1>5 DEF Next

(* The inductive invariant holds in every state, for every frame size.       *)
LEMMA SpecInv == Spec => []IInv
  BY InitInv, NextInv, PTL DEF Spec

(* Type correctness of the loop's locals, frame numbers included.            *)
THEOREM SenderTypeOK == Spec => []TypeOK
  BY SpecInv, PTL DEF IInv

(* No call, with a frame of any size, throws (videodata.cpp:347-349).        *)
LEMMA ThrowIsDead == IInv => NeverThrows
<1>. SUFFICES ASSUME IInv, pc = "loop", i < max_pkt(n) PROVE size_i >= 0
  BY DEF NeverThrows
<1>1. n \in Nat /\ i \in Nat /\ n # 0 /\ current = Offset(n, i)
  BY DEF IInv, TypeOK, LoopInv
<1>2. i * Capacity < n
  BY <1>1, SomethingLeft
<1>. QED
  BY <1>1, <1>2, Iteration DEF size_i

(* No call throws, and its datagrams tile a prefix of the frame, none empty   *)
(* and none larger than MAXSIZEPKT (videodata.cpp:329-366).                   *)
THEOREM SenderTiles == Spec => []Tiles
<1>1. ASSUME IInv PROVE Tiles
  <2>0. /\ n \in Nat /\ i \in Nat /\ Len(output) = i
        /\ \A k \in 1 .. i : /\ Shape(output[k]) = Fragment(n, k - 1)
                             /\ (k - 1) * Capacity < n
                             /\ pc = "loop" => output[k].number = m_frame_number
    BY <1>1 DEF IInv, TypeOK, LoopInv
  <2>1. \A k \in 1 .. i : /\ output[k].offset = Offset(n, k - 1)
                         /\ output[k].offset + output[k].len = Offset(n, k)
                         /\ output[k].len > 0 /\ output[k].len <= Capacity
                         /\ output[k].frameSize = n
    <3>. TAKE k \in 1 .. i
    <3>0. (k - 1) * Capacity < n
      BY <2>0
    <3>1. k - 1 \in Nat /\ (k - 1) + 1 = k
      BY <2>0
    <3>2. Shape(output[k]) = Fragment(n, k - 1)
      BY <2>0
    <3>3. /\ output[k].offset = Offset(n, k - 1)
          /\ output[k].len = MinOf(Capacity, n - Offset(n, k - 1)) % U16
          /\ output[k].frameSize = n
      BY <3>2 DEF Shape, Fragment
    <3>. QED
      BY <2>0, <3>0, <3>1, <3>3, Iteration
  <2>2. Offset(n, 0) = 0
    BY <2>0, SizesAreNat DEF Offset, MinOf
  <2>3. ASSUME NEW k \in 1 .. i
        PROVE  output[k].offset = IF k = 1 THEN 0 ELSE output[k - 1].offset + output[k - 1].len
    <3>1. CASE k = 1
      BY <3>1, <2>0, <2>1, <2>2
    <3>2. CASE k # 1
      <4>1. k - 1 \in 1 .. i
        BY <3>2, <2>0
      <4>. QED
        BY <4>1, <3>2, <2>1
    <3>. QED
      BY <3>1, <3>2
  <2>4. ASSUME NEW k \in 1 .. i PROVE output[k].len + HEADERS <= MAXSIZEPKT
    <3>1. output[k].len <= Capacity /\ output[k].len \in Nat
      <4>1. Shape(output[k]) = Fragment(n, k - 1)
        BY <2>0
      <4>2. output[k].len = MinOf(Capacity, n - Offset(n, k - 1)) % U16
        BY <4>1 DEF Shape, Fragment
      <4>3. (k - 1) * Capacity < n
        BY <2>0
      <4>4. k - 1 \in Nat
        BY <2>0
      <4>5. LET size == MinOf(Capacity, n - Offset(n, k - 1)) IN
               size \in Nat /\ size <= Capacity /\ size % U16 = size
        BY <2>0, <4>3, <4>4, Iteration, Zenon
      <4>. QED
        BY <4>2, <4>5
    <3>. QED
      BY <3>1, SizesAreNat
  <2>5. \A k \in 1 .. i : pc = "loop" => output[k].number = m_frame_number
    BY <2>0
  <2>6. Len(output) = i
    BY <2>0
  <2>7. NeverThrows
    BY <1>1, ThrowIsDead
  <2>. QED
    BY <2>1, <2>3, <2>4, <2>5, <2>6, <2>7, Zenon DEF Tiles
<1>. QED
  BY <1>1, SpecInv, PTL

(* What a call returns is the closed form Fragments, for every size: the     *)
(* loop of videodata.cpp:329-366 refines the definition VideoData sends by.  *)
THEOREM SenderReturnsFragments == Spec => []ReturnsFragments
<1>1. ASSUME IInv PROVE ReturnsFragments
  <2>. SUFFICES ASSUME pc = "idle"
               PROVE  /\ {Shape(output[k]) : k \in 1 .. Len(output)} = Fragments(n)
                      /\ Len(output) = IF n = 0 THEN 0 ELSE max_pkt(n)
    BY DEF ReturnsFragments, Shape
  <2>0. /\ n \in Nat /\ i \in Nat /\ Len(output) = i
        /\ \A k \in 1 .. i : Shape(output[k]) = Fragment(n, k - 1)
    BY <1>1 DEF IInv, TypeOK, LoopInv
  <2>1. CASE n = 0
    <3>1. i = 0
      BY <1>1, <2>1 DEF IInv, LoopInv
    <3>2. 1 .. Len(output) = {}
      BY <3>1, <2>0
    <3>. QED
      BY <2>0, <2>1, <3>1, <3>2 DEF Fragments
  <2>2. CASE n # 0
    <3>1. i = max_pkt(n)
      BY <1>1, <2>2 DEF IInv, LoopInv
    <3>2. Fragments(n) = {Fragment(n, j) : j \in 0 .. i - 1}
      BY <2>2, <3>1 DEF Fragments
    <3>3. \A k \in 1 .. i : k - 1 \in 0 .. i - 1
      BY <2>0
    <3>4. \A j \in 0 .. i - 1 : j + 1 \in 1 .. i /\ (j + 1) - 1 = j
      BY <2>0
    <3>5. {Shape(output[k]) : k \in 1 .. i} = {Fragment(n, j) : j \in 0 .. i - 1}
      <4>1. \A k \in 1 .. i : \E j \in 0 .. i - 1 : Shape(output[k]) = Fragment(n, j)
        BY <2>0, <3>3
      <4>2. \A j \in 0 .. i - 1 : \E k \in 1 .. i : Shape(output[k]) = Fragment(n, j)
        <5>. TAKE j \in 0 .. i - 1
        <5>1. j + 1 \in 1 .. i /\ (j + 1) - 1 = j
          BY <3>4
        <5>2. Shape(output[j + 1]) = Fragment(n, (j + 1) - 1)
          BY <5>1, <2>0
        <5>. QED
          BY <5>1, <5>2
      <4>. QED
        BY <4>1, <4>2
    <3>. QED
      BY <2>0, <2>2, <3>1, <3>2, <3>5
  <2>. QED
    BY <2>1, <2>2
<1>. QED
  BY <1>1, SpecInv, PTL

(* Bytes are lost only at the end of a frame, only when the headers displace *)
(* them, and a frame that fits one datagram is always sent whole.            *)
THEOREM SenderLossBounded == Spec => []TailLossBounded
<1>1. ASSUME IInv PROVE TailLossBounded
  <2>. SUFFICES ASSUME pc = "idle"
               PROVE  /\ current = Carried(n)
                      /\ n - current <= HEADERS * max_pkt(n)
                      /\ n <= Capacity => current = n
    BY DEF TailLossBounded
  <2>. DEFINE k == max_pkt(n)
  <2>1. n \in Nat /\ k \in Nat /\ k > 0
    BY <1>1, MaxPkt DEF IInv, TypeOK
  <2>2. current = Carried(n)
    <3>1. CASE n = 0
      <4>1. current = Offset(n, 0)
        BY <1>1, <3>1 DEF IInv, LoopInv
      <4>2. k * Capacity \in Nat /\ 0 * Capacity = 0
        BY <2>1, SizesAreNat, SMT
      <4>. QED
        BY <3>1, <4>1, <4>2 DEF Carried, Offset, MinOf
    <3>2. CASE n # 0
      BY <1>1, <3>2 DEF IInv, LoopInv, Carried, Offset
    <3>. QED
      BY <3>1, <3>2
  <2>3. n < k * MAXSIZEPKT
    BY <2>1, DivBounds, SizesAssumption DEF max_pkt
  <2>4. k * Capacity = k * MAXSIZEPKT - HEADERS * k
    BY <2>1, SizesAreNat, SMT
  <2>5. k * Capacity \in Nat /\ HEADERS * k \in Nat /\ k * MAXSIZEPKT \in Nat
        /\ Capacity <= k * Capacity
    BY <2>1, SizesAreNat, SMT
  <2>6. current = MinOf(k * Capacity, n)
    BY <2>2 DEF Carried
  <2>. HIDE DEF k
  <2>7. n - current <= HEADERS * k /\ (n <= Capacity => current = n)
    BY <2>1, <2>3, <2>4, <2>5, <2>6, SizesAreNat DEF MinOf
  <2>. QED
    BY <2>2, <2>7 DEF k
<1>. QED
  BY <1>1, SpecInv, PTL

-----------------------------------------------------------------------------
(* tcpserver *)

(* The inductive invariants.  An open connection is an entry because no onDisconnect is *)
(* posted for it ...                                                                    *)
EntriesInv ==
    /\ state \in [Connections -> {"none", "open", "closed"}]
    /\ posted \in [Connections -> 0 .. 2]
    /\ since \in [Connections -> Nat] /\ DOMAIN given = Connections /\ packets \in Nat
    /\ \A c \in Connections :
          /\ state[c] # "closed" => posted[c] = 0
          /\ state[c] = "none" => given[c] = {}
          /\ since[c] <= packets
    /\ SocketsAreConnections

(* ... and the port is right because whoever comes second finds the server closed, or   *)
(* listening on the port it would listen on itself.                                     *)
AtRest == caller \in {"idle", "destroy"}
PortInv ==
    /\ caller \in {"idle", "look", "listen", "destroy"}
    /\ loop \in {"new", "made", "listen", "exec", "stopped"}
    /\ listening \notin Taken /\ m_bindPort # NoPort
    /\ loop = "new" => listening = NoPort
    /\ loop \in {"new", "made", "listen"} => ~missed
    /\ caller # "look" /\ ~missed => listening \in {NoPort, m_bindPort}
    /\ loop = "listen" => argument # NoPort
    /\ loop = "listen" /\ AtRest /\ listening = NoPort
          => argument = m_bindPort \/ m_bindPort \in Taken
    /\ loop = "exec" /\ AtRest /\ ~missed /\ listening = NoPort => m_bindPort \in Taken

-----------------------------------------------------------------------------
LEMMA EntriesInit == ServerInit => EntriesInv
  BY DEF ServerInit, EntriesInv, SocketsAreConnections

(* A step of one connection leaves the others as they are. *)
LEMMA ConnectionStep ==
    ASSUME EntriesInv, NEW c \in Connections, onNewConnection(c) \/ Ends(c) \/ onDisconnect(c)
    PROVE  EntriesInv'
<1>1. CASE onNewConnection(c)
  <2>1. /\ state[c] = "none" /\ state' = [state EXCEPT ![c] = "open"]
        /\ m_sockets' = m_sockets \cup {c} /\ since' = [since EXCEPT ![c] = packets]
        /\ posted' = posted /\ packets' = packets /\ given' = given
    BY <1>1 DEF onNewConnection
  <2>2. given[c] = {} /\ packets + 1 .. packets = {}
    BY <2>1 DEF EntriesInv
  <2>3. /\ state' \in [Connections -> {"none", "open", "closed"}]
        /\ since' \in [Connections -> Nat]
    BY <2>1 DEF EntriesInv
  <2>4. ASSUME NEW d \in Connections
        PROVE  /\ state'[d] # "closed" => posted'[d] = 0
               /\ state'[d] = "none" => given'[d] = {}
               /\ since'[d] <= packets'
               /\ state'[d] = "open" => d \in m_sockets' /\ given'[d] = since'[d] + 1 .. packets'
               /\ d \in m_sockets' => state'[d] = "open" \/ posted'[d] > 0
    <3>1. CASE d = c
      <4>1. posted[c] = 0 /\ packets \in Nat /\ DOMAIN since = Connections /\ DOMAIN state = Connections
        BY <2>1 DEF EntriesInv
      <4>2. state'[c] = "open" /\ since'[c] = packets
        BY <2>1, <4>1
      <4>3. given'[c] = since'[c] + 1 .. packets'
        BY <2>1, <2>2, <4>2, Zenon
      <4>4. posted'[c] = 0 /\ c \in m_sockets' /\ since'[c] <= packets'
        BY <2>1, <4>1, <4>2
      <4>. QED
        BY <3>1, <4>2, <4>3, <4>4
    <3>2. CASE d # c
      BY <2>1, <3>2 DEF EntriesInv, SocketsAreConnections
    <3>. QED
      BY <3>1, <3>2
  <2>. QED
    BY <2>1, <2>3, <2>4 DEF EntriesInv, SocketsAreConnections
<1>2. CASE Ends(c)
  BY <1>2 DEF EntriesInv, SocketsAreConnections, Ends
<1>3. CASE onDisconnect(c)
  BY <1>3 DEF EntriesInv, SocketsAreConnections, onDisconnect, Without
<1>. QED
  BY <1>1, <1>2, <1>3

(* A packet goes to every open connection. *)
LEMMA PacketStep ==
    ASSUME EntriesInv, sendPacket
    PROVE  EntriesInv'
<1>1. \A c \in Connections :
         state[c] = "open" => given'[c] = since[c] + 1 .. packets'
  <2>. TAKE c \in Connections
  <2>. HAVE state[c] = "open"
  <2>1. given'[c] = (since[c] + 1 .. packets) \cup {packets + 1}
    BY DEF EntriesInv, SocketsAreConnections, sendPacket
  <2>2. since[c] \in Nat /\ packets \in Nat /\ since[c] <= packets /\ packets' = packets + 1
    BY DEF EntriesInv, sendPacket
  <2>. QED
    BY <2>1, <2>2
<1>2. \A c \in Connections : state[c] = "none" => given'[c] = {}
  BY DEF EntriesInv, sendPacket
<1>3. packets \in Nat /\ packets' = packets + 1 /\ \A c \in Connections : since[c] \in Nat
  BY DEF EntriesInv, sendPacket
<1>4. UNCHANGED <<state, posted, m_sockets, since>> /\ DOMAIN given' = Connections
  BY DEF sendPacket
<1>. QED
  BY <1>1, <1>2, <1>3, <1>4 DEF EntriesInv, SocketsAreConnections

LEMMA EntriesNext == EntriesInv /\ [ServerNext]_serverVars => EntriesInv'
<1>. SUFFICES ASSUME EntriesInv, [ServerNext]_serverVars
              PROVE  EntriesInv'
  OBVIOUS
<1>1. CASE Porting \/ UNCHANGED serverVars
  BY <1>1 DEF Porting, serverVars, connectionVars, EntriesInv, SocketsAreConnections
<1>2. CASE Serving
  BY <1>2, ConnectionStep, PacketStep DEF Serving
<1>. QED
  BY <1>1, <1>2 DEF ServerNext

(* Whatever connections come, end and are served in whatever order, sendPacket reaches  *)
(* exactly the open ones, and an entry without a connection is about to be taken out.   *)
THEOREM EntriesFollow == ServerSpec => []SocketsAreConnections
<1>1. EntriesInv => SocketsAreConnections
  BY DEF EntriesInv
<1>. QED
  BY <1>1, EntriesInit, EntriesNext, PTL DEF ServerSpec

-----------------------------------------------------------------------------
LEMMA PortInit == ServerInit => PortInv
  BY TcpServerAssumption DEF ServerInit, PortInv, AtRest

(* The steps of setBindPort and of the destructor. *)
LEMMA CallerStep ==
    ASSUME PortInv, (\E port \in Ports : SetPort(port)) \/ CloseListening \/ onChangeBindPort \/ Destroy
    PROVE  PortInv'
<1>1. ASSUME NEW port \in Ports, SetPort(port)
      PROVE  PortInv'
  BY <1>1, TcpServerAssumption DEF PortInv, AtRest, SetPort
<1>2. CASE CloseListening
  BY <1>2, TcpServerAssumption DEF PortInv, AtRest, CloseListening
<1>3. CASE onChangeBindPort
  BY <1>3, TcpServerAssumption DEF PortInv, AtRest, onChangeBindPort, listen
<1>4. CASE Destroy
  BY <1>4 DEF PortInv, AtRest, Destroy
<1>. QED
  BY <1>1, <1>2, <1>3, <1>4

(* The steps of run. *)
LEMMA RunStep ==
    ASSUME PortInv, Make \/ ReadPort \/ Listen \/ Stop
    PROVE  PortInv'
<1>1. CASE Make
  BY <1>1 DEF PortInv, AtRest, Make
<1>2. CASE ReadPort
  BY <1>2 DEF PortInv, AtRest, ReadPort
<1>3. CASE Listen
  <2>1. ~missed' => argument = m_bindPort \/ listening' = listening \/ caller = "look"
    BY <1>3, Zenon DEF Listen
  <2>2. /\ loop = "listen" /\ loop' = "exec" /\ UNCHANGED <<m_bindPort, caller, argument>>
        /\ listening' = IF listening = NoPort /\ argument \notin Taken THEN argument ELSE listening
    BY <1>3, Zenon DEF Listen, listen
  <2>3. caller # "look" => listening \in {NoPort, m_bindPort}
    BY <2>2 DEF PortInv
  <2>4. ~missed' /\ caller # "look" => listening' \in {NoPort, m_bindPort}
    BY <2>1, <2>2, <2>3
  <2>5. AtRest /\ ~missed' /\ listening' = NoPort => m_bindPort \in Taken
    BY <2>1, <2>2 DEF PortInv, AtRest
  <2>. QED
    BY <2>2, <2>4, <2>5 DEF PortInv, AtRest
<1>4. CASE Stop
  BY <1>4, TcpServerAssumption DEF PortInv, AtRest, Stop
<1>. QED
  BY <1>1, <1>2, <1>3, <1>4

LEMMA PortNext == PortInv /\ [ServerNext]_serverVars => PortInv'
<1>. SUFFICES ASSUME PortInv, [ServerNext]_serverVars
              PROVE  PortInv'
  OBVIOUS
<1>1. CASE Serving \/ UNCHANGED serverVars
  BY <1>1 DEF Serving, serverVars, portVars, PortInv, AtRest
<1>2. CASE Porting
  BY <1>2, CallerStep, RunStep DEF Porting
<1>. QED
  BY <1>1, <1>2 DEF ServerNext

(* The server listens on the last port bound, however the calls of setBindPort fall      *)
(* between the steps of run, but for the one order that "missed" names.                  *)
THEOREM ListensOnLastPort == ServerSpec => []ListensOnLast
<1>1. PortInv => ListensOnLast
  BY DEF PortInv, AtRest, ListensOnLast
<1>. QED
  BY <1>1, PortInit, PortNext, PTL DEF ServerSpec
=============================================================================
