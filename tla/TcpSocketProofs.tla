----------------------------- MODULE TcpSocketProofs -----------------------------
(***************************************************************************)
(* The invariants of TcpSocket, for every limit of the send queue, any     *)
(* number of packets, hosts, failures and calls of newHost: its types, the *)
(* account of what becomes of the packets, and its flag.                   *)
(***************************************************************************)
EXTENDS TcpSocket, SequenceTheorems, FiniteSetTheorems, TLAPS

-----------------------------------------------------------------------------
(* Rising sequences of numbers *)

Elements(s) == {s[k] : k \in DOMAIN s}
Rising(s) == \A j, k \in DOMAIN s : j < k => s[j] < s[k]

LEMMA ElementsIn == ASSUME NEW S, NEW s \in Seq(S) PROVE Elements(s) \subseteq S
  BY ElementOfSeq, LenProperties DEF Elements

LEMMA ElementsAppend ==
    ASSUME NEW S, NEW s \in Seq(S), NEW x \in S
    PROVE  Elements(Append(s, x)) = Elements(s) \cup {x}
<1>1. /\ Append(s, x) \in Seq(S) /\ Len(s) \in Nat /\ Len(Append(s, x)) = Len(s) + 1
      /\ DOMAIN s = 1 .. Len(s) /\ DOMAIN Append(s, x) = 1 .. Len(s) + 1
      /\ Append(s, x)[Len(s) + 1] = x /\ \A k \in 1 .. Len(s) : Append(s, x)[k] = s[k]
  BY AppendProperties, LenProperties
<1>2. \A k : k \in 1 .. Len(s) + 1 <=> k \in 1 .. Len(s) \/ k = Len(s) + 1
  BY <1>1
<1>. QED
  BY <1>1, <1>2 DEF Elements

LEMMA RisingAppend ==
    ASSUME NEW s \in Seq(Nat), NEW x \in Nat, Rising(s), \A e \in Elements(s) : e < x
    PROVE  Rising(Append(s, x))
<1>1. /\ Append(s, x) \in Seq(Nat) /\ Len(s) \in Nat /\ Len(Append(s, x)) = Len(s) + 1
      /\ DOMAIN s = 1 .. Len(s) /\ DOMAIN Append(s, x) = 1 .. Len(s) + 1
      /\ Append(s, x)[Len(s) + 1] = x /\ \A k \in 1 .. Len(s) : Append(s, x)[k] = s[k]
  BY AppendProperties, LenProperties
<1>. SUFFICES ASSUME NEW j \in 1 .. Len(s) + 1, NEW k \in 1 .. Len(s) + 1, j < k
              PROVE  Append(s, x)[j] < Append(s, x)[k]
  BY <1>1 DEF Rising
<1>2. j \in 1 .. Len(s) /\ (k \in 1 .. Len(s) \/ k = Len(s) + 1)
  BY <1>1
<1>3. s[j] \in Elements(s)
  BY <1>1, <1>2 DEF Elements
<1>. QED
  BY <1>1, <1>2, <1>3 DEF Rising

LEMMA RisingTail ==
    ASSUME NEW S \in SUBSET Nat, NEW s \in Seq(S), s # <<>>, Rising(s)
    PROVE  /\ Head(s) \in S /\ Tail(s) \in Seq(S) /\ Rising(Tail(s))
           /\ Len(s) \in Nat \ {0} /\ Len(Tail(s)) = Len(s) - 1
           /\ Elements(s) = {Head(s)} \cup Elements(Tail(s))
           /\ \A e \in Elements(Tail(s)) : Head(s) < e
<1>1. /\ Head(s) \in S /\ Tail(s) \in Seq(S)
      /\ Len(s) \in Nat \ {0} /\ Len(Tail(s)) = Len(s) - 1
      /\ DOMAIN s = 1 .. Len(s) /\ DOMAIN Tail(s) = 1 .. Len(s) - 1
      /\ \A k \in 1 .. Len(s) - 1 : Tail(s)[k] = s[k + 1]
  BY HeadTailProperties, LenProperties, EmptySeq
<1>2. Head(s) = s[1]
  OBVIOUS
<1>3. Rising(Tail(s))
  BY <1>1 DEF Rising
<1>4. \A e \in Elements(Tail(s)) : Head(s) < e
  BY <1>1, <1>2 DEF Rising, Elements
<1>5. ASSUME NEW e PROVE e \in Elements(s) <=> e = Head(s) \/ e \in Elements(Tail(s))
  <2>1. ASSUME NEW k \in 1 .. Len(s), e = s[k] PROVE e = Head(s) \/ e \in Elements(Tail(s))
    <3>1. CASE k = 1
      BY <1>2, <2>1, <3>1
    <3>2. CASE k # 1
      <4>1. k - 1 \in 1 .. Len(s) - 1 /\ Tail(s)[k - 1] = s[k]
        BY <1>1, <3>2
      <4>. QED
        BY <1>1, <2>1, <4>1 DEF Elements
    <3>. QED
      BY <3>1, <3>2
  <2>2. ASSUME NEW k \in 1 .. Len(s) - 1, e = Tail(s)[k] PROVE e \in Elements(s)
    <3>1. k + 1 \in 1 .. Len(s) /\ e = s[k + 1]
      BY <1>1, <2>2
    <3>. QED
      BY <1>1, <3>1 DEF Elements
  <2>3. Head(s) \in Elements(s)
    BY <1>1, <1>2 DEF Elements
  <2>. QED
    BY <1>1, <2>1, <2>2, <2>3 DEF Elements
<1>. QED
  BY <1>1, <1>3, <1>4, <1>5

-----------------------------------------------------------------------------
(* The connection *)

Slot == {"onConnectTo", "onConnect", "onDisconnect", "onError", "onNewHost"}
State == {"unconnected", "connecting", "connected"}

(* The part of TypeOK that is about the connection. *)
ConnectionType ==
    /\ state \in State /\ peer \in Hosts
    /\ calls \in Seq(Slot)
    /\ m_ConnectingHost \in Hosts
    /\ m_isConnected \in BOOLEAN /\ m_tryReconnect \in BOOLEAN /\ quitting \in BOOLEAN
    /\ newHosts \in 0 .. MaxNewHosts /\ failures \in 0 .. MaxFailures /\ crossed \in BOOLEAN

(* As long as no attempt has failed, no connection has broken and nobody has named another *)
(* host, there is one attempt and one connection, a packet is written only to it, and no   *)
(* packet is written to nothing.                                                           *)
FirstConnection ==
    /\ ~m_tryReconnect
    /\ thread \in {"front", "write"} => m_isConnected
    /\ \/ state = "unconnected" /\ calls = <<"onConnectTo">> /\ ~m_isConnected
       \/ state = "connecting" /\ calls = <<>> /\ ~m_isConnected
       \/ state = "connected" /\ calls = <<"onConnect">> /\ ~m_isConnected
       \/ state = "connected" /\ calls = <<>> /\ m_isConnected
Undisturbed ==
    failures = 0 /\ newHosts = 0 =>
        unsent = {} /\ (thread \notin {"stopped", "crashed"} => FirstConnection)

ConnectionInv == ConnectionType /\ Undisturbed

LEMMA TwoSlots == <<"onError", "onDisconnect">> = Append(<<"onError">>, "onDisconnect")
<1>1. <<"onError">> = Append(<<>>, "onError")
      /\ <<"onError", "onDisconnect">> = Append(Append(<<>>, "onError"), "onDisconnect")
  OBVIOUS
<1>. QED
  BY <1>1

LEMMA InitConnection == Init => ConnectionInv
<1>. SUFFICES ASSUME Init PROVE ConnectionInv
  OBVIOUS
<1>1. calls \in Seq(Slot)
  <2>1. <<"onConnectTo">> = Append(<<>>, "onConnectTo") /\ "onConnectTo" \in Slot
    BY DEF Slot
  <2>. QED
    BY <2>1, EmptySeq, AppendProperties DEF Init
<1>2. newHosts \in 0 .. MaxNewHosts /\ failures \in 0 .. MaxFailures
  BY TcpSocketAssumption DEF Init
<1>3. m_isConnected \in BOOLEAN /\ m_tryReconnect \in BOOLEAN /\ quitting \in BOOLEAN /\ crossed \in BOOLEAN
  BY DEF Init
<1>. QED
  BY <1>1, <1>2, <1>3 DEF Init, ConnectionInv, ConnectionType, State, Undisturbed, FirstConnection

LEMMA ConnectTypes ==
    ASSUME ConnectionType, NEW from \in State, NEW posted \in Seq(Slot), connectToHost(from, posted)
    PROVE  state' \in State /\ peer' \in Hosts /\ calls' \in Seq(Slot)
<1>1. "onError" \in Slot
  BY DEF Slot
<1>. QED
  BY <1>1, AppendProperties DEF ConnectionType, connectToHost, State

LEMMA NetworkConnection == ConnectionInv /\ Network => ConnectionInv'
<1>. SUFFICES ASSUME ConnectionInv, Network PROVE ConnectionInv'
  OBVIOUS
<1>0. /\ UNCHANGED <<peer, m_isConnected, m_tryReconnect, guiVars, crossed, thread, queueVars>>
      /\ calls \in Seq(Slot) /\ SocketRuns
  BY DEF Network, ConnectionInv, ConnectionType
<1>1. CASE Connects
  <2>1. calls' \in Seq(Slot) /\ state' \in State
    <3>1. "onConnect" \in Slot
      BY DEF Slot
    <3>. QED
      BY <1>0, <1>1, <3>1, AppendProperties DEF Connects, State
  <2>2. Undisturbed'
    <3>1. ASSUME failures = 0, newHosts = 0
          PROVE  unsent = {} /\ state' = "connected" /\ calls' = <<"onConnect">> /\ ~m_isConnected
                 /\ ~m_tryReconnect /\ thread = "loop" /\ failures' = failures
      <4>1. unsent = {} /\ thread \in {"loop", "write"} /\ FirstConnection
        BY <1>0, <3>1 DEF ConnectionInv, Undisturbed, SocketRuns
      <4>2. calls = <<>> /\ ~m_isConnected /\ ~m_tryReconnect /\ thread = "loop"
        BY <1>1, <4>1 DEF FirstConnection, Connects
      <4>3. Append(<<>>, "onConnect") = <<"onConnect">>
        OBVIOUS
      <4>. QED
        BY <1>1, <4>1, <4>2, <4>3 DEF Connects
    <3>. QED
      BY <1>0, <1>1, <3>1 DEF Undisturbed, FirstConnection, Connects, guiVars, queueVars, historyVars
  <2>. QED
    BY <1>0, <1>1, <2>1, <2>2 DEF Connects, ConnectionInv, ConnectionType, guiVars
<1>2. CASE Breaks
  <2>1. calls' \in Seq(Slot)
    <3>1. <<"onError", "onDisconnect">> \in Seq(Slot) /\ <<"onError">> \in Seq(Slot)
      <4>1. <<"onError">> = Append(<<>>, "onError")
            /\ <<"onError", "onDisconnect">> = Append(Append(<<>>, "onError"), "onDisconnect")
        OBVIOUS
      <4>2. "onError" \in Slot /\ "onDisconnect" \in Slot
        BY DEF Slot
      <4>. QED
        BY <4>1, <4>2, EmptySeq, AppendProperties
    <3>2. calls' = calls \o <<"onError", "onDisconnect">> \/ calls' = calls \o <<"onError">>
      BY <1>2 DEF Breaks
    <3>. QED
      BY <1>0, <3>1, <3>2, ConcatProperties
  <2>2. failures' \in 0 .. MaxFailures /\ failures' # 0 /\ state' \in State
    BY <1>2, TcpSocketAssumption DEF Breaks, ConnectionInv, ConnectionType, State
  <2>. QED
    BY <1>0, <2>1, <2>2 DEF ConnectionInv, ConnectionType, Undisturbed, guiVars
<1>. QED
  BY <1>1, <1>2 DEF Network

LEMMA SlotsConnection == ConnectionInv /\ Slots => ConnectionInv'
<1>. SUFFICES ASSUME ConnectionInv, Slots PROVE ConnectionInv'
  OBVIOUS
<1>0. /\ UNCHANGED <<guiVars, failures, thread, queueVars>> /\ thread = "loop"
      /\ calls \in Seq(Slot) /\ calls # <<>> /\ Tail(calls) \in Seq(Slot) /\ Head(calls) \in Slot
      /\ state \in State
  <2>1. calls # <<>> /\ calls \in Seq(Slot)
    BY DEF Slots, onConnectTo, onConnect, onDisconnect, onError, onNewHost, Serve, Posted,
           ConnectionInv, ConnectionType
  <2>. QED
    BY <2>1, HeadTailProperties DEF Slots, ConnectionInv, ConnectionType
<1>. USE DEF ConnectionInv
<1>1. CASE onConnectTo
  <2>1. UNCHANGED <<m_isConnected, m_tryReconnect, crossed>> /\ Head(calls) = "onConnectTo"
        /\ connectToHost(state, Tail(calls))
    BY <1>1 DEF onConnectTo, Posted
  <2>2. ConnectionType'
    BY <1>0, <2>1, ConnectTypes DEF ConnectionType, guiVars
  <2>3. ASSUME failures = 0, newHosts = 0
        PROVE  state' = "connecting" /\ calls' = <<>> /\ ~m_isConnected /\ ~m_tryReconnect
    BY <1>0, <2>1, <2>3 DEF Undisturbed, FirstConnection, connectToHost
  <2>. QED
    BY <1>0, <2>1, <2>2, <2>3 DEF Undisturbed, FirstConnection, guiVars, queueVars, historyVars
<1>2. CASE onConnect
  <2>1. UNCHANGED <<m_tryReconnect, crossed, state, peer>> /\ Head(calls) = "onConnect"
        /\ calls' = Tail(calls) /\ m_isConnected' = TRUE
    BY <1>2 DEF onConnect, Serve, Posted, socketVars
  <2>2. ConnectionType'
    BY <1>0, <2>1 DEF ConnectionType, guiVars
  <2>3. ASSUME failures = 0, newHosts = 0
        PROVE  state = "connected" /\ calls' = <<>> /\ ~m_tryReconnect
    BY <1>0, <2>1, <2>3 DEF Undisturbed, FirstConnection
  <2>. QED
    BY <1>0, <2>1, <2>2, <2>3 DEF Undisturbed, FirstConnection, guiVars, queueVars, historyVars
<1>3. CASE onDisconnect \/ onError
  <2>1. UNCHANGED <<crossed, state, peer>> /\ Head(calls) \in {"onDisconnect", "onError"}
        /\ calls' = Tail(calls) /\ m_isConnected' = FALSE /\ m_tryReconnect' \in {TRUE, m_tryReconnect}
    BY <1>3 DEF onDisconnect, onError, Serve, Posted, socketVars
  <2>2. ConnectionType'
    BY <1>0, <2>1 DEF ConnectionType, guiVars
  <2>3. ~(failures = 0 /\ newHosts = 0)
    BY <1>0, <2>1 DEF Undisturbed, FirstConnection
  <2>. QED
    BY <1>0, <2>2, <2>3 DEF Undisturbed, guiVars
<1>4. CASE onNewHost
  <2>. DEFINE aborts == m_isConnected /\ state # "unconnected"
              left == IF aborts THEN "unconnected" ELSE state
              after == Tail(calls) \o IF aborts /\ state = "connected" THEN <<"onDisconnect">> ELSE <<>>
  <2>1. UNCHANGED <<m_isConnected, m_tryReconnect>> /\ Head(calls) = "onNewHost"
        /\ connectToHost(left, after) /\ crossed' \in BOOLEAN
    BY <1>4 DEF onNewHost, Posted
  <2>2. after \in Seq(Slot) /\ left \in State
    <3>1. <<>> \in Seq(Slot) /\ <<"onDisconnect">> \in Seq(Slot)
      <4>1. <<"onDisconnect">> = Append(<<>>, "onDisconnect") /\ "onDisconnect" \in Slot
        BY DEF Slot
      <4>. QED
        BY <4>1, EmptySeq, AppendProperties
    <3>. QED
      BY <1>0, <3>1, ConcatProperties DEF State
  <2>. HIDE DEF after, left
  <2>3. ConnectionType'
    BY <1>0, <2>1, <2>2, ConnectTypes DEF ConnectionType, guiVars
  <2>4. ~(failures = 0 /\ newHosts = 0)
    BY <1>0, <2>1 DEF Undisturbed, FirstConnection
  <2>. QED
    BY <1>0, <2>3, <2>4 DEF Undisturbed, guiVars
<1>. QED
  BY <1>1, <1>2, <1>3, <1>4 DEF Slots

LEMMA TimeoutConnection ==
    ConnectionInv /\ (TimerFires \/ onTimeout \/ LeaveLoop) => ConnectionInv'
<1>. SUFFICES ASSUME ConnectionInv, TimerFires \/ onTimeout \/ LeaveLoop PROVE ConnectionInv'
  OBVIOUS
<1>. USE DEF ConnectionInv
<1>1. CASE TimerFires
  <2>1. UNCHANGED <<connectionVars, unsent>> /\ thread = "loop"
        /\ ((thread' = "front" /\ m_isConnected) \/ thread' = "retry")
    BY <1>1 DEF TimerFires, queueVars, historyVars
  <2>. QED
    BY <2>1 DEF ConnectionType, Undisturbed, FirstConnection, connectionVars, socketVars, guiVars
<1>front. CASE Front
  <2>1. UNCHANGED <<connectionVars, unsent>> /\ thread = "front" /\ thread' \in {"write", "crashed"}
    BY <1>front DEF Front, Crash, historyVars
  <2>. QED
    BY <2>1 DEF ConnectionType, Undisturbed, FirstConnection, connectionVars, socketVars, guiVars
<1>2. CASE Write
  <2>1. UNCHANGED connectionVars /\ thread = "write" /\ thread' = "pop" /\ state # "connecting"
        /\ (state = "connected" => unsent' = unsent)
    BY <1>2 DEF Write
  <2>. QED
    BY <2>1 DEF ConnectionType, Undisturbed, FirstConnection, connectionVars, socketVars, guiVars
<1>3. CASE PopFront
  <2>1. UNCHANGED <<connectionVars, unsent>> /\ thread = "pop" /\ thread' \in {"retry", "crashed"}
    BY <1>3 DEF PopFront, Crash
  <2>. QED
    BY <2>1 DEF ConnectionType, Undisturbed, FirstConnection, connectionVars, socketVars, guiVars
<1>4. CASE Retry
  <2>1. UNCHANGED <<m_isConnected, guiVars, failures, crossed, unsent>>
        /\ thread = "retry" /\ thread' = "loop"
    BY <1>4 DEF Retry, queueVars, historyVars
  <2>2. CASE m_tryReconnect
    <3>1. connectToHost(state, calls) /\ m_tryReconnect' = FALSE
      BY <1>4, <2>2 DEF Retry
    <3>2. ~(failures = 0 /\ newHosts = 0)
      BY <2>1, <2>2 DEF Undisturbed, FirstConnection
    <3>3. state' \in State /\ peer' \in Hosts /\ calls' \in Seq(Slot)
      BY <3>1, ConnectTypes DEF ConnectionType
    <3>. QED
      BY <2>1, <3>1, <3>2, <3>3 DEF ConnectionType, Undisturbed, guiVars
  <2>3. CASE ~m_tryReconnect
    BY <1>4, <2>1, <2>3 DEF Retry, ConnectionType, Undisturbed, FirstConnection, socketVars, guiVars
  <2>. QED
    BY <2>2, <2>3
<1>5. CASE LeaveLoop
  <2>1. UNCHANGED <<peer, m_isConnected, m_tryReconnect, guiVars, failures, crossed, unsent>>
        /\ state' = "unconnected" /\ calls' = <<>> /\ thread' = "stopped"
    BY <1>5 DEF LeaveLoop, queueVars, historyVars
  <2>. QED
    BY <2>1, EmptySeq DEF ConnectionType, Undisturbed, State, guiVars
<1>. QED
  BY <1>1, <1>front, <1>2, <1>3, <1>4, <1>5 DEF onTimeout

LEMMA CallersConnection == ConnectionInv /\ (Gui \/ sendPacket \/ UNCHANGED vars) => ConnectionInv'
<1>. SUFFICES ASSUME ConnectionInv, Gui \/ sendPacket \/ UNCHANGED vars PROVE ConnectionInv'
  OBVIOUS
<1>. USE DEF ConnectionInv
<1>1. CASE Gui
  <2>0. UNCHANGED <<socketVars, m_isConnected, m_tryReconnect, failures, crossed, thread, queueVars>>
    BY <1>1 DEF Gui
  <2>1. ASSUME NEW host \in Hosts, newHost(host) PROVE ConnectionInv'
    <3>1. newHosts' \in 0 .. MaxNewHosts /\ newHosts' # 0
      BY <2>1, TcpSocketAssumption DEF newHost, ConnectionType
    <3>2. calls' \in Seq(Slot)
      <4>1. "onNewHost" \in Slot
        BY DEF Slot
      <4>. QED
        BY <2>1, <4>1, AppendProperties DEF newHost, ConnectionType
    <3>. QED
      BY <2>0, <2>1, <3>1, <3>2 DEF newHost, ConnectionType, Undisturbed, socketVars
  <2>2. CASE Quit
    BY <2>0, <2>2 DEF Quit, ConnectionType, Undisturbed, FirstConnection, socketVars, queueVars, historyVars
  <2>. QED
    BY <1>1, <2>1, <2>2 DEF Gui
<1>2. CASE sendPacket
  <2>1. UNCHANGED <<connectionVars, unsent>> /\ thread' \in {thread, "crashed"}
    BY <1>2 DEF sendPacket, LetIn, Push, TrimTest, Trim, Crash
  <2>. QED
    BY <2>1 DEF ConnectionType, Undisturbed, FirstConnection, connectionVars, socketVars, guiVars
<1>3. CASE UNCHANGED vars
  BY <1>3 DEF vars, ConnectionType, Undisturbed, FirstConnection, connectionVars, socketVars, guiVars,
              queueVars, historyVars
<1>. QED
  BY <1>1, <1>2, <1>3

LEMMA ConnectionHolds == Spec => []ConnectionInv
<1>1. ConnectionInv /\ [Next]_vars => ConnectionInv'
  BY NetworkConnection, SlotsConnection, TimeoutConnection, CallersConnection DEF Next
<1>. QED
  BY <1>1, InitConnection, PTL DEF Spec

-----------------------------------------------------------------------------
(* The packets *)

(* The part of TypeOK that is about the packets. *)
QueueType ==
    /\ thread \in {"loop", "front", "write", "pop", "retry", "stopped", "crashed"}
    /\ accepted \in 0 .. MaxPackets /\ pkt \in 0 .. accepted
    /\ app \in {"idle", "push", "test", "trim", "crashed"} /\ (app = "push" => accepted < MaxPackets)
    /\ m_packets \in Seq(1 .. accepted) /\ Len(m_packets) <= m_max_packets + 1
    /\ written \in Seq(1 .. accepted)
    /\ unsent \cup trimmed \cup skipped \subseteq 1 .. accepted
    /\ trims \in Nat /\ drained \in Nat

(* sendPacket leaves no more than the limit; what it found too many is still queued, or the  *)
(* other thread removed it; so the list under a thread that is about to read it or to pop it *)
(* is empty only after writeNextPacket had removed as many as the limit.                     *)
Limits ==
    /\ app \in {"idle", "push"} => Len(m_packets) <= m_max_packets
    /\ app = "trim" => Len(m_packets) + drained > m_max_packets
    /\ m_packets = <<>> /\ thread \in {"front", "write", "pop"} => drained >= m_max_packets
    /\ thread = "crashed" => drained >= m_max_packets /\ app = "crashed"

(* Packets leave the list at the front only: pkt is not behind any packet queued, and what *)
(* is written comes before what is queued, but for pkt between its writing and its removal. *)
InLine ==
    /\ Rising(m_packets) /\ Rising(written)
    /\ thread \in {"loop", "front", "retry", "stopped"} => pkt = 0
    /\ thread \in {"write", "pop"} => pkt # 0 /\ \A q \in Elements(m_packets) : pkt <= q
    /\ thread = "write" => \A w \in Elements(written) : w < pkt
    /\ thread = "pop" => pkt \in Elements(written)
    /\ thread # "crashed" =>
         \A w \in Elements(written), q \in Elements(m_packets) : w < q \/ (q = pkt /\ thread = "pop")

(* Every packet is somewhere, and a packet is lost only for one that sendPacket removed: the *)
(* one that writeNextPacket is going to lose is paid for as soon as pkt is gone.             *)
Lost == trimmed \cup skipped
Owed == IF pkt # 0 /\ pkt \notin Elements(m_packets) THEN 1 ELSE 0
Account ==
    /\ 1 .. accepted = Elements(m_packets) \cup Elements(written) \cup Lost \cup ({pkt} \ {0})
    /\ IsFiniteSet(Lost) /\ Cardinality(Lost) + Owed <= trims

QueueInv == QueueType /\ Limits /\ InLine /\ Account

LEMMA InitQueue == Init => QueueInv
<1>. SUFFICES ASSUME Init PROVE QueueInv
  OBVIOUS
<1>1. /\ m_packets = <<>> /\ written = <<>> /\ m_packets \in Seq(1 .. accepted)
      /\ written \in Seq(1 .. accepted) /\ Len(m_packets) = 0
      /\ Elements(m_packets) = {} /\ Elements(written) = {} /\ Rising(m_packets) /\ Rising(written)
  BY EmptySeq DEF Init, Elements, Rising
<1>2. accepted = 0 /\ pkt = 0 /\ Lost = {} /\ IsFiniteSet(Lost) /\ Cardinality(Lost) = 0 /\ Owed = 0
  BY FS_EmptySet DEF Init, Lost, Owed
<1>3. QueueType
  BY <1>1, TcpSocketAssumption DEF Init, QueueType
<1>4. Limits
  BY <1>1, TcpSocketAssumption DEF Init, Limits
<1>5. InLine
  BY <1>1 DEF Init, InLine
<1>6. Account
  BY <1>1, <1>2 DEF Init, Account
<1>. QED
  BY <1>3, <1>4, <1>5, <1>6 DEF QueueInv

(* What a step that leaves the packets alone may do. *)
LEMMA QuietQueue ==
    ASSUME QueueInv, UNCHANGED queueVars,
           \/ thread' = thread
           \/ thread \in {"loop", "retry"} /\ thread' \in {"loop", "retry", "stopped"}
           \/ thread = "loop" /\ thread' = "front" /\ m_packets # <<>>
    PROVE  QueueInv'
<1>. USE DEF queueVars, historyVars
<1>1. QueueType'
  BY DEF QueueInv, QueueType
<1>2. Limits'
  BY DEF QueueInv, Limits
<1>3. InLine'
  BY DEF QueueInv, InLine
<1>4. Account'
  BY DEF QueueInv, Account, Lost, Owed
<1>. QED
  BY <1>1, <1>2, <1>3, <1>4 DEF QueueInv

LEMMA TimerQueue == QueueInv /\ TimerFires => QueueInv'
<1>. SUFFICES ASSUME QueueInv, TimerFires PROVE QueueInv'
  OBVIOUS
<1>1. UNCHANGED queueVars
  BY DEF TimerFires
<1>2. \/ thread \in {"loop", "retry"} /\ thread' \in {"loop", "retry", "stopped"}
      \/ thread = "loop" /\ thread' = "front" /\ m_packets # <<>>
  BY DEF TimerFires
<1>. QED
  BY <1>1, <1>2, QuietQueue

(* Removing the front, for both threads that do it: a packet that is still pkt is written *)
(* or will be; any other is lost, and pkt is not in the list then.                        *)
LEMMA FrontRemoved ==
    ASSUME QueueInv, m_packets # <<>>
    PROVE  /\ Tail(m_packets) \in Seq(1 .. accepted) /\ Rising(Tail(m_packets))
           /\ Len(m_packets) \in Nat \ {0} /\ Len(Tail(m_packets)) = Len(m_packets) - 1
           /\ Head(m_packets) \in 1 .. accepted
           /\ Elements(m_packets) = {Head(m_packets)} \cup Elements(Tail(m_packets))
           /\ \A q \in Elements(Tail(m_packets)) : q \in 1 .. accepted /\ Head(m_packets) < q
           /\ Head(m_packets) = pkt => pkt \notin Elements(Tail(m_packets))
           /\ thread \in {"write", "pop"} /\ Head(m_packets) # pkt => pkt \notin Elements(m_packets)
<1>1. 1 .. accepted \in SUBSET Nat /\ m_packets \in Seq(1 .. accepted) /\ Rising(m_packets)
  BY DEF QueueInv, QueueType, InLine
<1>2. /\ Head(m_packets) \in 1 .. accepted /\ Tail(m_packets) \in Seq(1 .. accepted)
      /\ Rising(Tail(m_packets))
      /\ Len(m_packets) \in Nat \ {0} /\ Len(Tail(m_packets)) = Len(m_packets) - 1
      /\ Elements(m_packets) = {Head(m_packets)} \cup Elements(Tail(m_packets))
      /\ \A q \in Elements(Tail(m_packets)) : Head(m_packets) < q
  BY <1>1, RisingTail
<1>3. Elements(Tail(m_packets)) \subseteq 1 .. accepted
  BY <1>2, ElementsIn
<1>4. thread \in {"write", "pop"} => pkt <= Head(m_packets) /\ pkt \in Nat
  BY <1>1, <1>2 DEF QueueInv, QueueType, InLine
<1>. QED
  BY <1>1, <1>2, <1>3, <1>4

LEMMA FrontQueue == QueueInv /\ Front => QueueInv'
<1>. SUFFICES ASSUME QueueInv, Front PROVE QueueInv'
  OBVIOUS
<1>. USE DEF QueueInv
<1>1. CASE m_packets = <<>>
  <2>1. /\ thread = "front" /\ thread' = "crashed" /\ app' = "crashed"
        /\ UNCHANGED <<pkt, m_packets, accepted, written, unsent, trimmed, skipped, trims, drained>>
    BY <1>1 DEF Front, Crash, historyVars
  <2>2. QueueType'
    BY <2>1 DEF QueueType
  <2>3. Limits'
    BY <1>1, <2>1 DEF Limits
  <2>4. InLine'
    BY <2>1 DEF InLine
  <2>5. Account'
    BY <2>1 DEF Account, Lost, Owed
  <2>. QED
    BY <2>2, <2>3, <2>4, <2>5
<1>2. CASE m_packets # <<>>
  <2>1. /\ thread = "front" /\ thread' = "write" /\ pkt' = Head(m_packets) /\ pkt = 0
        /\ UNCHANGED <<m_packets, app, accepted, written, unsent, trimmed, skipped, trims, drained>>
    BY <1>2 DEF Front, historyVars, InLine
  <2>2. /\ pkt' \in 1 .. accepted /\ pkt' \in Elements(m_packets)
        /\ \A q \in Elements(m_packets) : pkt' <= q
    <3>1. /\ Head(m_packets) \in 1 .. accepted
          /\ Elements(m_packets) = {Head(m_packets)} \cup Elements(Tail(m_packets))
          /\ \A q \in Elements(Tail(m_packets)) : Head(m_packets) < q
      BY <1>2, FrontRemoved
    <3>2. Elements(m_packets) \subseteq Nat
      BY ElementsIn DEF QueueType
    <3>. QED
      BY <2>1, <3>1, <3>2
  <2>3. QueueType'
    BY <1>2, <2>1, <2>2 DEF QueueType
  <2>4. Limits'
    BY <1>2, <2>1 DEF Limits
  <2>5. InLine'
    BY <1>2, <2>1, <2>2 DEF InLine, QueueType
  <2>6. Account'
    <3>1. Owed' = 0 /\ Owed = 0 /\ Lost' = Lost
      BY <2>1, <2>2 DEF Owed, Lost
    <3>. QED
      BY <2>1, <2>2, <3>1 DEF Account
  <2>. QED
    BY <2>3, <2>4, <2>5, <2>6
<1>. QED
  BY <1>1, <1>2

LEMMA WriteQueue == QueueInv /\ Write => QueueInv'
<1>. SUFFICES ASSUME QueueInv, Write PROVE QueueInv'
  OBVIOUS
<1>. USE DEF QueueInv
<1>1. /\ thread = "write" /\ thread' = "pop" /\ written' = Append(written, pkt)
      /\ unsent' \subseteq unsent \cup {pkt}
      /\ UNCHANGED <<m_packets, pkt, app, accepted, trimmed, skipped, trims, drained>>
  BY DEF Write
<1>2. pkt \in 1 .. accepted /\ \A w \in Elements(written) : w < pkt
  BY <1>1 DEF InLine, QueueType
<1>3. /\ written' \in Seq(1 .. accepted) /\ Elements(written') = Elements(written) \cup {pkt}
  BY <1>1, <1>2, AppendProperties, ElementsAppend DEF QueueType
<1>4. Rising(written')
  <2>1. written \in Seq(Nat)
    BY SeqMonotonic DEF QueueType
  <2>. QED
    BY <1>1, <1>2, <2>1, RisingAppend DEF InLine
<1>5. QueueType'
  BY <1>1, <1>2, <1>3 DEF QueueType
<1>6. Limits'
  BY <1>1 DEF Limits
<1>7. InLine'
  <2>1. \A q \in Elements(m_packets) : q \in Nat /\ pkt <= q
    BY <1>1, ElementsIn DEF InLine, QueueType
  <2>2. \A w \in Elements(written), q \in Elements(m_packets) : w < q
    BY <1>1 DEF InLine
  <2>. QED
    BY <1>1, <1>2, <1>3, <1>4, <2>1, <2>2 DEF InLine
<1>8. Account'
  BY <1>1, <1>3 DEF Account, Lost, Owed
<1>. QED
  BY <1>5, <1>6, <1>7, <1>8

LEMMA LostGrows ==
    ASSUME QueueInv, NEW x PROVE IsFiniteSet(Lost \cup {x}) /\ Cardinality(Lost \cup {x}) <= Cardinality(Lost) + 1
                                 /\ Cardinality(Lost) \in Nat /\ Cardinality(Lost \cup {x}) \in Nat
<1>1. IsFiniteSet(Lost) /\ Cardinality(Lost) \in Nat
  BY FS_CardinalityType DEF QueueInv, Account
<1>2. IsFiniteSet(Lost \cup {x})
      /\ Cardinality(Lost \cup {x}) = IF x \in Lost THEN Cardinality(Lost) ELSE Cardinality(Lost) + 1
  BY <1>1, FS_AddElement
<1>. QED
  BY <1>1, <1>2

LEMMA PopQueue == QueueInv /\ PopFront => QueueInv'
<1>. SUFFICES ASSUME QueueInv, PopFront PROVE QueueInv'
  OBVIOUS
<1>. USE DEF QueueInv
<1>0. /\ thread = "pop" /\ pkt' = 0 /\ pkt \in Elements(written) /\ pkt \in 1 .. accepted
      /\ UNCHANGED <<accepted, written, unsent, trimmed, trims>>
  BY DEF PopFront, InLine, QueueType
<1>1. CASE m_packets = <<>>
  <2>1. UNCHANGED <<m_packets, skipped, drained>> /\ thread' = "crashed" /\ app' = "crashed"
    BY <1>1 DEF PopFront, Crash
  <2>2. QueueType'
    BY <1>0, <2>1 DEF QueueType
  <2>3. Limits'
    BY <1>0, <1>1, <2>1 DEF Limits
  <2>4. InLine'
    BY <1>0, <2>1 DEF InLine
  <2>5. Account'
    <3>1. Owed' = 0 /\ Lost' = Lost /\ Owed \in {0, 1}
      BY <1>0, <2>1 DEF Owed, Lost
    <3>2. Cardinality(Lost) \in Nat
      BY LostGrows
    <3>. QED
      BY <1>0, <2>1, <3>1, <3>2 DEF Account, QueueType
  <2>. QED
    BY <2>2, <2>3, <2>4, <2>5
<1>2. CASE m_packets # <<>>
  <2>. DEFINE front == Head(m_packets)
  <2>1. /\ m_packets' = Tail(m_packets) /\ drained' = drained + 1
        /\ skipped' = skipped \cup (IF front = pkt THEN {} ELSE {front})
        /\ thread' = "retry" /\ app' = app
    BY <1>2 DEF PopFront, Removed
  <2>2. /\ m_packets' \in Seq(1 .. accepted) /\ Rising(m_packets')
        /\ Len(m_packets) \in Nat \ {0} /\ Len(m_packets') = Len(m_packets) - 1
        /\ front \in 1 .. accepted /\ Elements(m_packets) = {front} \cup Elements(m_packets')
        /\ \A q \in Elements(m_packets') : q \in 1 .. accepted /\ front < q
        /\ front # pkt => pkt \notin Elements(m_packets)
    BY <1>0, <1>2, <2>1, FrontRemoved
  <2>. HIDE DEF front
  <2>3. QueueType'
    BY <1>0, <2>1, <2>2, TcpSocketAssumption DEF QueueType
  <2>4. Limits'
    BY <1>0, <2>1, <2>2, TcpSocketAssumption DEF Limits, QueueType
  <2>5. InLine'
    <3>1. \A w \in Elements(written), q \in Elements(m_packets') : w < q
      <4>1. \A q \in Elements(m_packets') : q # pkt /\ q \in Elements(m_packets)
        <5>1. pkt <= front /\ pkt \in Nat /\ front \in Nat
          BY <1>0, <2>2 DEF InLine
        <5>. QED
          BY <2>2, <5>1
      <4>. QED
        BY <1>0, <4>1 DEF InLine
    <3>. QED
      BY <1>0, <2>1, <2>2, <3>1 DEF InLine
  <2>6. Account'
    <3>1. CASE front = pkt
      <4>1. Lost' = Lost /\ Owed' = 0 /\ Owed \in {0, 1} /\ Cardinality(Lost) \in Nat
        BY <1>0, <2>1, <3>1, LostGrows DEF Lost, Owed
      <4>2. IsFiniteSet(Lost') /\ Cardinality(Lost') + Owed' <= trims'
        <5>1. Cardinality(Lost) + Owed <= trims /\ IsFiniteSet(Lost) /\ trims \in Nat
          BY DEF Account, QueueType
        <5>. QED
          BY <1>0, <4>1, <5>1
      <4>3. 1 .. accepted = Elements(m_packets') \cup Elements(written) \cup Lost'
        BY <1>0, <2>2, <3>1, <4>1 DEF Account
      <4>. QED
        BY <1>0, <4>2, <4>3 DEF Account
    <3>2. CASE front # pkt
      <4>1. Lost' = Lost \cup {front} /\ Owed' = 0 /\ Owed = 1
        BY <1>0, <2>1, <2>2, <3>2 DEF Lost, Owed
      <4>2. IsFiniteSet(Lost') /\ Cardinality(Lost') + Owed' <= trims'
        <5>1. /\ IsFiniteSet(Lost \cup {front}) /\ Cardinality(Lost \cup {front}) \in Nat
              /\ Cardinality(Lost \cup {front}) <= Cardinality(Lost) + 1 /\ Cardinality(Lost) \in Nat
          BY LostGrows
        <5>2. Cardinality(Lost) + 1 <= trims /\ trims \in Nat
          BY <4>1 DEF Account, QueueType
        <5>. QED
          BY <1>0, <4>1, <5>1, <5>2
      <4>3. 1 .. accepted = Elements(m_packets') \cup Elements(written) \cup Lost'
        BY <1>0, <2>2, <4>1 DEF Account
      <4>. QED
        BY <1>0, <4>2, <4>3 DEF Account
    <3>. QED
      BY <3>1, <3>2
  <2>. QED
    BY <2>3, <2>4, <2>5, <2>6
<1>. QED
  BY <1>1, <1>2

LEMMA LetInQueue == QueueInv /\ LetIn /\ UNCHANGED <<pkt, written, unsent, skipped>> => QueueInv'
<1>. SUFFICES ASSUME QueueInv, LetIn, UNCHANGED <<pkt, written, unsent, skipped>> PROVE QueueInv'
  OBVIOUS
<1>. USE DEF QueueInv
<1>0. /\ app = "idle" /\ app' = "push" /\ accepted < MaxPackets
      /\ UNCHANGED <<thread, m_packets, accepted, trimmed, trims, drained>>
  BY DEF LetIn
<1>1. QueueType'
  BY <1>0 DEF QueueType
<1>2. Limits'
  BY <1>0 DEF Limits
<1>3. InLine'
  BY <1>0 DEF InLine
<1>4. Account'
  BY <1>0 DEF Account, Lost, Owed
<1>. QED
  BY <1>1, <1>2, <1>3, <1>4

LEMMA PushQueue == QueueInv /\ Push /\ UNCHANGED <<pkt, written, unsent, skipped>> => QueueInv'
<1>. SUFFICES ASSUME QueueInv, Push, UNCHANGED <<pkt, written, unsent, skipped>> PROVE QueueInv'
  OBVIOUS
<1>. USE DEF QueueInv
<1>0. /\ app = "push" /\ app' = "test" /\ accepted < MaxPackets /\ accepted' = accepted + 1
      /\ m_packets' = Append(m_packets, accepted + 1)
      /\ UNCHANGED <<thread, trimmed, trims, drained>>
  BY DEF Push, QueueType
<1>1. /\ accepted \in Nat /\ accepted' \in 0 .. MaxPackets /\ accepted' \in 1 .. accepted'
      /\ 1 .. accepted \subseteq 1 .. accepted' /\ 1 .. accepted' = 1 .. accepted \cup {accepted'}
  BY <1>0, TcpSocketAssumption DEF QueueType
<1>2. m_packets \in Seq(1 .. accepted') /\ written \in Seq(1 .. accepted') /\ m_packets \in Seq(Nat)
  <2>1. m_packets \in Seq(1 .. accepted) /\ written \in Seq(1 .. accepted) /\ 1 .. accepted \subseteq Nat
    BY DEF QueueType
  <2>. QED
    BY <1>1, <2>1, SeqMonotonic
<1>3. Elements(m_packets) \subseteq 1 .. accepted /\ Elements(written) \subseteq 1 .. accepted
  BY ElementsIn DEF QueueType
<1>4. /\ m_packets' \in Seq(1 .. accepted') /\ Len(m_packets') = Len(m_packets) + 1
      /\ Len(m_packets) \in Nat
      /\ m_packets' # <<>> /\ Elements(m_packets') = Elements(m_packets) \cup {accepted'}
  <2>1. m_packets' = Append(m_packets, accepted')
    BY <1>0
  <2>2. Elements(Append(m_packets, accepted')) = Elements(m_packets) \cup {accepted'}
    BY <1>1, <1>2, ElementsAppend
  <2>3. /\ Append(m_packets, accepted') \in Seq(1 .. accepted') /\ Append(m_packets, accepted') # <<>>
        /\ Len(Append(m_packets, accepted')) = Len(m_packets) + 1
    BY <1>1, <1>2, AppendProperties
  <2>. QED
    BY <1>2, <2>1, <2>2, <2>3, LenProperties
<1>5. Rising(m_packets')
  <2>1. \A e \in Elements(m_packets) : e < accepted'
    BY <1>0, <1>1, <1>3
  <2>. QED
    BY <1>0, <1>1, <1>2, <2>1, RisingAppend DEF InLine
<1>6. QueueType'
  BY <1>0, <1>1, <1>2, <1>4, TcpSocketAssumption DEF QueueType, Limits
<1>7. Limits'
  BY <1>0, <1>4 DEF Limits
<1>8. InLine'
  BY <1>0, <1>1, <1>3, <1>4, <1>5 DEF InLine, QueueType
<1>9. Account'
  <2>1. Owed' = Owed /\ Lost' = Lost
    BY <1>0, <1>1, <1>4 DEF Owed, Lost, QueueType
  <2>. QED
    BY <1>0, <1>1, <1>4, <2>1 DEF Account
<1>. QED
  BY <1>6, <1>7, <1>8, <1>9

LEMMA TrimTestQueue == QueueInv /\ TrimTest /\ UNCHANGED <<pkt, written, unsent, skipped>> => QueueInv'
<1>. SUFFICES ASSUME QueueInv, TrimTest, UNCHANGED <<pkt, written, unsent, skipped>> PROVE QueueInv'
  OBVIOUS
<1>. USE DEF QueueInv
<1>0. /\ app = "test" /\ UNCHANGED <<thread, m_packets, accepted, trimmed, trims>>
      /\ \/ app' = "trim" /\ drained' = 0 /\ Len(m_packets) > m_max_packets
         \/ app' = "idle" /\ drained' = drained /\ ~(Len(m_packets) > m_max_packets)
  BY DEF TrimTest, TooMany
<1>1. Len(m_packets) \in Nat
  BY LenProperties DEF QueueType
<1>2. QueueType'
  BY <1>0 DEF QueueType
<1>3. Limits'
  <2>1. m_packets = <<>> => Len(m_packets) = 0
    OBVIOUS
  <2>2. thread # "crashed" \/ drained' = drained
    BY <1>0 DEF Limits
  <2>. QED
    BY <1>0, <1>1, <2>1, <2>2, TcpSocketAssumption DEF Limits, QueueType
<1>4. InLine'
  BY <1>0 DEF InLine
<1>5. Account'
  BY <1>0 DEF Account, Lost, Owed
<1>. QED
  BY <1>2, <1>3, <1>4, <1>5

LEMMA TrimQueue == QueueInv /\ Trim /\ UNCHANGED <<pkt, written, unsent, skipped>> => QueueInv'
<1>. SUFFICES ASSUME QueueInv, Trim, UNCHANGED <<pkt, written, unsent, skipped>> PROVE QueueInv'
  OBVIOUS
<1>. USE DEF QueueInv
<1>0. /\ app = "trim" /\ UNCHANGED <<accepted, drained>> /\ Len(m_packets) + drained > m_max_packets
      /\ thread # "crashed"
  BY DEF Trim, Limits
<1>1. CASE m_packets = <<>>
  <2>1. UNCHANGED <<m_packets, trimmed, trims>> /\ thread' = "crashed" /\ app' = "crashed"
    BY <1>1 DEF Trim, Crash
  <2>2. QueueType'
    BY <1>0, <2>1 DEF QueueType
  <2>3. Limits'
    <3>1. Len(m_packets) = 0
      BY <1>1
    <3>. QED
      BY <1>0, <2>1, <3>1, TcpSocketAssumption DEF Limits, QueueType
  <2>4. InLine'
    BY <1>0, <2>1 DEF InLine
  <2>5. Account'
    BY <1>0, <2>1 DEF Account, Lost, Owed
  <2>. QED
    BY <2>2, <2>3, <2>4, <2>5
<1>2. CASE m_packets # <<>>
  <2>. DEFINE front == Head(m_packets)
  <2>1. /\ m_packets' = Tail(m_packets) /\ trims' = trims + 1
        /\ trimmed' = trimmed \cup (IF front = pkt THEN {} ELSE {front})
        /\ thread' = thread /\ app' = "test"
    BY <1>2 DEF Trim, Removed
  <2>2. /\ m_packets' \in Seq(1 .. accepted) /\ Rising(m_packets')
        /\ Len(m_packets) \in Nat \ {0} /\ Len(m_packets') = Len(m_packets) - 1
        /\ front \in 1 .. accepted /\ Elements(m_packets) = {front} \cup Elements(m_packets')
        /\ front = pkt => pkt \notin Elements(m_packets')
        /\ thread \in {"write", "pop"} /\ front # pkt => pkt \notin Elements(m_packets)
    BY <1>2, <2>1, FrontRemoved
  <2>. HIDE DEF front
  <2>3. QueueType'
    BY <1>0, <2>1, <2>2, TcpSocketAssumption DEF QueueType
  <2>4. Limits'
    <3>1. m_packets' = <<>> => Len(m_packets') = 0
      OBVIOUS
    <3>2. ASSUME m_packets' = <<>> PROVE drained >= m_max_packets
      <4>1. Len(m_packets) - 1 = 0 /\ Len(m_packets) \in Nat
        BY <2>2, <3>1, <3>2
      <4>2. Len(m_packets) = 1
        BY <4>1
      <4>3. 1 + drained > m_max_packets /\ drained \in Nat
        BY <1>0, <4>2 DEF QueueType
      <4>. QED
        BY <4>3, TcpSocketAssumption
    <3>. QED
      BY <1>0, <2>1, <3>2 DEF Limits
  <2>5. InLine'
    BY <2>1, <2>2 DEF InLine
  <2>6. Account'
    <3>1. /\ IsFiniteSet(Lost \cup {front}) /\ Cardinality(Lost \cup {front}) \in Nat
          /\ Cardinality(Lost \cup {front}) <= Cardinality(Lost) + 1 /\ Cardinality(Lost) \in Nat
      BY LostGrows
    <3>2. Cardinality(Lost) + Owed <= trims /\ trims \in Nat /\ Owed \in {0, 1}
      BY DEF Account, QueueType, Owed
    <3>3. CASE front = pkt
      <4>1. Lost' = Lost /\ Owed' = 1 /\ Owed = 0
        BY <1>0, <2>1, <2>2, <3>3 DEF Lost, Owed
      <4>. QED
        BY <1>0, <2>1, <2>2, <3>1, <3>2, <3>3, <4>1 DEF Account
    <3>4. CASE front # pkt
      <4>1. Lost' = Lost \cup {front}
        BY <1>0, <2>1, <3>4 DEF Lost
      <4>2. Owed' = Owed
        <5>1. pkt = 0 \/ pkt \notin Elements(m_packets)
          BY <1>0, <2>2, <3>4 DEF InLine, QueueType
        <5>. QED
          BY <2>1, <2>2, <5>1 DEF Owed
      <4>. QED
        BY <1>0, <2>1, <2>2, <3>1, <3>2, <4>1, <4>2 DEF Account
    <3>. QED
      BY <3>3, <3>4
  <2>. QED
    BY <2>3, <2>4, <2>5, <2>6
<1>. QED
  BY <1>1, <1>2

LEMMA QueueHolds == Spec => []QueueInv
<1>1. QueueInv /\ [Next]_vars => QueueInv'
  <2>. SUFFICES ASSUME QueueInv, [Next]_vars PROVE QueueInv'
    OBVIOUS
  <2>1. CASE Network \/ Slots \/ Gui \/ LeaveLoop \/ UNCHANGED vars
    <3>1. UNCHANGED queueVars
      BY <2>1 DEF Network, Slots, Gui, LeaveLoop, vars
    <3>2. thread' = thread \/ (thread = "loop" /\ thread' = "stopped")
      BY <2>1 DEF Network, Slots, Gui, LeaveLoop, vars
    <3>. QED
      BY <3>1, <3>2, QuietQueue
  <2>2. CASE Retry
    BY <2>2, QuietQueue DEF Retry
  <2>3. CASE sendPacket
    <3>1. UNCHANGED <<pkt, written, unsent, skipped>>
      BY <2>3 DEF sendPacket
    <3>. QED
      BY <2>3, <3>1, LetInQueue, PushQueue, TrimTestQueue, TrimQueue DEF sendPacket
  <2>4. CASE TimerFires \/ Front \/ Write \/ PopFront
    BY <2>4, TimerQueue, FrontQueue, WriteQueue, PopQueue
  <2>. QED
    BY <2>1, <2>2, <2>3, <2>4 DEF Next, onTimeout
<1>. QED
  BY <1>1, InitQueue, PTL DEF Spec

-----------------------------------------------------------------------------
(* The list of packets never holds more than one packet over the limit, and what is written *)
(* is what was given to sendPacket, whatever the two threads and the connection do.         *)
THEOREM TcpSocketTypes == Spec => []TypeOK
<1>1. ConnectionInv /\ QueueInv => TypeOK
  BY DEF ConnectionInv, ConnectionType, Slot, State, QueueInv, QueueType, TypeOK
<1>. QED
  BY <1>1, ConnectionHolds, QueueHolds, PTL

(* No packet is written twice or out of order, none disappears, and none is lost that the *)
(* limit does not explain; none is written to nothing before something went wrong; and an *)
(* empty list is read or popped only when sendPacket was overtaken by as many removals    *)
(* of writeNextPacket as the limit.                                                       *)
THEOREM LossIsAccounted == Spec => []LossAccounted
<1>1. ConnectionInv /\ QueueInv => LossAccounted
  <2>. SUFFICES ASSUME ConnectionInv, QueueInv PROVE LossAccounted
    OBVIOUS
  <2>1. InQueue = Elements(m_packets) /\ Written = Elements(written)
    BY DEF InQueue, Written, Elements
  <2>2. \A j, k \in DOMAIN written : j < k => written[j] < written[k]
    BY DEF QueueInv, InLine, Rising
  <2>3. 1 .. accepted = InQueue \cup Written \cup trimmed \cup skipped \cup ({pkt} \ {0})
    BY <2>1 DEF QueueInv, Account, Lost
  <2>4. Cardinality(trimmed \cup skipped) <= trims
    <3>1. Cardinality(Lost) \in Nat /\ Owed \in {0, 1} /\ trims \in Nat
      BY LostGrows DEF Owed, QueueInv, QueueType
    <3>. QED
      BY <3>1 DEF QueueInv, Account, Lost
  <2>5. unsent # {} => failures + newHosts > 0
    BY TcpSocketAssumption DEF ConnectionInv, ConnectionType, Undisturbed
  <2>6. thread = "crashed" => drained >= m_max_packets
    BY DEF QueueInv, Limits
  <2>. QED
    BY <2>2, <2>3, <2>4, <2>5, <2>6 DEF LossAccounted
<1>. QED
  BY <1>1, ConnectionHolds, QueueHolds, PTL

-----------------------------------------------------------------------------
(* The flag *)

(* The slots that set m_isConnected, and what they make of it: when the posted ones have *)
(* run, it says whether the socket, which is in state st, is connected.                  *)
Setter == {"onConnect", "onDisconnect", "onError"}
Leads(s, flag, st) ==
    \/ (\A k \in DOMAIN s : s[k] \notin Setter) /\ (flag <=> st = "connected")
    \/ \E k \in DOMAIN s : /\ s[k] \in Setter /\ (s[k] = "onConnect" <=> st = "connected")
                           /\ \A j \in DOMAIN s : j > k => s[j] \notin Setter

Has(s, slot) == \E k \in DOMAIN s : s[k] = slot
OneError(s) == \A j, k \in DOMAIN s : s[j] = "onError" /\ s[k] = "onError" => j = k
StartsFirst(s) == \A k \in DOMAIN s : s[k] = "onConnectTo" => k = 1

LEMMA LeadsElsewhere ==
    ASSUME NEW s, NEW flag, NEW from, NEW to, Leads(s, flag, from), from # "connected", to # "connected"
    PROVE  Leads(s, flag, to)
  BY DEF Leads

LEMMA PostSlot ==
    ASSUME NEW s \in Seq(Slot), NEW x \in Slot
    PROVE  /\ Append(s, x) \in Seq(Slot)
           /\ x \in Setter =>
                \A flag, st : (x = "onConnect" <=> st = "connected") => Leads(Append(s, x), flag, st)
           /\ x \notin Setter => \A flag, st : Leads(s, flag, st) => Leads(Append(s, x), flag, st)
           /\ \A slot : Has(Append(s, x), slot) <=> Has(s, slot) \/ slot = x
           /\ OneError(s) /\ (x = "onError" => ~Has(s, "onError")) => OneError(Append(s, x))
           /\ StartsFirst(s) /\ x # "onConnectTo" => StartsFirst(Append(s, x))
<1>. DEFINE t == Append(s, x)
<1>1. /\ t \in Seq(Slot) /\ Len(s) \in Nat
      /\ DOMAIN s = 1 .. Len(s) /\ DOMAIN t = 1 .. Len(s) + 1
      /\ t[Len(s) + 1] = x /\ \A k \in 1 .. Len(s) : t[k] = s[k]
  BY AppendProperties, LenProperties
<1>2. \A k : k \in DOMAIN t <=> k \in DOMAIN s \/ k = Len(s) + 1
  BY <1>1
<1>3. \A k \in DOMAIN s : k \in DOMAIN t /\ t[k] = s[k] /\ k < Len(s) + 1 /\ k \in Nat
  BY <1>1
<1>4. Len(s) + 1 \in DOMAIN t /\ t[Len(s) + 1] = x
  BY <1>1
<1>. HIDE DEF t
<1>5. ASSUME x \in Setter, NEW flag, NEW st, x = "onConnect" <=> st = "connected"
      PROVE  Leads(t, flag, st)
  <2>1. \A j \in DOMAIN t : ~(j > Len(s) + 1)
    BY <1>1
  <2>. QED
    BY <1>4, <1>5, <2>1 DEF Leads
<1>6. ASSUME x \notin Setter, NEW flag, NEW st, Leads(s, flag, st)
      PROVE  Leads(t, flag, st)
  <2>1. CASE (\A k \in DOMAIN s : s[k] \notin Setter) /\ (flag <=> st = "connected")
    BY <1>2, <1>3, <1>4, <1>6, <2>1 DEF Leads
  <2>2. CASE \E k \in DOMAIN s : /\ s[k] \in Setter /\ (s[k] = "onConnect" <=> st = "connected")
                                 /\ \A j \in DOMAIN s : j > k => s[j] \notin Setter
    BY <1>2, <1>3, <1>4, <1>6, <2>2 DEF Leads
  <2>. QED
    BY <1>6, <2>1, <2>2 DEF Leads
<1>7. \A slot : Has(t, slot) <=> Has(s, slot) \/ slot = x
  BY <1>2, <1>3, <1>4 DEF Has
<1>8. OneError(s) /\ (x = "onError" => ~Has(s, "onError")) => OneError(t)
  BY <1>2, <1>3, <1>4 DEF OneError, Has
<1>9. StartsFirst(s) /\ x # "onConnectTo" => StartsFirst(t)
  BY <1>2, <1>3, <1>4 DEF StartsFirst
<1>10. t = Append(s, x)
  BY DEF t
<1>. QED
  BY <1>1, <1>5, <1>6, <1>7, <1>8, <1>9, <1>10

LEMMA ServeSlot ==
    ASSUME NEW s \in Seq(Slot), s # <<>>, NEW flag, NEW st, Leads(s, flag, st)
    PROVE  /\ Tail(s) \in Seq(Slot)
           /\ Head(s) \notin Setter => Leads(Tail(s), flag, st)
           /\ Head(s) \in Setter => \A b : (b <=> Head(s) = "onConnect") => Leads(Tail(s), b, st)
           /\ Has(s, Head(s)) /\ \A slot : Has(Tail(s), slot) => Has(s, slot)
           /\ OneError(s) => OneError(Tail(s)) /\ (Head(s) = "onError" => ~Has(Tail(s), "onError"))
           /\ StartsFirst(s) => StartsFirst(Tail(s)) /\ ~Has(Tail(s), "onConnectTo")
<1>. DEFINE t == Tail(s)
<1>1. /\ t \in Seq(Slot) /\ Len(s) \in Nat \ {0} /\ Len(t) = Len(s) - 1
      /\ DOMAIN s = 1 .. Len(s) /\ DOMAIN t = 1 .. Len(s) - 1
      /\ \A k \in 1 .. Len(t) : t[k] = s[k + 1]
  BY HeadTailProperties, LenProperties, EmptySeq
<1>2. Head(s) = s[1] /\ 1 \in DOMAIN s
  BY <1>1
<1>3. \A k \in DOMAIN t : k \in Nat /\ k + 1 \in DOMAIN s /\ t[k] = s[k + 1] /\ k + 1 # 1
  BY <1>1
<1>4. \A k \in DOMAIN s : k = 1 \/ (k \in Nat /\ k - 1 \in DOMAIN t /\ t[k - 1] = s[k])
  BY <1>1
<1>. HIDE DEF t
<1>5. ASSUME NEW k \in DOMAIN s, s[k] \in Setter, s[k] = "onConnect" <=> st = "connected",
             \A j \in DOMAIN s : j > k => s[j] \notin Setter, k # 1, NEW other
      PROVE  Leads(t, other, st)
  <2>1. k - 1 \in DOMAIN t /\ t[k - 1] = s[k] /\ k \in Nat
    BY <1>4, <1>5
  <2>2. \A j \in DOMAIN t : j > k - 1 => t[j] \notin Setter
    BY <1>3, <1>5, <2>1
  <2>. QED
    BY <1>5, <2>1, <2>2 DEF Leads
<1>6. ASSUME \A j \in DOMAIN s : j > 1 => s[j] \notin Setter
      PROVE  \A k \in DOMAIN t : t[k] \notin Setter
  BY <1>3, <1>6
<1>7. Head(s) \notin Setter => Leads(t, flag, st)
  <2>1. CASE (\A k \in DOMAIN s : s[k] \notin Setter) /\ (flag <=> st = "connected")
    BY <1>3, <2>1 DEF Leads
  <2>2. CASE \E k \in DOMAIN s : /\ s[k] \in Setter /\ (s[k] = "onConnect" <=> st = "connected")
                                 /\ \A j \in DOMAIN s : j > k => s[j] \notin Setter
    BY <1>2, <1>5, <2>2
  <2>. QED
    BY <2>1, <2>2 DEF Leads
<1>8. Head(s) \in Setter => \A b : (b <=> Head(s) = "onConnect") => Leads(t, b, st)
  <2>. SUFFICES ASSUME Head(s) \in Setter, NEW b, b <=> Head(s) = "onConnect" PROVE Leads(t, b, st)
    OBVIOUS
  <2>1. PICK k \in DOMAIN s : /\ s[k] \in Setter /\ (s[k] = "onConnect" <=> st = "connected")
                              /\ \A j \in DOMAIN s : j > k => s[j] \notin Setter
    BY <1>2 DEF Leads
  <2>2. CASE k = 1
    BY <1>2, <1>6, <2>1, <2>2 DEF Leads
  <2>3. CASE k # 1
    BY <1>5, <2>1, <2>3
  <2>. QED
    BY <2>2, <2>3
<1>9. Has(s, Head(s)) /\ \A slot : Has(t, slot) => Has(s, slot)
  BY <1>2, <1>3 DEF Has
<1>10. OneError(s) => OneError(t) /\ (Head(s) = "onError" => ~Has(t, "onError"))
  <2>. SUFFICES ASSUME OneError(s) PROVE OneError(t) /\ (Head(s) = "onError" => ~Has(t, "onError"))
    OBVIOUS
  <2>1. OneError(t)
    <3>. SUFFICES ASSUME NEW j \in DOMAIN t, NEW k \in DOMAIN t, t[j] = "onError", t[k] = "onError"
                  PROVE  j = k
      BY DEF OneError
    <3>1. j + 1 = k + 1
      BY <1>3 DEF OneError
    <3>. QED
      BY <1>3, <3>1
  <2>. QED
    BY <1>2, <1>3, <2>1 DEF OneError, Has
<1>11. StartsFirst(s) => StartsFirst(t) /\ ~Has(t, "onConnectTo")
  BY <1>3 DEF StartsFirst, Has
<1>12. t = Tail(s)
  BY DEF t
<1>. QED
  BY <1>1, <1>7, <1>8, <1>9, <1>10, <1>11, <1>12

(* While no newHost has crossed an attempt: the posted slots lead to the flag that the    *)
(* socket deserves; an attempt is due, posted or noted but not both, only while there is  *)
(* no connection; and the first slot of all is served before anything else.               *)
Uncrossed ==
    /\ Leads(calls, m_isConnected, state)
    /\ OneError(calls) /\ ~(m_tryReconnect /\ Has(calls, "onError"))
    /\ m_tryReconnect \/ Has(calls, "onError") => state = "unconnected"
    /\ StartsFirst(calls)
    /\ Has(calls, "onConnectTo") => state = "unconnected" /\ ~m_tryReconnect /\ ~Has(calls, "onError")
FlagInv == ~crossed /\ thread \notin {"stopped", "crashed"} => Uncrossed

LEMMA InitFlag == Init => FlagInv
<1>. SUFFICES ASSUME Init PROVE Uncrossed
  BY DEF FlagInv
<1>1. calls = <<"onConnectTo">> /\ state = "unconnected" /\ m_isConnected = FALSE /\ m_tryReconnect = FALSE
  BY DEF Init
<1>2. DOMAIN calls = {1} /\ calls[1] = "onConnectTo"
  BY <1>1
<1>3. Leads(calls, m_isConnected, state)
  BY <1>1, <1>2 DEF Leads, Setter
<1>. QED
  BY <1>1, <1>2, <1>3 DEF Uncrossed, OneError, Has, StartsFirst

LEMMA NetworkFlag == ConnectionType /\ FlagInv /\ Network => FlagInv'
<1>. SUFFICES ASSUME ConnectionType, FlagInv, Network, ~crossed' PROVE Uncrossed'
  BY DEF FlagInv
<1>0. /\ Uncrossed /\ UNCHANGED <<m_isConnected, m_tryReconnect>>
      /\ calls \in Seq(Slot) /\ m_isConnected \in BOOLEAN
  BY DEF Network, FlagInv, SocketRuns, ConnectionType
<1>1. CASE Connects
  <2>1. state = "connecting" /\ state' = "connected" /\ calls' = Append(calls, "onConnect")
    BY <1>1 DEF Connects
  <2>2. ~m_tryReconnect /\ ~Has(calls, "onError") /\ ~Has(calls, "onConnectTo")
    BY <1>0, <2>1 DEF Uncrossed
  <2>3. "onConnect" \in Slot /\ "onConnect" \in Setter
    BY DEF Slot, Setter
  <2>4. /\ Leads(calls', m_isConnected, state')
        /\ OneError(calls') /\ StartsFirst(calls')
        /\ ~Has(calls', "onError") /\ ~Has(calls', "onConnectTo")
    BY <1>0, <2>1, <2>2, <2>3, PostSlot DEF Uncrossed
  <2>. QED
    BY <1>0, <2>1, <2>2, <2>4 DEF Uncrossed
<1>2. CASE Breaks
  <2>. DEFINE one == Append(calls, "onError")
              two == Append(one, "onDisconnect")
  <2>1. state # "unconnected" /\ state' = "unconnected" /\ (calls' = one \/ calls' = two)
    <3>1. /\ state # "unconnected" /\ state' = "unconnected"
          /\ calls' = calls \o <<"onError", "onDisconnect">> \/ calls' = calls \o <<"onError">>
      BY <1>2 DEF Breaks
    <3>2. one = calls \o <<"onError">> /\ two = calls \o <<"onError", "onDisconnect">>
      <4>1. "onError" \in Slot /\ "onDisconnect" \in Slot
        BY DEF Slot
      <4>2. <<"onError">> \in Seq(Slot) /\ <<"onDisconnect">> \in Seq(Slot)
        <5>1. Append(<<>>, "onError") = <<"onError">> /\ Append(<<>>, "onDisconnect") = <<"onDisconnect">>
          OBVIOUS
        <5>. QED
          BY <4>1, <5>1, EmptySeq, AppendProperties
      <4>3. one = calls \o <<"onError">> /\ one \in Seq(Slot)
        BY <1>0, <4>1, AppendIsConcat, AppendProperties
      <4>4. two = one \o <<"onDisconnect">>
        BY <4>1, <4>3, AppendIsConcat
      <4>5. (calls \o <<"onError">>) \o <<"onDisconnect">> = calls \o (<<"onError">> \o <<"onDisconnect">>)
        BY <1>0, <4>2, ConcatAssociative
      <4>6. <<"onError">> \o <<"onDisconnect">> = <<"onError", "onDisconnect">>
        <5>1. Append(<<"onError">>, "onDisconnect") = <<"onError">> \o <<"onDisconnect">>
          BY <4>1, <4>2, AppendIsConcat
        <5>. QED
          BY <5>1, TwoSlots
      <4>. QED
        BY <4>3, <4>4, <4>5, <4>6
    <3>. QED
      BY <3>1, <3>2
  <2>2. ~m_tryReconnect /\ ~Has(calls, "onError") /\ ~Has(calls, "onConnectTo")
    BY <1>0, <2>1 DEF Uncrossed
  <2>3. /\ {"onError", "onDisconnect"} \subseteq Slot /\ {"onError", "onDisconnect"} \subseteq Setter
    BY DEF Slot, Setter
  <2>4. /\ one \in Seq(Slot) /\ Leads(one, m_isConnected, "unconnected")
        /\ OneError(one) /\ StartsFirst(one) /\ ~Has(one, "onConnectTo")
    BY <1>0, <2>2, <2>3, PostSlot DEF Uncrossed
  <2>. HIDE DEF one
  <2>5. /\ Leads(two, m_isConnected, "unconnected")
        /\ OneError(two) /\ StartsFirst(two) /\ ~Has(two, "onConnectTo")
    BY <1>0, <2>3, <2>4, PostSlot
  <2>. HIDE DEF two
  <2>. QED
    BY <1>0, <2>1, <2>2, <2>4, <2>5 DEF Uncrossed
<1>. QED
  BY <1>1, <1>2 DEF Network

LEMMA SlotsFlag == ConnectionType /\ FlagInv /\ Slots => FlagInv'
<1>. SUFFICES ASSUME ConnectionType, FlagInv, Slots, ~crossed' PROVE Uncrossed'
  BY DEF FlagInv
<1>0. ~crossed /\ Uncrossed /\ calls \in Seq(Slot) /\ m_isConnected \in BOOLEAN /\ calls # <<>>
  <2>1. ~crossed
    BY DEF Slots, onConnectTo, onConnect, onDisconnect, onError, onNewHost, Serve
  <2>2. calls # <<>>
    BY DEF Slots, onConnectTo, onConnect, onDisconnect, onError, onNewHost, Serve, Posted
  <2>. QED
    BY <2>1, <2>2 DEF Slots, FlagInv, ConnectionType
<1>. DEFINE rest == Tail(calls)
<1>1. /\ rest \in Seq(Slot)
      /\ Head(calls) \notin Setter => Leads(rest, m_isConnected, state)
      /\ Head(calls) \in Setter => \A b : (b <=> Head(calls) = "onConnect") => Leads(rest, b, state)
      /\ Has(calls, Head(calls)) /\ \A slot : Has(rest, slot) => Has(calls, slot)
      /\ OneError(rest) /\ (Head(calls) = "onError" => ~Has(rest, "onError"))
      /\ StartsFirst(rest) /\ ~Has(rest, "onConnectTo")
  BY <1>0, ServeSlot DEF Uncrossed
<1>. HIDE DEF rest
<1>2. CASE onConnectTo
  <2>1. Head(calls) = "onConnectTo" /\ connectToHost(state, rest) /\ UNCHANGED <<m_isConnected, m_tryReconnect>>
    BY <1>2 DEF onConnectTo, Posted, rest
  <2>2. state = "unconnected" /\ ~m_tryReconnect /\ ~Has(rest, "onError") /\ Head(calls) \notin Setter
    BY <1>0, <1>1, <2>1 DEF Uncrossed, Setter
  <2>3. state' = "connecting" /\ calls' = rest
    BY <2>1, <2>2 DEF connectToHost
  <2>4. Leads(rest, m_isConnected, state')
    BY <1>1, <2>2, <2>3, LeadsElsewhere
  <2>. QED
    BY <1>1, <2>1, <2>2, <2>3, <2>4 DEF Uncrossed
<1>3. CASE onConnect
  <2>1. Head(calls) = "onConnect" /\ calls' = rest /\ m_isConnected' = TRUE
        /\ UNCHANGED <<m_tryReconnect, state>>
    BY <1>3 DEF onConnect, Serve, Posted, socketVars, rest
  <2>. QED
    BY <1>0, <1>1, <2>1 DEF Uncrossed, Setter
<1>4. CASE onDisconnect
  <2>1. Head(calls) = "onDisconnect" /\ calls' = rest /\ m_isConnected' = FALSE
        /\ UNCHANGED <<m_tryReconnect, state>>
    BY <1>4 DEF onDisconnect, Serve, Posted, socketVars, rest
  <2>. QED
    BY <1>0, <1>1, <2>1 DEF Uncrossed, Setter
<1>5. CASE onError
  <2>1. Head(calls) = "onError" /\ calls' = rest /\ m_isConnected' = FALSE /\ m_tryReconnect' = TRUE
        /\ state' = state
    BY <1>5 DEF onError, Serve, Posted, socketVars, rest
  <2>2. state = "unconnected" /\ ~Has(rest, "onError")
    BY <1>0, <1>1, <2>1 DEF Uncrossed
  <2>. QED
    BY <1>0, <1>1, <2>1, <2>2 DEF Uncrossed, Setter
<1>6. CASE onNewHost
  <2>. DEFINE aborts == m_isConnected /\ state # "unconnected"
              left == IF aborts THEN "unconnected" ELSE state
              after == rest \o IF aborts /\ state = "connected" THEN <<"onDisconnect">> ELSE <<>>
  <2>1. /\ Head(calls) = "onNewHost" /\ Head(calls) \notin Setter
        /\ connectToHost(left, after) /\ UNCHANGED <<m_isConnected, m_tryReconnect>>
        /\ ~m_tryReconnect /\ left = "unconnected" /\ ~Has(after, "onError")
    BY <1>0, <1>6 DEF onNewHost, Posted, rest, Setter, Has
  <2>2. state' = "connecting" /\ calls' = after
    BY <2>1 DEF connectToHost
  <2>3. Leads(after, m_isConnected, "connecting") /\ OneError(after) /\ StartsFirst(after) /\ ~Has(after, "onConnectTo")
    <3>1. CASE aborts /\ state = "connected"
      <4>1. "onDisconnect" \in Slot /\ "onDisconnect" \in Setter
        BY DEF Slot, Setter
      <4>2. after = Append(rest, "onDisconnect")
        BY <1>1, <3>1, <4>1, AppendIsConcat
      <4>. HIDE DEF after, aborts, left
      <4>. QED
        BY <1>0, <1>1, <4>1, <4>2, PostSlot
    <3>2. CASE ~(aborts /\ state = "connected")
      <4>1. after = rest
        BY <1>1, <3>2, ConcatEmptySeq
      <4>2. state # "connected"
        BY <2>1, <3>2
      <4>. HIDE DEF after, aborts, left
      <4>. QED
        BY <1>1, <2>1, <4>1, <4>2, LeadsElsewhere
    <3>. QED
      BY <3>1, <3>2
  <2>. HIDE DEF after, aborts, left
  <2>. QED
    BY <2>1, <2>2, <2>3 DEF Uncrossed
<1>. QED
  BY <1>2, <1>3, <1>4, <1>5, <1>6 DEF Slots

LEMMA OthersFlag ==
    ConnectionType /\ FlagInv
        /\ (TimerFires \/ onTimeout \/ LeaveLoop \/ Gui \/ sendPacket \/ UNCHANGED vars) => FlagInv'
<1>. SUFFICES ASSUME ConnectionType, FlagInv,
                     TimerFires \/ onTimeout \/ LeaveLoop \/ Gui \/ sendPacket \/ UNCHANGED vars
              PROVE  FlagInv'
  OBVIOUS
<1>. USE DEF socketVars
<1>1. CASE TimerFires \/ Front \/ Write \/ PopFront \/ sendPacket \/ UNCHANGED vars
  <2>1. UNCHANGED connectionVars
    BY <1>1 DEF TimerFires, Front, Write, PopFront, sendPacket, vars
  <2>2. thread \in {"stopped", "crashed"} => thread' \in {"stopped", "crashed"}
    BY <1>1 DEF TimerFires, Front, Write, PopFront, sendPacket, LetIn, Push, TrimTest, Trim, Crash, vars
  <2>. QED
    BY <2>1, <2>2 DEF FlagInv, Uncrossed, connectionVars
<1>2. CASE Retry
  <2>0. UNCHANGED <<m_isConnected, crossed>> /\ thread = "retry"
    BY <1>2 DEF Retry
  <2>1. CASE ~m_tryReconnect
    BY <1>2, <2>0, <2>1 DEF Retry, FlagInv, Uncrossed
  <2>2. CASE m_tryReconnect
    <3>. SUFFICES ASSUME ~crossed PROVE Uncrossed'
      BY <2>0 DEF FlagInv
    <3>1. Uncrossed /\ state = "unconnected" /\ ~Has(calls, "onError") /\ ~Has(calls, "onConnectTo")
      BY <2>0, <2>2 DEF FlagInv, Uncrossed
    <3>2. m_tryReconnect' = FALSE /\ state' = "connecting" /\ calls' = calls
      BY <1>2, <2>2, <3>1 DEF Retry, connectToHost
    <3>3. Leads(calls, m_isConnected, state')
      BY <3>1, <3>2, LeadsElsewhere DEF Uncrossed
    <3>. QED
      BY <2>0, <3>1, <3>2, <3>3 DEF Uncrossed
  <2>. QED
    BY <2>1, <2>2
<1>3. CASE LeaveLoop
  BY <1>3 DEF LeaveLoop, FlagInv
<1>4. CASE Gui
  <2>0. UNCHANGED <<state, m_isConnected, m_tryReconnect, crossed, thread>>
    BY <1>4 DEF Gui
  <2>1. CASE Quit
    BY <2>0, <2>1 DEF Quit, FlagInv, Uncrossed
  <2>2. ASSUME NEW host \in Hosts, newHost(host) PROVE FlagInv'
    <3>1. "onNewHost" \in Slot /\ "onNewHost" \notin Setter
      BY DEF Slot, Setter
    <3>2. calls' = Append(calls, "onNewHost") /\ calls \in Seq(Slot) /\ m_isConnected \in BOOLEAN
      BY <2>2 DEF newHost, ConnectionType
    <3>3. /\ Leads(calls, m_isConnected, state) => Leads(calls', m_isConnected, state)
          /\ \A slot \in {"onError", "onConnectTo"} : Has(calls', slot) <=> Has(calls, slot)
          /\ OneError(calls) => OneError(calls')
          /\ StartsFirst(calls) => StartsFirst(calls')
      BY <3>1, <3>2, PostSlot
    <3>. QED
      BY <2>0, <3>3 DEF FlagInv, Uncrossed
  <2>. QED
    BY <1>4, <2>1, <2>2 DEF Gui
<1>. QED
  BY <1>1, <1>2, <1>3, <1>4 DEF onTimeout

(* The flag that lets packets in is the state of the socket once the posted slots have run, *)
(* however connections break and attempts fail, until a newHost crosses an attempt.         *)
THEOREM FlagAlwaysAgrees == Spec => []FlagAgrees
<1>1. ConnectionInv /\ FlagInv /\ [Next]_vars => FlagInv'
  BY NetworkFlag, SlotsFlag, OthersFlag DEF Next, ConnectionInv
<1>2. FlagInv => FlagAgrees
  <2>1. calls = <<>> => DOMAIN calls = {}
    OBVIOUS
  <2>. QED
    BY <2>1 DEF FlagInv, Uncrossed, Leads, FlagAgrees
<1>. QED
  BY <1>1, <1>2, InitFlag, ConnectionHolds, PTL DEF Spec
==================================================================================
