------------------------------ MODULE TcpSocket ------------------------------
(***************************************************************************)
(* tcpsocket (tcpsocket.cpp) as a client: the connection that it makes     *)
(* again whenever it breaks, and the packets that other threads give it to *)
(* send.  The threads are gui (newHost, the destructor), app (a caller of  *)
(* sendPacket) and the tcpsocket's own, which runs its slots one at a time *)
(* from the queue of posted calls, and onTimeout every 10 ms.              *)
(*                                                                         *)
(* The QTcpSocket is external.  It emits error when an attempt fails,      *)
(* error and disconnected when the peer closes, disconnected on abort, and *)
(* error (OperationError) when connectToHost finds it not unconnected;     *)
(* the slots of these signals are queued.  Slots and timer events may come *)
(* in any order, posted calls only in theirs.                              *)
(***************************************************************************)
EXTENDS Integers, Sequences, FiniteSets

CONSTANTS
    Hosts,          \* the hosts the user may name
    m_max_packets,  \* 30
    MaxNewHosts,    \* bound: calls of newHost
    MaxFailures,    \* bound: attempts that fail and connections that break
    MaxPackets      \* bound: packets sent

ASSUME TcpSocketAssumption ==
    /\ Hosts # {} /\ m_max_packets \in Nat
    /\ MaxNewHosts \in Nat /\ MaxFailures \in Nat /\ MaxPackets \in Nat

VARIABLES
    state, peer,      \* external: the QTcpSocket, and the host it is connected to or connecting to
    calls,            \* the slots that are posted
    m_ConnectingHost,
    m_isConnected, m_tryReconnect,
    quitting,
    newHosts, failures,
    crossed,          \* history: newHost came while a connection was being made again
    m_packets,
    thread, pkt,      \* where the thread is, and the packet it is writing
    app,              \* where sendPacket is
    accepted,         \* history: packets queued
    written, unsent,  \* history: packets written, those of them to no connection
    trimmed, skipped, \* history: packets sendPacket and writeNextPacket removed unwritten
    trims,            \* history: packets sendPacket removed
    drained           \* history: packets writeNextPacket removed since sendPacket found too many

socketVars == <<state, peer>>
guiVars == <<m_ConnectingHost, quitting, newHosts>>
connectionVars == <<socketVars, calls, m_isConnected, m_tryReconnect, guiVars, failures, crossed>>
historyVars == <<accepted, written, unsent, trimmed, skipped, trims, drained>>
queueVars == <<m_packets, pkt, app, historyVars>>
vars == <<connectionVars, thread, queueVars>>

(* connectToHost has been called, and its signal connectTo is posted. *)
Init ==
    /\ m_ConnectingHost \in Hosts
    /\ state = "unconnected" /\ peer = m_ConnectingHost
    /\ calls = <<"onConnectTo">>
    /\ m_isConnected = FALSE /\ m_tryReconnect = FALSE
    /\ quitting = FALSE /\ newHosts = 0 /\ failures = 0 /\ crossed = FALSE
    /\ thread = "loop" /\ pkt = 0 /\ m_packets = <<>>
    /\ app = "idle" /\ accepted = 0
    /\ written = <<>> /\ unsent = {}
    /\ trimmed = {} /\ skipped = {} /\ trims = 0 /\ drained = 0

-----------------------------------------------------------------------------
(* The QTcpSocket *)

(* The socket works while the thread is in the event loop or in waitForBytesWritten. *)
SocketRuns == thread \in {"loop", "write"}

Connects ==
    /\ state = "connecting" /\ state' = "connected"
    /\ calls' = Append(calls, "onConnect")
    /\ UNCHANGED failures

Breaks ==
    /\ failures < MaxFailures /\ failures' = failures + 1
    /\ state \in {"connecting", "connected"} /\ state' = "unconnected"
    /\ calls' = calls \o IF state = "connected" THEN <<"onError", "onDisconnect">> ELSE <<"onError">>

Network ==
    /\ SocketRuns
    /\ Connects \/ Breaks
    /\ UNCHANGED <<peer, m_isConnected, m_tryReconnect, guiVars, crossed, thread, queueVars>>

(* m_socket->connectToHost, with the calls that are still posted. *)
connectToHost(from, posted) ==
    IF from = "unconnected"
    THEN state' = "connecting" /\ peer' = m_ConnectingHost /\ calls' = posted
    ELSE state' = from /\ calls' = Append(posted, "onError") /\ UNCHANGED peer

-----------------------------------------------------------------------------
(* The slots *)

Posted(slot) == calls # <<>> /\ Head(calls) = slot
Serve(slot) == Posted(slot) /\ calls' = Tail(calls) /\ UNCHANGED <<socketVars, crossed>>

onConnectTo ==
    /\ Posted("onConnectTo") /\ connectToHost(state, Tail(calls))
    /\ UNCHANGED <<m_isConnected, m_tryReconnect, crossed>>

onConnect == Serve("onConnect") /\ m_isConnected' = TRUE /\ UNCHANGED m_tryReconnect

(* Mutant: a connection that was closed is made again here too. *)
onDisconnect_Reconnects == Serve("onDisconnect") /\ m_isConnected' = FALSE /\ m_tryReconnect' = TRUE

onDisconnect == Serve("onDisconnect") /\ m_isConnected' = FALSE /\ UNCHANGED m_tryReconnect

(* Mutant: the connection is not made again. *)
onError_GivesUp == Serve("onError") /\ m_isConnected' = FALSE /\ UNCHANGED m_tryReconnect

onError == Serve("onError") /\ m_isConnected' = FALSE /\ m_tryReconnect' = TRUE

(* The slot aborts the connection if it believes in one, and connects.  The *)
(* attempt crosses another if there is one, or one is due.                  *)
onNewHost ==
    /\ Posted("onNewHost")
    /\ LET aborts == m_isConnected /\ state # "unconnected"
           left == IF aborts THEN "unconnected" ELSE state
           posted == Tail(calls) \o IF aborts /\ state = "connected" THEN <<"onDisconnect">> ELSE <<>>
       IN /\ connectToHost(left, posted)
          /\ crossed' = \/ crossed \/ m_tryReconnect \/ left # "unconnected"
                        \/ \E k \in DOMAIN posted : posted[k] = "onError"
    /\ UNCHANGED <<m_isConnected, m_tryReconnect>>

Slots ==
    /\ thread = "loop"
    /\ onConnectTo \/ onConnect \/ onDisconnect \/ onError \/ onNewHost
    /\ UNCHANGED <<guiVars, failures, thread, queueVars>>

-----------------------------------------------------------------------------
(* onTimeout *)

(* The conditions of writeNextPacket, outside the lock.  isOpen() is not known of a *)
(* socket whose peer has closed.                                                    *)
TimerFires ==
    /\ thread = "loop"
    /\ \/ m_isConnected /\ m_packets # <<>> /\ thread' = "front"
       \/ (~m_isConnected \/ m_packets = <<>> \/ state = "unconnected") /\ thread' = "retry"
    /\ UNCHANGED <<connectionVars, queueVars>>

(* front or pop_front of an empty QList is undefined; here it ends the program. *)
Crash == thread' = "crashed" /\ app' = "crashed"

(* The packet to write is copied, outside the lock too. *)
Front ==
    /\ thread = "front"
    /\ IF m_packets = <<>> THEN Crash /\ UNCHANGED pkt
       ELSE thread' = "write" /\ pkt' = Head(m_packets) /\ UNCHANGED app
    /\ UNCHANGED <<connectionVars, m_packets, historyVars>>

(* write() and waitForBytesWritten(), which waits for a connection being made. *)
Write ==
    /\ thread = "write" /\ thread' = "pop" /\ state # "connecting"
    /\ written' = Append(written, pkt)
    /\ unsent' = IF state = "connected" THEN unsent ELSE unsent \cup {pkt}
    /\ UNCHANGED <<connectionVars, m_packets, pkt, app, accepted, trimmed, skipped, trims, drained>>

Removed == IF Head(m_packets) = pkt THEN {} ELSE {Head(m_packets)}

(* The front is removed, whichever packet it is by now. *)
PopFront ==
    /\ thread = "pop" /\ pkt' = 0
    /\ IF m_packets = <<>> THEN Crash /\ UNCHANGED <<m_packets, skipped, drained>>
       ELSE /\ m_packets' = Tail(m_packets)
            /\ skipped' = skipped \cup Removed /\ drained' = drained + 1
            /\ thread' = "retry" /\ UNCHANGED app
    /\ UNCHANGED <<connectionVars, accepted, written, unsent, trimmed, trims>>

(* if(m_tryReconnect) *)
Retry ==
    /\ thread = "retry" /\ thread' = "loop"
    /\ IF m_tryReconnect THEN m_tryReconnect' = FALSE /\ connectToHost(state, calls)
       ELSE UNCHANGED <<socketVars, calls, m_tryReconnect>>
    /\ UNCHANGED <<m_isConnected, guiVars, failures, crossed, queueVars>>

onTimeout == Front \/ Write \/ PopFront \/ Retry

(* exec() returns, and run() aborts and deletes the socket. *)
LeaveLoop ==
    /\ thread = "loop" /\ quitting
    /\ thread' = "stopped" /\ state' = "unconnected" /\ calls' = <<>>
    /\ UNCHANGED <<peer, m_isConnected, m_tryReconnect, guiVars, failures, crossed, queueVars>>

-----------------------------------------------------------------------------
(* gui *)

newHost(host) ==
    /\ newHosts < MaxNewHosts /\ newHosts' = newHosts + 1
    /\ m_ConnectingHost' = host
    /\ calls' = Append(calls, "onNewHost")
    /\ UNCHANGED quitting

Quit == quitting' = TRUE /\ UNCHANGED <<calls, m_ConnectingHost, newHosts>>

Gui ==
    /\ ~quitting
    /\ (\E host \in Hosts : newHost(host)) \/ Quit
    /\ UNCHANGED <<socketVars, m_isConnected, m_tryReconnect, failures, crossed, thread, queueVars>>

-----------------------------------------------------------------------------
(* app: sendPacket *)

(* if(!m_isConnected), of a flag that the other thread may clear before the push. *)
LetIn ==
    /\ app = "idle" /\ m_isConnected /\ accepted < MaxPackets /\ app' = "push"
    /\ UNCHANGED <<thread, m_packets, accepted, trimmed, trims, drained>>

Push ==
    /\ app = "push" /\ app' = "test"
    /\ accepted' = accepted + 1
    /\ m_packets' = Append(m_packets, accepted')
    /\ UNCHANGED <<thread, trimmed, trims, drained>>

(* Mutants: one packet more is let in; the limit is half of what it is. *)
TooMany_OneMore == Len(m_packets) > m_max_packets + 1
TooMany_Low == Len(m_packets) > m_max_packets \div 2

(* while(m_packets.size() > m_max_packets), outside the lock. *)
TooMany == Len(m_packets) > m_max_packets

TrimTest ==
    /\ app = "test"
    /\ IF TooMany THEN app' = "trim" /\ drained' = 0 ELSE app' = "idle" /\ UNCHANGED drained
    /\ UNCHANGED <<thread, m_packets, accepted, trimmed, trims>>

Trim ==
    /\ app = "trim"
    /\ IF m_packets = <<>> THEN Crash /\ UNCHANGED <<m_packets, trimmed, trims>>
       ELSE /\ m_packets' = Tail(m_packets)
            /\ trimmed' = trimmed \cup Removed /\ trims' = trims + 1
            /\ app' = "test" /\ UNCHANGED thread
    /\ UNCHANGED <<accepted, drained>>

sendPacket ==
    /\ LetIn \/ Push \/ TrimTest \/ Trim
    /\ UNCHANGED <<connectionVars, pkt, written, unsent, skipped>>

Next == Network \/ Slots \/ TimerFires \/ onTimeout \/ LeaveLoop \/ Gui \/ sendPacket

Spec == Init /\ [][Next]_vars

(* The event loop serves the posted calls, the timer and the socket in turn, each *)
(* of which a handler of another disables; an attempt that does not fail succeeds. *)
LiveSpec ==
    /\ Spec
    /\ SF_vars(Network /\ state' = "connected") /\ SF_vars(Slots) /\ SF_vars(TimerFires)
    /\ WF_vars(onTimeout)

-----------------------------------------------------------------------------
TypeOK ==
    /\ state \in {"unconnected", "connecting", "connected"} /\ peer \in Hosts
    /\ calls \in Seq({"onConnectTo", "onConnect", "onDisconnect", "onError", "onNewHost"})
    /\ m_ConnectingHost \in Hosts
    /\ m_isConnected \in BOOLEAN /\ m_tryReconnect \in BOOLEAN /\ quitting \in BOOLEAN
    /\ newHosts \in 0 .. MaxNewHosts /\ failures \in 0 .. MaxFailures /\ crossed \in BOOLEAN
    /\ thread \in {"loop", "front", "write", "pop", "retry", "stopped", "crashed"}
    /\ accepted \in 0 .. MaxPackets /\ pkt \in 0 .. accepted /\ app \in {"idle", "push", "test", "trim", "crashed"}
    /\ m_packets \in Seq(1 .. accepted) /\ Len(m_packets) <= m_max_packets + 1
    /\ written \in Seq(1 .. accepted)
    /\ unsent \cup trimmed \cup skipped \subseteq 1 .. accepted
    /\ trims \in Nat /\ drained \in Nat

(* Once the posted slots have run, the flag that lets packets in and that MainWindow *)
(* shows is the state of the socket, however connections broke and attempts failed:  *)
(* onError and the timer never make a connection that is there.  Only a newHost that *)
(* came while a connection was being made again makes them do that.                  *)
FlagAgrees ==
    calls = <<>> /\ thread \notin {"stopped", "crashed"} /\ ~crossed =>
        (m_isConnected <=> state = "connected")

(* ... and the tcpsocket ends up connected to the host that was named last, for good, *)
(* when attempts stop failing and connections stop breaking.                          *)
Settled == state = "connected" /\ peer = m_ConnectingHost /\ m_isConnected
Reconnected == <>[](Settled \/ crossed \/ quitting \/ thread = "crashed")

(* Packets are written in the order of sendPacket and once; what was accepted is      *)
(* queued, written or removed; no more are removed unwritten than sendPacket found to *)
(* be too many, although both threads remove a front they looked at outside the lock; *)
(* and an empty list is read or popped only when writeNextPacket removed as many      *)
(* packets as the list may hold between sendPacket's test of the size and its pop.    *)
InQueue == {m_packets[k] : k \in DOMAIN m_packets}
Written == {written[k] : k \in DOMAIN written}
LossAccounted ==
    /\ \A j, k \in DOMAIN written : j < k => written[j] < written[k]
    /\ 1 .. accepted = InQueue \cup Written \cup trimmed \cup skipped \cup ({pkt} \ {0})
    /\ Cardinality(trimmed \cup skipped) <= trims
    /\ unsent # {} => failures + newHosts > 0
    /\ thread = "crashed" => drained >= m_max_packets
=============================================================================
