--------------------------------- MODULE TcpServer ---------------------------------
(***************************************************************************)
(* tcpserver (tcpserver.cpp), with what it uses of a tcpsocket that has    *)
(* been given a connection (setSocket, sendPacket, abort).  The threads    *)
(* are the caller of setBindPort and the destructor, and the server's own, *)
(* where its slots run (it is taken to be moved to its thread as           *)
(* MainWindow moves the others; no code of the repository creates one).    *)
(*                                                                         *)
(* QTcpServer and QTcpSocket are external: listen fails while it listens   *)
(* or when the port is taken, and a connection that ends emits             *)
(* disconnected, after error if it ends with one; each posts onDisconnect  *)
(* (onError does nothing else), in any order with those of others.         *)
(***************************************************************************)
EXTENDS Integers, FiniteSets

CONSTANTS
    Ports, Taken,   \* the ports a caller may bind, and those of other programs
    NoPort,
    Connections,    \* the connections that may come
    MaxBinds,       \* bound: calls of setBindPort
    MaxPackets      \* bound: packets given to sendPacket, fewer than m_max_packets

ASSUME TcpServerAssumption ==
    Taken \subseteq Ports /\ NoPort \notin Ports /\ MaxBinds \in Nat /\ MaxPackets \in Nat

VARIABLES
    m_bindPort,
    caller, binds,      \* where the caller is, and the calls it has made
    loop, argument,     \* where the server's thread is, and the port it has read
    listening,          \* external: the port m_tcpserver listens on, or NoPort
    missed,             \* history: run listened on an older port after setBindPort had looked
    state,              \* external: the connections
    posted,             \* calls of onDisconnect posted for each
    m_sockets,          \* the connections of the entries
    packets,            \* packets given to sendPacket
    since, given        \* history: that number when each was accepted, and what it was given

portVars == <<m_bindPort, caller, binds, argument, missed>>
connectionVars == <<state, posted, m_sockets, packets, since, given>>
serverVars == <<portVars, loop, listening, connectionVars>>

ServerInit ==
    /\ m_bindPort \in Ports         \* 1443
    /\ caller = "idle" /\ binds = 0
    /\ loop = "new" /\ argument = NoPort /\ listening = NoPort /\ missed = FALSE
    /\ state = [c \in Connections |-> "none"] /\ posted = [c \in Connections |-> 0]
    /\ m_sockets = {} /\ packets = 0
    /\ since = [c \in Connections |-> 0] /\ given = [c \in Connections |-> {}]

-----------------------------------------------------------------------------
(* setBindPort sets the port, closes the server if it listens, and calls the slot in place. *)

SetPort(port) ==
    /\ caller = "idle" /\ binds < MaxBinds
    /\ m_bindPort' = port /\ caller' = "look" /\ binds' = binds + 1 /\ missed' = FALSE
    /\ UNCHANGED <<loop, argument, listening>>

(* Mutant: a server that listens is left alone. *)
CloseListening_Never ==
    /\ caller = "look" /\ caller' = "listen"
    /\ UNCHANGED <<m_bindPort, binds, missed, loop, argument, listening>>

CloseListening ==
    /\ caller = "look" /\ caller' = "listen"
    /\ listening' = NoPort
    /\ UNCHANGED <<m_bindPort, binds, missed, loop, argument>>

listen(port) == listening' = IF listening = NoPort /\ port \notin Taken THEN port ELSE listening

(* There may be no m_tcpserver yet. *)
onChangeBindPort ==
    /\ caller = "listen" /\ caller' = "idle"
    /\ IF loop = "new" THEN UNCHANGED listening ELSE listen(m_bindPort)
    /\ UNCHANGED <<m_bindPort, binds, missed, loop, argument>>

(* ~tcpserver: quit(), and the loop ends. *)
Destroy ==
    /\ caller = "idle" /\ caller' = "destroy"
    /\ UNCHANGED <<m_bindPort, binds, missed, loop, argument, listening>>

-----------------------------------------------------------------------------
(* run: the server is made, the port is read, it listens, and the loop begins. *)

Make ==
    /\ loop = "new" /\ loop' = "made"
    /\ UNCHANGED <<m_bindPort, caller, binds, missed, argument, listening>>

ReadPort ==
    /\ loop = "made" /\ loop' = "listen" /\ argument' = m_bindPort
    /\ UNCHANGED <<m_bindPort, caller, binds, missed, listening>>

Listen ==
    /\ loop = "listen" /\ loop' = "exec"
    /\ listen(argument)
    /\ missed' = (argument # m_bindPort /\ listening # listening' /\ caller # "look")
    /\ UNCHANGED <<m_bindPort, caller, binds, argument>>

(* The calls of abort after exec() are posted to a loop that has ended: nothing comes of them. *)
Stop ==
    /\ loop = "exec" /\ caller = "destroy" /\ loop' = "stopped"
    /\ listening' = NoPort
    /\ UNCHANGED <<m_bindPort, caller, binds, missed, argument>>

Porting ==
    /\ \/ \E port \in Ports : SetPort(port)
       \/ CloseListening \/ onChangeBindPort \/ Destroy
       \/ Make \/ ReadPort \/ Listen \/ Stop
    /\ UNCHANGED connectionVars

-----------------------------------------------------------------------------
(* The connections *)

(* A client connects, and setSocket makes the entry connected. *)
onNewConnection(c) ==
    /\ listening # NoPort /\ state[c] = "none"
    /\ state' = [state EXCEPT ![c] = "open"]
    /\ m_sockets' = m_sockets \cup {c}
    /\ since' = [since EXCEPT ![c] = packets]
    /\ UNCHANGED <<posted, packets, given>>

(* External: it ends, with an error or without; the tcpsocket's own slots, called in *)
(* place, clear its m_isConnected.                                                   *)
Ends(c) ==
    /\ state[c] = "open" /\ state' = [state EXCEPT ![c] = "closed"]
    /\ \E times \in 1 .. 2 : posted' = [posted EXCEPT ![c] = times]
    /\ UNCHANGED <<m_sockets, packets, since, given>>

(* onCloseSocket: of the second call for a connection there is no entry any more. *)
(* Mutant: the first entry is taken out then.                                     *)
Without_First(c) ==
    m_sockets \ {IF c \in m_sockets \/ m_sockets = {} THEN c ELSE CHOOSE d \in m_sockets : TRUE}

Without(c) == m_sockets \ {c}

onDisconnect(c) ==
    /\ posted[c] > 0 /\ posted' = [posted EXCEPT ![c] = @ - 1]
    /\ m_sockets' = Without(c)
    /\ UNCHANGED <<state, packets, since, given>>

(* sendPacket, and that of the entries, which take nothing unless they are connected. *)
sendPacket ==
    /\ packets < MaxPackets /\ packets' = packets + 1
    /\ given' = [c \in Connections |->
                    IF c \in m_sockets /\ state[c] = "open" THEN given[c] \cup {packets'} ELSE given[c]]
    /\ UNCHANGED <<state, posted, m_sockets, since>>

Serving ==
    /\ loop = "exec"
    /\ (\E c \in Connections : onNewConnection(c) \/ Ends(c) \/ onDisconnect(c)) \/ sendPacket
    /\ UNCHANGED <<portVars, loop, listening>>

ServerNext == Porting \/ Serving
ServerSpec == ServerInit /\ [][ServerNext]_serverVars

-----------------------------------------------------------------------------
(* The entries are the open connections, and closed ones of which onDisconnect is still *)
(* to come (each may come twice); an open one has been given every packet since it was  *)
(* accepted, and no other.                                                              *)
SocketsAreConnections ==
    \A c \in Connections :
        /\ state[c] = "open" => c \in m_sockets /\ given[c] = since[c] + 1 .. packets
        /\ c \in m_sockets => state[c] = "open" \/ posted[c] > 0

(* Between calls of setBindPort the server that has started listens on the port of the *)
(* last one, or on none if another program has it, unless run listened on the port     *)
(* before it after setBindPort had found nothing to close.                             *)
ListensOnLast ==
    loop = "exec" /\ caller \in {"idle", "destroy"} /\ ~missed
        => listening = IF m_bindPort \in Taken THEN NoPort ELSE m_bindPort
=============================================================================
