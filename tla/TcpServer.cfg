SPECIFICATION ServerSpec
CONSTANTS
    Ports = {1443, 1444, 80}
    Taken = {80}
    NoPort = 0
    Connections = {c1, c2, c3}
    MaxBinds = 2
    MaxPackets = 2
INVARIANTS SocketsAreConnections ListensOnLast
CHECK_DEADLOCK FALSE
