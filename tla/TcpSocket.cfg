SPECIFICATION LiveSpec
CONSTANTS
    Hosts = {"first", "second"}
    m_max_packets = 2
    MaxNewHosts = 1
    MaxFailures = 1
    MaxPackets = 4
INVARIANTS TypeOK FlagAgrees LossAccounted
PROPERTY Reconnected
CHECK_DEADLOCK FALSE
