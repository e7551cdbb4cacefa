SPECIFICATION Spec
CONSTANTS
    begin_packet <- BeginBytes
    end_packet <- EndBytes
    type_end = 10
    MAX_SIZE = 999999999
    Documented = TRUE
    Payloads <- PacketLike
    MaxPackets = 2
    MaxBreaks = 0
INVARIANT EachCallTakesOne
CHECK_DEADLOCK FALSE
