SPECIFICATION Spec
CONSTANTS
    begin_packet <- BeginBytes
    end_packet <- EndBytes
    type_end = 10
    MAX_SIZE = 999999999
    Documented = FALSE
    Payloads <- PacketLike
    MaxPackets = 3
    MaxBreaks = 1
INVARIANTS TypeOK Exact InOrder PassesOnlySplit EachCallTakesOne
CHECK_DEADLOCK FALSE
