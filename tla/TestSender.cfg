SPECIFICATION LiveSpec
CONSTANTS
    Names = {"test.bin", "b"}
    NoName = ""
    DefaultName = "test.bin"
    Images <- OneAndTwoCells
    MAX_SIZE = 2
    MaxRecords = 2
    MaxPlays = 2
    MaxKills = 1
INVARIANTS TypeOK PlaysRecords HangsOnlyOnBroken
PROPERTIES ClosesAtEnd GuiReturns
CHECK_DEADLOCK FALSE
