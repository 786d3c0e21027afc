SPECIFICATION PSpec
CONSTANTS
    Call = {c1}
    Body <- Bodies
    Size = {1}
    Length = {NoLength}
    NoLength = NoLength
    BadLength = BadLength
    MaxBody = 2
    RawMaxWait <- RawMaxWaits
    Unset = Unset
    Garbled = Garbled
    DefaultMaxWait = 1
    AbsoluteMaxWait = 2
    Asked <- Asks
    Unit = 3
    PollTicks = 2
    None = None
CHECK_DEADLOCK FALSE
INVARIANT FirstPresentTold
