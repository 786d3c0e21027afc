SPECIFICATION PSpec
CONSTANTS
    Call = {c1, c2}
    Body <- Bodies
    Size <- Sizes
    Length <- Lengths
    NoLength = NoLength
    BadLength = BadLength
    MaxBody = 2
    RawMaxWait <- RawMaxWaits
    Unset = Unset
    Garbled = Garbled
    DefaultMaxWait = 1
    AbsoluteMaxWait = 2
    Asked <- Asks
    Unit = 3
    PollTicks = 2
    None = None
SYMMETRY Symmetry
CHECK_DEADLOCK FALSE
INVARIANT PathTypeOK WholeAnswers TextFirstUsable WaitBounded Prompt
PROPERTY LimitExact PendingWhenOver
