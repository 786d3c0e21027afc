SPECIFICATION FairSpec
CONSTANTS
    Run = {r1, r2}
    Old = {r2}
    Unnamed = {r2}
    Worker = {w1, w2}
    Op = {"insert", "prune"}
    Text = {x}
    NoRun = NoRun
    NoAnswer = NoAnswer
    TTL = 1
    RunKeep = 1
    EventKeep = 0
    MaxEvents = 1
    MaxTime = 4
    MaxInbound = 0
INVARIANT StampsConsistent
PROPERTY DeletionJustified StaleRunsEnd DecidedRunsLeave
