SPECIFICATION FairSpec
CONSTANTS
    Run = {r1}
    Old = {r1}
    Unnamed = {r1}
    Worker = {w1}
    Op = {"prune"}
    Text = {x}
    NoRun = NoRun
    NoAnswer = NoAnswer
    TTL = 1
    RunKeep = 1
    EventKeep = 0
    MaxEvents = 1
    MaxTime = 3
    MaxInbound = 0
PROPERTY EveryStaleRunEnds
