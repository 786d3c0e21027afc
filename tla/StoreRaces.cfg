SPECIFICATION Spec
CONSTANTS
    Run = {r1}
    Old = {}
    Unnamed = {}
    Worker = {w1, w2}
    Op = {"insert", "upstream", "get", "answer", "cancel", "resolve", "list", "prune"}
    Text = {x, y}
    NoRun = NoRun
    NoAnswer = NoAnswer
    TTL = 1
    RunKeep = 1
    EventKeep = 0
    MaxEvents = 1
    MaxTime = 3
    MaxInbound = 0
SYMMETRY Symmetry
INVARIANT TypeOK ExpiredPastTTL StampsConsistent ReportsAgree OneWinner LoserFindsDecision
PROPERTY DecisionIsFinal PendingIsHonest
