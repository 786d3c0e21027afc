SPECIFICATION HFairSpec
CONSTANTS
    Run = {}
    Old = {}
    Unnamed = {}
    Worker = {q1, q2, cleaner}
    Req = {q1, q2}
    Cleaner = cleaner
    Op = {"prune"}
    Text = {x}
    NoRun = NoRun
    NoAnswer = NoAnswer
    TTL = 1
    RunKeep = 1
    EventKeep = 1
    MaxEvents = 1
    MaxTime = 2
    MaxInbound = 2
    Message <- Messages
    SecretSet = TRUE
    Tolerance = 1
    BadStamp = BadStamp
    AllowHttp = FALSE
    AllowedHosts <- Hosts
    OwnHosts = {"own"}
    NoHost = NoHost
    Global = {"public1", "public2"}
    Lookups <- Answers
    Literal <- Literals
    Nil = Nil
INVARIANT EventIdsUnique ToldTruthfully ConfirmsOwnEvent ConnectsInspected
PROPERTY EventsKept EveryDeliveryEnds
