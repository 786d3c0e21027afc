SPECIFICATION Spec
CONSTANTS
    Run = {r1, r2, r3}
    Old = {}
    Unnamed = {}
    Worker = {w1}
    Op = {"insert", "answer"}
    Text = {x}
    NoRun = NoRun
    NoAnswer = NoAnswer
    TTL = 0
    RunKeep = 1
    EventKeep = 0
    MaxEvents = 1
    MaxTime = 1
    MaxInbound = 0
PROPERTY KeptForRetention
