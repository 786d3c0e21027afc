SPECIFICATION Spec
CONSTANTS
    Run = {r1, r2, r3}
    Old = {}
    Unnamed = {}
    Worker = {w1, w2}
    Op = {"insert", "answer", "cancel", "resolve", "event"}
    Text = {x}
    NoRun = NoRun
    NoAnswer = NoAnswer
    TTL = 1
    RunKeep = 0
    EventKeep = 0
    MaxEvents = 1
    MaxTime = 0
    MaxInbound = 2
SYMMETRY RunSymmetry
INVARIANT AnswerBelongsToRun ReportsAgree
PROPERTY DeletionJustified ImplementsLifecycle
