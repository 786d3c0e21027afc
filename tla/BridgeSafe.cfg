SPECIFICATION Spec
CONSTANTS
    Run = {r1}
    Answer = {x}
    NoAnswer = NoAnswer
    AnswersFor <- AnyAnswer
    Task = {t1, t2}
    Handler = {h1, h2}
    HandlerOp = {"callback", "cancel", "list", "cleanup"}
    Configured = {TRUE, FALSE}
SYMMETRY Symmetry
INVARIANT TypeOK WaitersExact WakeupPending ClientsAgree
PROPERTY DecisionNotMissed
