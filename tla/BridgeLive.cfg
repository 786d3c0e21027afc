SPECIFICATION EventSpec
CONSTANTS
    Run = {r1}
    Answer = {x}
    NoAnswer = NoAnswer
    AnswersFor <- AnyAnswer
    Task = {t1, t2}
    Handler = {h1}
    HandlerOp = {"callback", "cleanup"}
    Configured = {TRUE, FALSE}
PROPERTY EveryCallReturns AnswerWakes
