SPECIFICATION Spec
CONSTANTS
    Key = {k1}
    Local = Local
    NoKey = NoKey
    Window = 2
    Unit = 2
    DefaultLimit = 2
    Unset = Unset
    Garbled = Garbled
    RawLimit <- RawLimits
    MaxTime = 8
INVARIANT TypeOK WindowRespected RetryExact
PROPERTY RefusedAtLimit
