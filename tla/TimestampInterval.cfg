SPECIFICATION Spec
CONSTANTS
    Messages = {m}
    CacheDuration = 2
    PastDuration = 2
    AdvanceDuration = 1
    Fractions = 2
    MaxSecond = 5
INVARIANT ProcessedInStatedInterval
CHECK_DEADLOCK FALSE
