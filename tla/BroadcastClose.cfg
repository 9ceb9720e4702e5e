SPECIFICATION FairSpec
CONSTANTS
    Broadcasts = {a}
    Names = {t}
    MaxChannels = 1
    MaxGoroutines = 1
    MayRemove = FALSE
    MayClose = TRUE
PROPERTY CloseFinishesAllGoroutines
CHECK_DEADLOCK FALSE
