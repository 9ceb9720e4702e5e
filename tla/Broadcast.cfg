SPECIFICATION FairSpec
CONSTANTS
    Broadcasts = {a, b}
    Names = {t}
    MaxChannels = 2
    MaxGoroutines = 1
    MayRemove = TRUE
    MayClose = TRUE
INVARIANTS PipelineInv MessagesConserved
PROPERTIES EveryBroadcastFinishes CloseFinishesGoroutines
CHECK_DEADLOCK FALSE
