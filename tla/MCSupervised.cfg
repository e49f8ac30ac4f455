SPECIFICATION HistorySpec
CONSTANTS
    SlotCount = 4
    GenerationMax = 1
    SequenceMax = 3
    EpochMax = 5
    Arguments <- MCArguments
INVARIANTS
    ValidateAccepts
    TypeOK
    BlockedIffRequested
PROPERTIES
    EffectNeedsApproval
    DecisionFitsShown
    ImplementsDispatcher
