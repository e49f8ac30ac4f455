SPECIFICATION HistorySpec
CONSTANTS
    SlotCount = 4
    GenerationMax = 1
    SequenceMax = 2
    EpochMax = 4
    Arguments <- MCArguments
PROPERTIES
    ExitedTaskBecomesDead
