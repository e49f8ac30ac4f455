SPECIFICATION JournaledSpec
CONSTANTS
    SlotCount = 4
    GenerationMax = 1
    SequenceMax = 3
    EpochMax = 9
    Capacity = 7
    Arguments <- MCArguments
    Triplets <- MCTriplets
INVARIANTS
    JournaledValidateAccepts
    EveryTransitionRecorded
    RecordsTellLifecycles
PROPERTIES
    RecordsAttributed
    WokenWithRecordedOutcome
