SPECIFICATION JournaledSpec
CONSTANTS
    SlotCount = 4
    GenerationMax = 1
    SequenceMax = 2
    EpochMax = 7
    Capacity = 5
    Arguments <- MCOneArgument
    Triplets <- MCLastTriplets
PROPERTIES
    ImplementsLedger
    RecordReadsAreStable
    ImplementsDispatcher
