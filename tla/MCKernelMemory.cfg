SPECIFICATION MemorySpec
CONSTANTS
    PageSize = 1
    AddressMax = 25
    MaxRegions = 3
    Maps <- MCMaps
INVARIANTS
    FramesAccounted
    UnusedIsUnreachable
    PublishedIsWhole
    PairIsAllOrNothing
    NoReturnRefused
PROPERTIES
    CallEnds
