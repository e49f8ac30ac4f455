SPECIFICATION FrameSpec
CONSTANTS
    PageSize = 2
    AddressMax = 13
    MaxRegions = 2
    Offered <- MCMaps
INVARIANTS
    SomeHeldFrameReturns
PROPERTIES
    ImplementsPool
