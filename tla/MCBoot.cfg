SPECIFICATION BootSpec
CONSTANTS
    PageSize = 4
    AddressMax = 39
    MaxRegions = 5
    MinLoadAddress = 4
    MaxSegments = 2
    MaxImageSize = 12
    Memories <- MCMemories
    Images <- MCImages
    Displays <- MCDisplays
INVARIANTS
    LoadedWhole
    KernelAcceptsLoader
    ManagedIsSpare
    HaltsOnlyForCause
