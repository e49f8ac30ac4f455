SPECIFICATION MCSpec
CONSTANTS
    PageSize = 2
    AddressMax = 11
    MaxRegions = 4
INVARIANTS
    NormalizedFaithful
    RejectsOnlyForCause
