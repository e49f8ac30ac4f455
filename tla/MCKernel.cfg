SPECIFICATION KernelSpec
CONSTANTS
    Roots = {0, 10, 20, 30}
    Recovery = 99
INVARIANTS
    FailsOnlyForCause
    UserRunsInOwnSpace
PROPERTIES
    ExitReleasesSpace
