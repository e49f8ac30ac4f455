SPECIFICATION AdmissionSpec
CONSTANTS
    MaxFiles = 3
    MaxFileBytes = 1
    MaxBytes = 3
    MaxPathBytes = 3
    MaxLines = 4
    \* The manifests are the builds'.
    Headers = {}
    Lines = {}
    MaxDepth = 2
    MaxSections = 4
    MaxTypes = 1
    MaxNames = 2
    MaxCustoms = 1
    MaxCustomBytes = 1
    ExpectedImport = "console"
    ExpectedExport = "task"
    Payloads <- MCPayloads
    Builds <- MCBuilds
    Trees <- MCTrees
INVARIANTS
    AdmittedIsOneBuild
    AcceptedSurface
CHECK_DEADLOCK FALSE
