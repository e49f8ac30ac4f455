SPECIFICATION ManifestSpec
CONSTANTS
    MaxFiles = 3
    MaxFileBytes = 2
    MaxBytes = 4
    MaxPathBytes = 3
    MaxLines = 3
    Headers <- MCHeaders
    Lines <- MCLines
INVARIANT NoPathIsAnotherPrefix
CHECK_DEADLOCK FALSE
