CONSTANTS
    Payload = 3
    Files <- OneFilled
    MaxCorruptions = 1
    MaxVersions = 2
    NoWrite = NoWrite
SPECIFICATION Spec
INVARIANTS
    ReadReturnsWritten
