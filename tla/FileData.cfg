CONSTANTS
    Payload = 3
    Files <- PartlyFilled
    MaxCorruptions = 1
    MaxVersions = 2
    NoWrite = NoWrite
SPECIFICATION Spec
INVARIANTS
    ReadReturnsWritten
    SectorsAreWhole
    CorruptionIsNoticed
