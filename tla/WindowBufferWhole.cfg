CONSTANTS
    TableSectors = 1
    BufferSectors = 2
    SectorBits = 8
    ByteBits = 2
    CallsOnWhole = TRUE
SPECIFICATION Spec
INVARIANTS
    TableIsWhatWasAsked
    WindowShowsItsSectors
