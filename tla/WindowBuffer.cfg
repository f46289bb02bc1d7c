CONSTANTS
    TableSectors = 3
    BufferSectors = 1
    SectorBits = 4
    ByteBits = 2
    CallsOnWhole = FALSE
SPECIFICATION Spec
INVARIANTS
    TypeOK
    TableIsWhatWasAsked
    WindowShowsItsSectors
    FindIsFirstFit
    CheckIsExact
    SlotsAreFound
    InodesHaveRoom
