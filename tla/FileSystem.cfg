CONSTANTS
    SectorCount = 8
    InodeBlock = 3
    InodeSec = 2
    InitInodeBlockSize = 1
    InodeTableBits = 8
    Payload = 2
    Sizes = {1, 2, 3}
    TTLs = {0, 1}
    MaxClock = 1
    NoInode = NoInode
SPECIFICATION Spec
INVARIANTS
    TypeOK
    LiveSectorsMarked
    NoLeakedSector
    ExtentsDisjoint
    InodeTableSuffices
PROPERTIES
    ImplementsBundleStore
