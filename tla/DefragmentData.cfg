CONSTANTS
    SectorCount = 12
    InodeBlock = 3
    InodeSec = 1
    InitInodeBlockSize = 2
    InodeTableBits = 8
    Payload = 2
    Sizes = {3}
    TTLs = {0}
    MaxClock = 1
    NoInode = NoInode
    NoData = NoData
    NoBundle = NoBundle
SPECIFICATION DefragSpec
PROPERTIES
    DefragmentKeepsData
