CONSTANTS
    InodeSize = 20
    InodeCnt = 8
    small = small
    large = large
    Disks <- SmallAndLarge
    Size <- Sizes
    BlockSize <- Blocks64
    SectorSizes = {64, 128}
    Names = {1, 2}
    MaxGrowth = 1
    Garbage <- ZeroOrOne
    Empty = Empty
    Unformatted = Unformatted
    None = None
    Careless = {}
SPECIFICATION Spec
INVARIANTS
    TypeOK
    MountedIsOnDisk
    TablesBelongToDisk
    SuperblockFits
