CONSTANTS
    SectorCount = 8
    InodeBlock = 3
    InodeSec = 1
    InitInodeBlockSize = 1
    InodeTableBits = 8
    Payload = 2
    Sizes = {2, 3}
    TTLs = {0}
    MaxClock = 1
    NoInode = NoInode
    Uncut = {"inodes", "inode_block_size"}
SPECIFICATION PowerSpec
INVARIANTS
    KeptBundlesSurvive
    RecoveredIsConsistent
PROPERTIES
    CallsAreWhole
