CONSTANTS
    ByteBits = 3
    TableBytes = 3
SPECIFICATION Spec
INVARIANTS
    BytesAreTheTable
    CheckSeqIsExact
    FindSeqIsFirstFit
    EndLengthIsTail
    MaxSequenceIsLongest
