CONSTANTS
    Block = 6
    LenBytes = 2
    DIGEST_LEN = 3
    MaxKey = 6
    MaxMessage = 9
    MaxDigests = 2
    MaxBlocks = 3
    StreamBlock = 3
    CounterMod = 3
    Pieces = {0, 1, 2, 4, 7}
    MaxStream = 11
    Width = 4
    Words = 5
    Middle = 3
    MatA = 9
    MaskB = 13
    MaskC = 14
    Factor = 5
    ShiftU = 2
    ShiftS = 1
    ShiftT = 2
    ShiftL = 3
    Seeds = {0, 11}
    BufSizes = {0, 1, 4, 6}
    MaxWords = 13
    AesKeys <- MCAesKeys
    AesBlocks <- MCAesBlocks
    Vectors <- MCVectors
SPECIFICATION Spec
INVARIANTS HashOfMessage
CHECK_DEADLOCK FALSE
