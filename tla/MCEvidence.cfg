SPECIFICATION Spec
CONSTANTS
    Families <- MCFamilies
    MaxOperand = 4
    MaxStack = 3
    MaxMemo = 2
    MaxLines = 1
    MaxSize = 9
    PartLists <- MCPartLists
    Chunk = 2
    MaxFullScan = 5
    HeadTail = 4
    MaxStream = 4
    MaxMembers = 2
    MaxMemberBytes = 5
INVARIANTS  NoSilentGap
CHECK_DEADLOCK FALSE
