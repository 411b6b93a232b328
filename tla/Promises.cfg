SPECIFICATION PromisesSpec
CONSTANTS
    THOUSAND = 3
    MAX_UL = 15
    StdOffset = 28800
    DstBegin <- MCDstBegin
    DstEnd <- MCDstEnd
    BYTE = 2
    WORD = 4
    INT_BITS = 6
    UINT_BITS = 6
    PORT_BITS = 3
    PosLenOfField <- MCFields
    Sections = {s1, s2}
    Keys = {k}
    Values = {v1, v2}
    NONE = NONE
    Movers = {p1, p2}
    Source <- MCSource
    Target <- MCTarget
    Number <- MCNumber
    Chunks <- MCChunks
    Content <- MCContent
    Old <- MCOld
    ABSENT = ABSENT
    TORN = TORN
    MaxInode = 3
    Moments1 <- MCMoments
    MaxSec = 18
    Times <- MCTimes
    Steps <- MCSteps
    Sizes = {0, 3, 4, 6}
    Numbers <- MCNumbers
    Characters = {":", "*", " ", "1", "-"}
    MaxText = 5
    IniLines <- MCIniLines
    MaxLines = 5
    Entries <- MCEntries
    MaxEntries = 3
    Threads = {t1, t2}
    Levels = {0, 1}
    Texts <- MCTexts
    FileSizes = {1, 2}
    MY_LOG_SIZE = 2
    Pids = {i1, i2}
    LastDay = 1
    MaxRecords = 2
    MaxFailed = 1
    MaxSets = 0
    MaxProcesses = 1
INVARIANTS
    SomePromiseIsKept
CHECK_DEADLOCK FALSE
