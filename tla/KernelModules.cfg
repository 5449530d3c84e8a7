CONSTANTS
    Procs = {p1, p2, p3}
    MsgLen = 2
    MaxOpens = 3
    Writers = {w1, w2}
    NoWriter = NoWriter
    PROCFS_MAX_SIZE = 2
    Readers = {r1, r2}
    Numbers = {0, 123, 7}
    Junk = Junk
    MaxReads = 4
    MaxNesting = 3
SPECIFICATION KernelSpec
INVARIANTS DeviceSound IoctlSound FilesSound SpySound
PROPERTIES ExitQuiescent ReaderEnds LeakIsPermanent
CHECK_DEADLOCK FALSE
