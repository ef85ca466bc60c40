\* Reading the audit log page by page while rows come and go.
SPECIFICATION Spec
CONSTANTS
    None = None
    Row <- MCRow
    Time <- MCTime
    InitLog <- MCInitLog
    PageSize = 2
    MaxPage = 3
    MaxLost = 1
INVARIANTS
    TypeOK
    NothingSkipped
\* Every query may be given up: then nothing is left to do.
CHECK_DEADLOCK FALSE
