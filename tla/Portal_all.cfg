\* Every operation, two requests at once.
SPECIFICATION Spec
CONSTANTS
    ada = ada
    max = max
    vic = vic
    wil = wil
    u5 = u5
    u6 = u6
    adasCookie = adasCookie
    maxsCookie = maxsCookie
    vicsCookie = vicsCookie
    s4 = s4
    s5 = s5
    p1 = p1
    p2 = p2
    p3 = p3
    p4 = p4
    p5 = p5
    NoUser = NoUser
    NoCall = NoCall
    NoSession = NoSession
    Unset = Unset
    r1 = r1
    r2 = r2
    Request <- TwoRequests
    AuditId <- TwoRequests
    Calls <- AllCalls
    UserId <- MCUserId
    SessionId <- MCSessionId
    PermissionId <- MorePermissionId
    Action <- MCAction
    Email <- MCEmail
    Collated <- MCCollated
    Password = {"old", "new"}
    Scope <- MCScope
    CollatedScope <- MCCollatedScope
    Within <- MCWithin
    RootScope <- MCRoots
    ConfiguredScope <- MCConfigured
    Bucket = {"docs", "mail"}
    AllowedBuckets = {"docs"}
    Name <- MCName
    Key <- MCKey
    Prefix <- MCPrefix
    Odd <- MCOdd
    Padded = {}
    NoKey = NoKey
    InitUsers <- MCUsers
    InitSessions <- MCSessions
    InitPermissions <- MorePermissions
SYMMETRY RequestSymmetry
INVARIANTS
    TypeOK
    TablesConsistent
    AnswersTellTheEffect
    SessionsPurged
    DelegationBounded
    AccessBounded
PROPERTIES
    AuditAppendOnly
    ImplementsLedger
    StaffGuarded
\* Every request may be done: then nothing is left to do.
CHECK_DEADLOCK FALSE
