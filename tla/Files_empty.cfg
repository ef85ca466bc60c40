\* Does a folder shown as empty hold nothing?
SPECIFICATION Spec
CONSTANTS
    main = main
    other = other
    r1 = r1
    r2 = r2
    r3 = r3
    anything = anything
    NoCall = NoCall
    NoBucket = NoBucket
    NoCursor = NoCursor
    Forged = Forged
    NoKey = NoKey
    Request <- OneRequest
    Calls <- AllCalls
    Bucket = {main, other}
    AllowedBuckets = {main}
    FirstBucket = main
    Name <- MCName
    Key <- MCKey
    Prefix <- MCPrefix
    Odd <- MCOdd
    Padded <- MCPadded
    Dotted <- MCDotted
    MaxKeys = 1
    SearchPage = 2
    SearchCap = 3
    Roles = {"VIEWER"}
    Needle = {anything}
    Matches <- MCMatches
    InitGrants <- MCGrants
    InitStore <- MCStore
    Grantable <- MCGrantable
    Passing <- MCPassing
INVARIANTS
    EmptyMeansEmpty
\* Every request may be done: then nothing is left to do.
CHECK_DEADLOCK FALSE
