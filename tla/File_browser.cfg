\* A tab on FilesPage.
SPECIFICATION FairSpec
CONSTANTS
    docs = docs
    mail = mail
    a = a
    x = x
    None = None
    Sent = Sent
    NoTerm = NoTerm
    Elsewhere = Elsewhere
    Bucket = {docs, mail}
    Prefix <- MCPrefix
    Term = {x}
    RootLists <- MCRootLists
    Starts <- MCStarts
    MaxInputs = 3
INVARIANTS
    TypeOK
    SearchIsAddressed
    PageIsRight
    WayOut
PROPERTIES
    SettlesInAFolder
\* Nobody has to do anything more.
CHECK_DEADLOCK FALSE
