\* Startup, bootstrap, signals and shutdown.
SPECIFICATION FairSpec
CONSTANTS
    dbInit = dbInit
    byHand = byHand
    r1 = r1
    None = None
    DbInit = dbInit
    Boot <- MCBoot
    Email <- MCEmail
    EmailOf <- MCEmailOf
    Request = {r1}
    Migrations = 2
    MaxAttempts = 2
INVARIANTS
    TypeOK
    SetUpBeforeServing
PROPERTIES
    BootstrapSafe
    RunsAndShutdownsEnd
