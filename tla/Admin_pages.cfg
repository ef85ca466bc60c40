\* The administration pages of a tab, with navigation while calls are under way.
SPECIFICATION FairSpec
CONSTANTS
    nothing = nothing
    name = name
    Term = {nothing, name}
    Starts <- MCStarts
    None = None
    Sent = Sent
    MaxInputs = 3
    MaxMoves = 2
INVARIANTS
    TypeOK
    OwnChangesShown
    ButtonsWait
    WaitsForAFetch
PROPERTIES
    ComesToRest
    EveryClickEnds
\* Nobody has to do anything more.
CHECK_DEADLOCK FALSE
