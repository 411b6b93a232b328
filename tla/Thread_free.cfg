SPECIFICATION FairSpec
CONSTANTS
    Clients = {owner, c1}
    Owner = owner
    Callbacks = {f, g}
    NULL = NULL
    StartsPaused = {TRUE, FALSE}
    SpuriousWakes = TRUE
CHECK_DEADLOCK FALSE
INVARIANTS
    SleepsOnlyWhilePaused
    AtMostOneMoreCallback
    WorkerEndsBeforeObject
    CarefulUseIsSafe
PROPERTIES
    LifeCycle
    StopEndsThread
    JoinTerminates
    StartRuns
