SPECIFICATION FairTimerSpec
CONSTANTS
    Clients = {owner, c1}
    Owner = owner
    Callbacks = {}
    NULL = NULL
    StartsPaused = {TRUE}
    SpuriousWakes = TRUE
    Ids = {i1, i2, i3}
    Delays = {1, 2}
    MaxTime = 4
    ActionOps = {"add", "remove"}
    JoinsFirst = TRUE
    RunLock = RunLock
    NoLock = NoLock
    End = End
    Lost = Lost
CHECK_DEADLOCK FALSE
INVARIANTS
    TimerTypeOK
    MapsAgree
    PausedOnlyWhenIdle
    HangsOnlyOnTie
    MapsOutliveRun
PROPERTIES
    RingsInTime
    OnlyActionTakesNext
    EachRings
