SPECIFICATION TimerSpec
CONSTANTS
    Clients = {owner}
    Owner = owner
    Callbacks = {}
    NULL = NULL
    StartsPaused = {TRUE}
    SpuriousWakes = FALSE
    Ids = {i1, i2}
    Delays = {1, 2}
    MaxTime = 4
    ActionOps = {}
    JoinsFirst = TRUE
    RunLock = RunLock
    NoLock = NoLock
    End = End
    Lost = Lost
CHECK_DEADLOCK FALSE
INVARIANTS
    WaitsForTheFirstAlarm
