SPECIFICATION Spec
CONSTANTS
    Clients = {owner, c1}
    Owner = owner
    Callbacks = {f, g}
    NULL = NULL
    StartsPaused = {TRUE}
    SpuriousWakes = TRUE
CHECK_DEADLOCK FALSE
INVARIANTS
    PausedUntilStarted
