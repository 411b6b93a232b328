SPECIFICATION Spec
CONSTANTS
    Clients = {owner, c1}
    Owner = owner
    Callbacks = {f, g}
    NULL = NULL
    StartsPaused = {FALSE}
    SpuriousWakes = FALSE
CHECK_DEADLOCK FALSE
INVARIANTS
    DiesOnlyAsAsked
