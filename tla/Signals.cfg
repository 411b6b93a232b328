SPECIFICATION SignalsSpec
CONSTANTS
    NoThread = NoThread
    Void = Default
    Default = Default
    MaxSize = 2
    Messages = {Default}
    Uninit = {Default}
    Senders = {s1}
    Receivers = {r1}
    Controllers = {main}
    SendOps = {"send", "sendPriority"}
    ReceiveOps = {"receive"}
    ControlOps = {}
    Main = main
    Sigs = {SIGINT, SIGTERM}
    Funcs = {"sig_term"}
    MaxSignals = 2
    MaxRegs = 3
SYMMETRY SigSymmetry
CHECK_DEADLOCK FALSE
INVARIANTS
    SlotSurvives
    WakeUpsSurvive
PROPERTIES
    SignalIsNoted
    FuncsAreCalled
