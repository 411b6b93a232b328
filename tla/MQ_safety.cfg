SPECIFICATION Spec
CONSTANTS
    NoThread = NoThread
    Void = Void
    Default = Default
    MaxSize = 2
    Messages = {m1}
    Uninit = {Default}
    Senders = {s1, s2}
    Receivers = {r1, r2}
    Controllers = {c1}
    SendOps = {"send", "sendPriority", "trySend"}
    ReceiveOps = {"receive", "tryReceive"}
    ControlOps = {"clear", "clearExcept", "stopUse", "startUse", "weakUpSender", "weakUpReceiver"}
SYMMETRY ThreadSymmetry
INVARIANTS
    TypeOK
    ReceiversAsleepOnlyIfEmpty
    SendersAsleepOnlyIfFull
    BlockedWithoutLock
    ReservedSlotIsMine
    LockHeldByItsUser
