SPECIFICATION ShutdownSpec
CONSTANTS
    NoThread = NoThread
    Void = Void
    Default = Default
    MaxSize = 2
    Messages = {m1}
    Uninit = {Default}
    Senders = {s1}
    Receivers = {r1, r2}
    Controllers = {r1, r2, owner}
    Owner = owner
    SendOps = {"send"}
    ReceiveOps = {"receive"}
    ControlOps = {"stopUse", "weakUpSender", "weakUpReceiver", "canBeUsed"}
CHECK_DEADLOCK FALSE
PROPERTIES
    EveryoneQuits
    OnlyMessagesAreProcessed
    SomeSenderProceeds
    QueueDrains
