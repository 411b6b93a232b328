SPECIFICATION Spec
CONSTANTS
    NoThread = NoThread
    Void = Void
    Default = Default
    MaxSize = 2
    Messages = {m1, m2}
    Uninit = {Default, m1}
    Senders = {s1}
    Receivers = {r1}
    Controllers = {c1}
    SendOps = {"send", "sendPriority", "trySend"}
    ReceiveOps = {"receive", "tryReceive"}
    ControlOps = {"clear", "clearExcept", "stopUse", "startUse", "canBeUsed", "count", "weakUpSender", "weakUpReceiver"}
PROPERTIES
    Implements
