SPECIFICATION FairSpec
CONSTANTS
    NoThread = NoThread
    Void = Void
    Default = Default
    MaxSize = 2
    Messages = {m1}
    Uninit = {Default}
    Senders = {s1}
    Receivers = {r1, r2}
    Controllers = {}
    SendOps = {"send"}
    ReceiveOps = {"receive"}
    ControlOps = {}
PROPERTIES
    ReceiverWaitsOnlyWhileEmpty
