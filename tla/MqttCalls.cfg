SPECIFICATION FairSpec
CONSTANTS
    MaxPacketId = 2
    CommandTimeout = 1
    KeepAlive = 2
    YieldTime = 1
    Topics = {}
    NoTopic = NoTopic
    MaxHandlers = 2
    Values = {v1}
    Ops = {"publish0", "publish1", "publish2", "respond"}
    InboundQoS = {1, 2}
    LinkFaults = {"closed", "silent"}
    MaxDepth = 2
    MaxQueue = 1
INVARIANTS
    TypeOK
    SuccessHasOwnAck
PROPERTIES
    CallsReturn
    FailureIsDetected
