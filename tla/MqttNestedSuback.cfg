SPECIFICATION Spec
CONSTANTS
    MaxPacketId = 3
    CommandTimeout = 1
    KeepAlive = 2
    YieldTime = 1
    Topics = {t1}
    NoTopic = NoTopic
    MaxHandlers = 2
    Values = {v1}
    Ops = {"subscribe", "respond"}
    InboundQoS = {0}
    LinkFaults = {}
    MaxDepth = 2
    MaxQueue = 3
INVARIANTS
    SubscribeSuccessIsGranted
