SPECIFICATION Spec
CONSTANTS
    MaxPacketId = 3
    CommandTimeout = 1
    KeepAlive = 2
    YieldTime = 1
    Topics = {}
    NoTopic = NoTopic
    MaxHandlers = 2
    Values = {v1}
    Ops = {"publish1"}
    InboundQoS = {}
    LinkFaults = {}
    MaxDepth = 1
    MaxQueue = 2
INVARIANTS
    PublishAckIsItsOwn
