SPECIFICATION Spec
CONSTANTS
    MaxPacketId = 2
    CommandTimeout = 1
    KeepAlive = 2
    YieldTime = 1
    Topics = {t1}
    NoTopic = NoTopic
    MaxHandlers = 1
    Values = {v1}
    Ops = {"publish0", "disconnect", "subscribe", "unsubscribe"}
    InboundQoS = {0, 1}
    LinkFaults = {"closed", "silent", "stuck"}
    MaxDepth = 2
    MaxQueue = 2
INVARIANTS
    ConnectedIsAccepted
    ConnectComesFirst
    PingAccounted
    SubscribeSuccessIsGranted
