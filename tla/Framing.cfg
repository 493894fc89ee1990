SPECIFICATION FairSpec
CONSTANTS
    MaxSockets = 2
    Byte <- MCByte
    MaxLen = 15
    Base = 2
    MaxDigits = 4
    Outgoing <- MCOutgoing
    Incoming <- MCIncoming
    MaxPackets = 3
INVARIANTS
    NetInv
    SentIsPacket
    PacketsInOrder
PROPERTIES
    
    ImplementsByteStream
    PacketCallsReturn
