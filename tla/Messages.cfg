SPECIFICATION Spec
CONSTANTS
    Char = {"a", "b"}
    Nul = "nul"
    Null = Null
    bufferSize = 7
    MaxValues = 3
    MaxHandlers = 2
    MaxStack = 3
    Own = "own"
    Requests <- MCRequests
    Names <- MCNames
    Payloads <- MCPayloads
    Pairs <- MCPairs
    Types <- MCTypes
    Room = 14
    SizeBound = 1000000
INVARIANTS
    StringsIntact
    DeliveredToSubscribers
    UnsubscribedIsSilent
    NamedClientsAreSafe
    PayloadIsCounted

    
