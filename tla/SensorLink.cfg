SPECIFICATION FairSpec
CONSTANTS
    Devices = {d1, d2}
    MaxEvents = 3
INVARIANTS
    TypeOK
    ConnDeviceIsTrue
    OneConnection
    ListensWhenFree
PROPERTIES
    SensorIsSought
    ServicesAreEnabled
CHECK_DEADLOCK FALSE
