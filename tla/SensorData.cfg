SPECIFICATION DataFairSpec
CONSTANTS
    TempWords = {32767}
    HumWords = {32767}
    Pressures = {6465444}
    D2Readings = {8077636}
    C5 = 31457
    C6 = 28446
    Statuses = {0}
    Levels = {60, 90}
    read_interval = 2
    QueueSize = 2
INVARIANTS
    DataTypeOK
    ReadingsFollowFormula
    
    
PROPERTIES
    BatteryLevelIsPublished
