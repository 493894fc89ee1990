SPECIFICATION DataSpec
CONSTANTS
    TempWords = {32767}
    HumWords = {32767}
    Pressures = {}
    D2Readings = {}
    C5 = 31457
    C6 = 28446
    Statuses = {0}
    Levels = {90}
    read_interval = 2
    QueueSize = 2
INVARIANTS
    PublishedTemperatureIsMeasured
