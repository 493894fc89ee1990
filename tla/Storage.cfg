SPECIFICATION Spec
CONSTANTS
    Ssids = {s1}
    Passwords = {p1, NoString}
    Accounts = {a1}
    Empty = NoString
    MaxPending = 1
    MaxCount = 2
INVARIANTS
    TypeOK
    SettingsSurvive
    CounterCounts
PROPERTIES
    StationAfterSave
