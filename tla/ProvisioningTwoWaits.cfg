SPECIFICATION Spec
CONSTANTS
    Networks = {n1}
    Accounts = {a1}
    GoodAccounts = {a1}
    Empty = Empty
    Garbage = Garbage
    MaxEvents = 2
    MaxLosses = 1
INVARIANTS
    ConnackAwaitedOnce
