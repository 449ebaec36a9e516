SPECIFICATION FairSpec
CONSTANTS
    c1 = c1
    c2 = c2
    Clients = {c1, c2}
    Methods <- MCMethods
    N = 2
    Window = 1
    MaxUsers <- MCMaxUsers
INVARIANTS
    TypeInv
    BulkComplete
    StreamInv
    StoreCount
PROPERTIES
    CallReturns
    InterruptStopsList
    NothingLeftBehind
CHECK_DEADLOCK FALSE
