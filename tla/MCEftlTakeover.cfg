SPECIFICATION Spec
CONSTANTS
    main = main
    aux = aux
    Threads = {main, aux}
    Calls <- TakeoverCalls
    Faults = {"noresume"}
    ServerSends = {"event"}
    MaxConn = 2
    MaxPub = 0
    MaxSub = 1
    MaxPush = 2
    ErrCap = 1
    MsgCap = 1
    CompCap = 0
INVARIANTS
    AckMeansReceipt
CHECK_DEADLOCK FALSE
