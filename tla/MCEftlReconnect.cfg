SPECIFICATION FairSpec
CONSTANTS
    main = main
    aux = aux
    Threads = {main, aux}
    Calls <- SubscriberCalls
    Faults = {"break"}
    ServerSends = {}
    MaxConn = 3
    MaxPub = 0
    MaxSub = 1
    MaxPush = 0
    ErrCap = 1
    MsgCap = 1
    CompCap = 0
PROPERTIES
    ReconnectReturns
CHECK_DEADLOCK FALSE
