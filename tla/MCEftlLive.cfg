SPECIFICATION FairSpec
CONSTANTS
    main = main
    aux = aux
    Threads = {main, aux}
    Calls <- RestartCalls
    Faults = {"break"}
    ServerSends = {}
    MaxConn = 2
    MaxPub = 2
    MaxSub = 0
    MaxPush = 0
    ErrCap = 1
    MsgCap = 0
    CompCap = 1
PROPERTIES
    PublishCompletes
    LossNoticed
    MethodsReturn
