SPECIFICATION Spec
CONSTANTS
    main = main
    aux = aux
    Threads = {main, aux}
    Calls <- SharedCalls
    Faults = {"break", "badmsg"}
    ServerSends = {}
    MaxConn = 2
    MaxPub = 1
    MaxSub = 1
    MaxPush = 0
    ErrCap = 0
    MsgCap = 0
    CompCap = 0
INVARIANTS
    LockDiscipline
    SocketInv
    NoDeadlock
CHECK_DEADLOCK FALSE
