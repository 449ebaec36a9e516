SPECIFICATION Spec
CONSTANTS
    main = main
    aux = aux
    Threads = {main, aux}
    Calls <- EventCalls
    Faults = {"break", "noresume", "reject"}
    ServerSends = {"event", "plain", "revoke"}
    MaxConn = 2
    MaxPub = 0
    MaxSub = 1
    MaxPush = 2
    ErrCap = 1
    MsgCap = 1
    CompCap = 0
INVARIANTS
    DeliveredInOrder
    AckMeansReceipt
    SingleReader
    DisconnectWaits
    SubscriptionsReestablished
    NoDeadlock
PROPERTIES
    TeardownOwnConnection
CHECK_DEADLOCK FALSE
