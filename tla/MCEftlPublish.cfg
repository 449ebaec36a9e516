SPECIFICATION Spec
CONSTANTS
    main = main
    aux = aux
    Threads = {main, aux}
    Calls <- PublisherCalls
    Faults = {"break", "noresume", "reject", "dialfail"}
    ServerSends = {"heartbeat", "error"}
    MaxConn = 2
    MaxPub = 2
    MaxSub = 0
    MaxPush = 1
    ErrCap = 1
    MsgCap = 0
    CompCap = 1
INVARIANTS
    TypeInv
    PublishesKept
    CompletionTruthful
PROPERTIES
    KeepsContract
