------------------------------- MODULE MCEftl -------------------------------
(***************************************************************************)
(* Small instances of EftlSystem for TLC.                                   *)
(***************************************************************************)
EXTENDS EftlSystem

CONSTANTS main, aux     \* two goroutines of the application

\* One goroutine publishes and reconnects, the other drains the channels.
PublisherCalls ==
    [t \in Threads |->
        IF t = main THEN {"Publish", "PublishAsync", "Reconnect"}
        ELSE {"RecvError", "RecvCompletion"}]

\* The same, and it may disconnect too.
RestartCalls ==
    [t \in Threads |->
        IF t = main THEN {"Publish", "PublishAsync", "Reconnect", "Disconnect"}
        ELSE {"RecvError", "RecvCompletion"}]

\* One goroutine subscribes, the other drains the channels.
EventCalls ==
    [t \in Threads |->
        IF t = main THEN {"Subscribe", "Unsubscribe", "Reconnect", "Disconnect"}
        ELSE {"RecvMessage", "RecvError"}]

\* One goroutine subscribes and waits.
SubscriberCalls ==
    [t \in Threads |->
        IF t = main THEN {"Subscribe", "Unsubscribe", "Reconnect"}
        ELSE {"RecvMessage", "RecvError"}]

\* Two goroutines share the Connection.
SharedCalls ==
    [t \in Threads |->
        IF t = main THEN {"PublishAsync", "SubscribeAsync", "UnsubscribeAll",
                          "Reconnect", "Disconnect", "IsConnected"}
        ELSE {"Reconnect", "Disconnect", "RecvError"}]

\* One goroutine disconnects while another, told of nothing, reconnects.
TakeoverCalls ==
    [t \in Threads |->
        IF t = main THEN {"SubscribeAsync", "Disconnect"}
        ELSE {"Reconnect", "RecvMessage", "RecvError"}]
=============================================================================
