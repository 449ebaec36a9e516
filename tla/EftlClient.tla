----------------------------- MODULE EftlClient -----------------------------
(***************************************************************************)
(* The eFTL client library, recipes/eftl-consumer/client/main.go (the       *)
(* eftl-producer recipe has a copy of it): one Connection, the application  *)
(* goroutines that call its methods, and the dispatcher goroutine that each *)
(* successful connect() starts.                                             *)
(*                                                                          *)
(* A critical section under conn.mu that cannot block is one action that    *)
(* needs mu = Free.  One that can block while it holds the lock (it waits    *)
(* for the server's welcome, or sends on an application's channel) is        *)
(* several actions, and mu names the goroutine that holds the lock.         *)
(***************************************************************************)
EXTENDS EftlNetwork

CONSTANTS
    Threads,    \* the application's goroutines
    Calls,      \* Calls[t]: the methods t calls and the channels it drains
    MaxPub,     \* bound: publishes
    MaxSub,     \* bound: subscribes
    ErrCap,     \* capacity of ErrorChan; 0 when it is nil
    MsgCap,     \* capacity of the MessageChan of the subscriptions; 0 when nil
    CompCap     \* capacity of the completionChan of PublishAsync; 0 when nil

PublishOps == {"Publish", "PublishAsync"}
SubscribeOps == {"Subscribe", "SubscribeAsync"}
NeedConnection ==
    PublishOps \cup SubscribeOps \cup {"Unsubscribe", "UnsubscribeAll"}
Methods == NeedConnection \cup {"Reconnect", "Disconnect", "IsConnected"}
Drains == {"RecvError", "RecvMessage", "RecvCompletion"}

ASSUME ThreadsAssumption == Threads \cap Nat = {}
ASSUME CallsAssumption == Calls \in [Threads -> SUBSET (Methods \cup Drains)]
ASSUME BoundsAssumption ==
    /\ MaxPub \in Nat /\ MaxSub \in Nat
    /\ ErrCap \in Nat /\ MsgCap \in Nat /\ CompCap \in Nat

(***************************************************************************)
(* Dispatcher k is the goroutine started by the connect() that dialed       *)
(* connection k.                                                            *)
(***************************************************************************)
Dispatchers == Ws
Free == 0
Pubs == 1..MaxPub
Sids == 1..MaxSub

VARIABLES
    \* the fields of the Connection
    connected,
    ws,             \* conn.ws, 0 when nil
    reconnectID,    \* the token, 0 when empty
    pubs,           \* the seqNums of conn.pubs, which is in seqNum order
    pubSeqNum,
    subs,           \* the keys of conn.subs
    subSeqNum,
    lastSeqNum,
    mu,             \* the goroutine that holds conn.mu, or Free
    \* the application's goroutines
    pc,
    arg,            \* the seqNum or the subscription the call waits for
    \* the dispatchers
    dpc,
    rd,             \* the connection the dispatcher reads
    cur,            \* the message it handles
    todo,           \* the completions it has still to complete
    \* the channels, and what is known of each Completion and Subscription
    errLen,
    msgLen,
    compLen,
    comp,           \* comp[n].sent: the outcomes sent to its completionChan
    sub,            \* sub[i].queued: what waits in its subscriptionChan
    \* history
    delivered,      \* <<session, seq>> of the events sent to a MessageChan
    unwanted        \* those that arrived for no subscription

connVars == <<connected, ws, reconnectID, pubs, pubSeqNum, subs, subSeqNum,
              lastSeqNum>>
threadVars == <<pc, arg>>
dispVars == <<dpc, rd, cur, todo>>
chanVars == <<errLen, msgLen, compLen, comp, sub>>
histVars == <<delivered, unwanted>>
cliVars == <<connVars, mu, threadVars, dispVars, chanVars, histVars>>

ThreadStates == {"idle", "login", "pubwait", "subwait", "towait", "wgwait",
                 "woken", "panic"} \cup Methods
DispStates == {"none", "top", "reading", "msg", "handle", "complete", "err",
               "errchan", "fail", "exit", "done"}

\* The dispatcher states in which conn.mu is held.
Holding == {"handle", "complete", "errchan", "fail"}

Completion(ch, enc) == [chan |-> ch, enc |-> enc, sent |-> <<>>]
Completions ==
    [chan : {"none", "own", "app"}, enc : BOOLEAN, sent : Seq({"ok", "err"})]

Subscription(ch) == [chan |-> ch, queued |-> 0, held |-> FALSE]
Subscriptions == [chan : {"none", "own"}, queued : 0..1, held : BOOLEAN]

CliInit ==
    /\ connected = FALSE
    /\ ws = 0
    /\ reconnectID = 0
    /\ pubs = {}
    /\ pubSeqNum = 0
    /\ subs = {}
    /\ subSeqNum = 0
    /\ lastSeqNum = 0
    /\ mu = Free
    /\ pc = [t \in Threads |-> "idle"]
    /\ arg = [t \in Threads |-> 0]
    /\ dpc = [k \in Dispatchers |-> "none"]
    /\ rd = [k \in Dispatchers |-> 0]
    /\ cur = [k \in Dispatchers |-> NoMsg]
    /\ todo = [k \in Dispatchers |-> {}]
    /\ errLen = 0
    /\ msgLen = 0
    /\ compLen = 0
    /\ comp = [n \in Pubs |-> Completion("none", TRUE)]
    /\ sub = [i \in Sids |-> Subscription("none")]
    /\ delivered = <<>>
    /\ unwanted = {}
-----------------------------------------------------------------------------
(* Calls. *)

Goto(t, l) == pc' = [pc EXCEPT ![t] = l]
Return(t) == Goto(t, "idle") /\ arg' = [arg EXCEPT ![t] = 0]

\* The synchronous methods go on to wait for the outcome; the others return.
Await(t, l, x) ==
    IF l = "idle" THEN Return(t)
    ELSE Goto(t, l) /\ arg' = [arg EXCEPT ![t] = x]

(***************************************************************************)
(* A goroutine calls a method.  The Connection exists, for the other         *)
(* methods, once a Connect has succeeded; a Connect that fails leaves a      *)
(* Connection nobody has, and the next starts anew.  The calls in progress   *)
(* count against the bounds on publishes and subscribes.                    *)
(***************************************************************************)
Busy(ops) == Cardinality({u \in Threads : pc[u] \in ops})

Call(t, op) ==
    /\ pc[t] = "idle"
    /\ op \in (Calls[t] \cap Methods) \ {"Unsubscribe"}
    /\ IF reconnectID = 0
       THEN op = "Reconnect" /\ \A u \in Threads : pc[u] = "idle"
       ELSE TRUE
    /\ op \in PublishOps => pubSeqNum + Busy(PublishOps) < MaxPub
    /\ op \in SubscribeOps => subSeqNum + Busy(SubscribeOps) < MaxSub
    /\ Goto(t, op)
    /\ UNCHANGED <<connVars, mu, arg, dispVars, chanVars, histVars, netVars>>

\* Unsubscribe is called with a Subscription that Subscribe returned, once.
CallUnsubscribe(t, i) ==
    /\ pc[t] = "idle"
    /\ "Unsubscribe" \in Calls[t]
    /\ sub[i].held
    /\ sub' = [sub EXCEPT ![i].held = FALSE]
    /\ arg' = [arg EXCEPT ![t] = i]
    /\ Goto(t, "Unsubscribe")
    /\ UNCHANGED <<connVars, mu, dispVars, errLen, msgLen, compLen, comp,
                   histVars, netVars>>

NotConnected(t) ==
    /\ pc[t] \in NeedConnection
    /\ mu = Free
    /\ ~connected
    /\ Return(t)
    /\ UNCHANGED <<connVars, mu, dispVars, chanVars, histVars, netVars>>

IsConnected(t) ==
    /\ pc[t] = "IsConnected"
    /\ mu = Free
    /\ Return(t)
    /\ UNCHANGED <<connVars, mu, dispVars, chanVars, histVars, netVars>>

(***************************************************************************)
(* PublishAsync registers the Completion and sends the message.  The send   *)
(* fails, and the call returns its error, if the message has a field that   *)
(* cannot be encoded or the write meets a lost connection; the Completion   *)
(* stays registered.                                                        *)
(***************************************************************************)
Register(t, chan, waiting) ==
    /\ mu = Free
    /\ connected
    /\ pubSeqNum < MaxPub
    /\ pubSeqNum' = pubSeqNum + 1
    /\ pubs' = pubs \cup {pubSeqNum'}
    /\ \E enc \in (IF "badmsg" \in Faults THEN BOOLEAN ELSE {TRUE}) :
        /\ comp' = [comp EXCEPT ![pubSeqNum'] = Completion(chan, enc)]
        /\ c2s' = IF enc THEN Written(c2s, ws, <<Msg("publish", pubSeqNum', 0, TRUE)>>)
                  ELSE c2s
        /\ \/ enc /\ Await(t, waiting, pubSeqNum')
           \/ (~enc \/ wsState[ws] # "open") /\ Return(t)
    /\ UNCHANGED <<connected, ws, reconnectID, subs, subSeqNum, lastSeqNum, mu,
                   dispVars, errLen, msgLen, compLen, sub, histVars, wsState, s2c>>

Publish(t) == pc[t] = "Publish" /\ Register(t, "own", "pubwait")

PublishAsync(t) ==
    /\ pc[t] = "PublishAsync"
    /\ Register(t, IF CompCap = 0 THEN "none" ELSE "app", "idle")

\* The select of Publish: the completion, or the timeout.
PublishDone(t) ==
    /\ pc[t] = "pubwait"
    /\ comp[arg[t]].sent # <<>>
    /\ Return(t)
    /\ UNCHANGED <<connVars, mu, dispVars, chanVars, histVars, netVars>>

PublishTimeout(t) ==
    /\ pc[t] = "pubwait"
    /\ Return(t)
    /\ UNCHANGED <<connVars, mu, dispVars, chanVars, histVars, netVars>>

(***************************************************************************)
(* SubscribeAsync, which Subscribe calls with a subscriptionChan of its own *)
(* (the asynchronous calls modelled here pass a nil one).                   *)
(***************************************************************************)
AddSubscription(t, chan, waiting) ==
    /\ mu = Free
    /\ connected
    /\ subSeqNum < MaxSub
    /\ subSeqNum' = subSeqNum + 1
    /\ subs' = subs \cup {subSeqNum'}
    /\ sub' = [sub EXCEPT ![subSeqNum'] = Subscription(chan)]
    /\ c2s' = Written(c2s, ws, <<Msg("subscribe", 0, subSeqNum', TRUE)>>)
    /\ \/ Await(t, waiting, subSeqNum')
       \/ wsState[ws] # "open" /\ Return(t)
    /\ UNCHANGED <<connected, ws, reconnectID, pubs, pubSeqNum, lastSeqNum, mu,
                   dispVars, errLen, msgLen, compLen, comp, histVars, wsState, s2c>>

Subscribe(t) == pc[t] = "Subscribe" /\ AddSubscription(t, "own", "subwait")

SubscribeAsync(t) ==
    pc[t] = "SubscribeAsync" /\ AddSubscription(t, "none", "idle")

\* The select of Subscribe: the subscription, which the caller then holds, or
\* the timeout, after which nobody holds it.
SubscribeDone(t) ==
    /\ pc[t] = "subwait"
    /\ sub[arg[t]].queued = 1
    /\ sub' = [sub EXCEPT ![arg[t]].queued = 0, ![arg[t]].held = TRUE]
    /\ Return(t)
    /\ UNCHANGED <<connVars, mu, dispVars, errLen, msgLen, compLen, comp,
                   histVars, netVars>>

SubscribeTimeout(t) ==
    /\ pc[t] = "subwait"
    /\ Return(t)
    /\ UNCHANGED <<connVars, mu, dispVars, chanVars, histVars, netVars>>

\* Unsubscribe ignores the outcome of its send.
Unsubscribe(t) ==
    /\ pc[t] = "Unsubscribe"
    /\ mu = Free
    /\ connected
    /\ c2s' = Written(c2s, ws, <<Msg("unsubscribe", 0, arg[t], TRUE)>>)
    /\ subs' = subs \ {arg[t]}
    /\ Return(t)
    /\ UNCHANGED <<connected, ws, reconnectID, pubs, pubSeqNum, subSeqNum,
                   lastSeqNum, mu, dispVars, chanVars, histVars, wsState, s2c>>

SubMsgs(op, order) ==
    [j \in DOMAIN order |-> Msg(op, 0, order[j], TRUE)]

UnsubscribeAll(t) ==
    /\ pc[t] = "UnsubscribeAll"
    /\ mu = Free
    /\ connected
    /\ \E order \in Listings(subs) :
        c2s' = Written(c2s, ws, SubMsgs("unsubscribe", order))
    /\ subs' = {}
    /\ Return(t)
    /\ UNCHANGED <<connected, ws, reconnectID, pubs, pubSeqNum, subSeqNum,
                   lastSeqNum, mu, dispVars, chanVars, histVars, wsState, s2c>>
-----------------------------------------------------------------------------
(* Connect, Reconnect and Disconnect. *)

ReconnectNoop(t) ==
    /\ pc[t] = "Reconnect"
    /\ mu = Free
    /\ connected
    /\ Return(t)
    /\ UNCHANGED <<connVars, mu, dispVars, chanVars, histVars, netVars>>

DialFail(t) ==
    /\ pc[t] = "Reconnect"
    /\ mu = Free
    /\ ~connected
    /\ "dialfail" \in Faults \/ \A w \in Ws : wsState[w] # "unused"
    /\ Return(t)
    /\ UNCHANGED <<connVars, mu, dispVars, chanVars, histVars, netVars>>

\* connect() up to its wait for the welcome: the lock stays held.
Dial(t) ==
    /\ pc[t] = "Reconnect"
    /\ mu = Free
    /\ ~connected
    /\ \E w \in Ws :
        /\ wsState[w] = "unused"
        /\ \A v \in 1..(w - 1) : wsState[v] # "unused"
        /\ ws' = w
        /\ wsState' = [wsState EXCEPT ![w] = "open"]
        /\ c2s' = [c2s EXCEPT ![w] = <<Msg("login", reconnectID, 0, TRUE)>>]
    /\ mu' = t
    /\ Goto(t, "login")
    /\ UNCHANGED <<connected, reconnectID, pubs, pubSeqNum, subs, subSeqNum,
                   lastSeqNum, arg, dispVars, chanVars, histVars, s2c>>

\* Mutant: conn.ws is set to nil.
LoginFailClearsSocket(t) ==
    /\ pc[t] = "login"
    /\ ws' = 0
    /\ wsState' = [wsState EXCEPT ![ws] = "closed"]
    /\ mu' = Free
    /\ Return(t)
    /\ UNCHANGED <<connected, reconnectID, pubs, pubSeqNum, subs, subSeqNum,
                   lastSeqNum, dispVars, chanVars, histVars, c2s, s2c>>

\* Mutant: the socket of a failed login is not closed.
LoginFailLeaksSocket(t) ==
    /\ pc[t] = "login"
    /\ wsState' = wsState
    /\ mu' = Free
    /\ Return(t)
    /\ UNCHANGED <<connVars, dispVars, chanVars, histVars, c2s, s2c>>

\* The read of the welcome fails, or meets its deadline.
LoginFail(t) ==
    /\ pc[t] = "login"
    /\ wsState' = [wsState EXCEPT ![ws] = "closed"]
    /\ mu' = Free
    /\ Return(t)
    /\ UNCHANGED <<connVars, dispVars, chanVars, histVars, c2s, s2c>>

\* What a resumed session is sent again: the unacknowledged publishes, except
\* those whose encoding fails.
Resendable == {n \in pubs : comp[n].enc}

PubMsgs(order) ==
    [j \in DOMAIN order |-> Msg("publish", order[j], 0, TRUE)]

\* Mutant: lastSeqNum survives into a new session.
LastSeqKept(resumed) == lastSeqNum

\* The sequence numbers of a new session start again.
LastSeqFor(resumed) == IF resumed THEN lastSeqNum ELSE 0

(***************************************************************************)
(* The rest of connect(): the subscriptions are re-established in the       *)
(* order in which the map is ranged over, then, if the server resumed the   *)
(* session, the unacknowledged publishes are sent again.                    *)
(***************************************************************************)
Welcome(t) ==
    /\ pc[t] = "login"
    /\ s2c[ws] # <<>>
    /\ Head(s2c[ws]).op = "welcome"
    /\ s2c' = [s2c EXCEPT ![ws] = Tail(@)]
    /\ reconnectID' = Head(s2c[ws]).n
    /\ connected' = TRUE
    /\ lastSeqNum' = LastSeqFor(Head(s2c[ws]).ok)
    /\ \E order \in Listings(subs) :
        \E again \in Ascending(IF Head(s2c[ws]).ok THEN Resendable ELSE {}) :
            c2s' = Written(c2s, ws, SubMsgs("subscribe", order) \o PubMsgs(again))
    /\ dpc' = [dpc EXCEPT ![ws] = "top"]
    /\ mu' = Free
    /\ Return(t)
    /\ UNCHANGED <<ws, pubs, pubSeqNum, subs, subSeqNum, rd, cur, todo, chanVars,
                   histVars, wsState>>

\* The critical section of Disconnect.
Disconnect(t) ==
    /\ pc[t] = "Disconnect"
    /\ mu = Free
    /\ IF connected
       THEN /\ c2s' = Written(c2s, ws, <<Msg("disconnect", 0, 0, TRUE)>>)
            /\ connected' = FALSE
            /\ wsState' = [wsState EXCEPT ![ws] = "closed"]
            /\ Goto(t, "towait")
       ELSE /\ Goto(t, "idle")
            /\ UNCHANGED <<c2s, connected, wsState>>
    /\ UNCHANGED <<ws, reconnectID, pubs, pubSeqNum, subs, subSeqNum, lastSeqNum,
                   mu, arg, dispVars, chanVars, histVars, s2c>>

\* Mutant: the goroutine itself calls wg.Add.
LiveAddedInGoroutine == {k \in Dispatchers : dpc[k] \notin {"none", "done", "top"}}

\* The count of conn.wg.
Live == {k \in Dispatchers : dpc[k] \notin {"none", "done"}}

\* Mutant: Disconnect does not wait.
WaitStartSkipped(t) ==
    /\ pc[t] = "towait"
    /\ Goto(t, "idle")
    /\ UNCHANGED <<connVars, mu, arg, dispVars, chanVars, histVars, netVars>>

\* conn.wg.Wait(), called with the lock released.
WaitStart(t) ==
    /\ pc[t] = "towait"
    /\ Goto(t, IF Live = {} THEN "idle" ELSE "wgwait")
    /\ UNCHANGED <<connVars, mu, arg, dispVars, chanVars, histVars, netVars>>

(***************************************************************************)
(* The wait ended, and wg.Wait() returns; it panics, and the program dies,  *)
(* if a goroutine was added to the WaitGroup in the meantime.               *)
(***************************************************************************)
WaitEnd(t) ==
    /\ pc[t] = "woken"
    /\ Goto(t, IF Live = {} THEN "idle" ELSE "panic")
    /\ UNCHANGED <<connVars, mu, arg, dispVars, chanVars, histVars, netVars>>

Crashed == \E t \in Threads : pc[t] = "panic"

\* The application drains a channel it gave to the library.
Recv(t, drain, len) ==
    /\ pc[t] = "idle"
    /\ drain \in Calls[t]
    /\ len > 0
    /\ len' = len - 1
    /\ UNCHANGED <<connVars, mu, threadVars, dispVars, comp, sub, histVars, netVars>>

RecvError(t) ==
    /\ Recv(t, "RecvError", errLen)
    /\ UNCHANGED <<msgLen, compLen>>

RecvMessage(t) ==
    /\ Recv(t, "RecvMessage", msgLen)
    /\ UNCHANGED <<errLen, compLen>>

RecvCompletion(t) ==
    /\ Recv(t, "RecvCompletion", compLen)
    /\ UNCHANGED <<errLen, msgLen>>
-----------------------------------------------------------------------------
(* The dispatcher: dispatch() and its handlers. *)

Step(k, l) == dpc' = [dpc EXCEPT ![k] = l]

\* The handler returns, and with it an iteration of the loop of dispatch().
Unlock(k) ==
    /\ mu' = Free
    /\ Step(k, "top")
    /\ rd' = [rd EXCEPT ![k] = 0]
    /\ cur' = [cur EXCEPT ![k] = NoMsg]
    /\ UNCHANGED todo

Handled == {"heartbeat", "event", "subscribed", "unsubscribed", "ack"}

\* nextMessage reads the field conn.ws without the lock.
ReadTop(k) ==
    /\ dpc[k] = "top"
    /\ rd' = [rd EXCEPT ![k] = ws]
    /\ Step(k, "reading")
    /\ UNCHANGED <<connVars, mu, threadVars, cur, todo, chanVars, histVars, netVars>>

\* A message is read; one that no handler takes is ignored.
ReadMsg(k) ==
    /\ dpc[k] = "reading"
    /\ s2c[rd[k]] # <<>>
    /\ s2c' = [s2c EXCEPT ![rd[k]] = Tail(@)]
    /\ IF Head(s2c[rd[k]]).op \in Handled
       THEN /\ cur' = [cur EXCEPT ![k] = Head(s2c[rd[k]])]
            /\ Step(k, "msg")
            /\ UNCHANGED rd
       ELSE /\ rd' = [rd EXCEPT ![k] = 0]
            /\ Step(k, "top")
            /\ UNCHANGED cur
    /\ UNCHANGED <<connVars, mu, threadVars, todo, chanVars, histVars, wsState,
                   c2s>>

\* The goroutines that read connection w.
Readers(w) ==
    {k \in Dispatchers : dpc[k] = "reading" /\ rd[k] = w}
        \cup {t \in Threads : pc[t] = "login" /\ ws = w}

\* Mutant: dispatch() goes on after a failed read.
ReadErrRetries(k) ==
    /\ dpc[k] = "reading"
    /\ wsState[rd[k]] # "open" \/ Readers(rd[k]) # {k}
    /\ s2c' = [s2c EXCEPT ![rd[k]] = <<>>]
    /\ Step(k, "top")
    /\ UNCHANGED <<connVars, mu, threadVars, rd, cur, todo, chanVars, histVars,
                   wsState, c2s>>

(***************************************************************************)
(* The read fails: the connection was closed or is lost, or another         *)
(* goroutine reads it too, which the websocket library does not support.    *)
(* After a failed read every later one fails as well.                       *)
(***************************************************************************)
ReadErr(k) ==
    /\ dpc[k] = "reading"
    /\ wsState[rd[k]] # "open" \/ Readers(rd[k]) # {k}
    /\ s2c' = [s2c EXCEPT ![rd[k]] = <<>>]
    /\ Step(k, "err")
    /\ UNCHANGED <<connVars, mu, threadVars, rd, cur, todo, chanVars, histVars,
                   wsState, c2s>>

\* The handler of the message acquires conn.mu.
Lock(k) ==
    /\ dpc[k] = "msg"
    /\ mu = Free
    /\ mu' = k
    /\ Step(k, "handle")
    /\ UNCHANGED <<connVars, threadVars, rd, cur, todo, chanVars, histVars, netVars>>

Handles(k, op) == dpc[k] = "handle" /\ cur[k].op = op

HandleHeartbeat(k) ==
    /\ Handles(k, "heartbeat")
    /\ c2s' = Written(c2s, ws, <<cur[k]>>)
    /\ Unlock(k)
    /\ UNCHANGED <<connVars, threadVars, chanVars, histVars, wsState, s2c>>

\* Mutant: off by one.
IsNewOrLast(m) == m.n = 0 \/ m.n >= lastSeqNum

(***************************************************************************)
(* handleMessage: an event is sent to the MessageChan of its subscription   *)
(* (a send that blocks, with the lock held, while the channel is full)      *)
(* unless its sequence number is not above lastSeqNum; whatever has a       *)
(* sequence number is acknowledged.                                         *)
(***************************************************************************)
IsNew(m) == m.n = 0 \/ m.n > lastSeqNum
Sends(m) == IsNew(m) /\ m.sid \in subs /\ MsgCap > 0

HandleMessage(k) ==
    LET m == cur[k]
        id == <<sessOf[rd[k]], m.n>>
    IN  /\ Handles(k, "event")
        /\ Sends(m) => msgLen < MsgCap
        /\ msgLen' = IF Sends(m) THEN msgLen + 1 ELSE msgLen
        /\ delivered' = IF Sends(m) /\ m.n > 0 THEN Append(delivered, id)
                        ELSE delivered
        /\ unwanted' = IF m.sid \in subs /\ MsgCap > 0 THEN unwanted
                       ELSE unwanted \cup {id}
        /\ lastSeqNum' = IF IsNew(m) /\ m.n > 0 THEN m.n ELSE lastSeqNum
        /\ c2s' = IF m.n > 0 THEN Written(c2s, ws, <<Msg("ack", m.n, 0, TRUE)>>)
                  ELSE c2s
        /\ Unlock(k)
        /\ UNCHANGED <<connected, ws, reconnectID, pubs, pubSeqNum, subs,
                       subSeqNum, threadVars, errLen, compLen, comp, sub,
                       wsState, s2c>>

\* The send to the subscriptionChan, of capacity 1, if there is one.
Notify(i) ==
    IF i \in subs /\ sub[i].chan = "own"
    THEN sub[i].queued = 0 /\ sub' = [sub EXCEPT ![i].queued = 1]
    ELSE UNCHANGED sub

HandleSubscribed(k) ==
    /\ Handles(k, "subscribed")
    /\ Notify(cur[k].sid)
    /\ Unlock(k)
    /\ UNCHANGED <<connVars, threadVars, errLen, msgLen, compLen, comp, histVars,
                   netVars>>

\* Mutant: the subscription stays in conn.subs.
HandleUnsubscribedKeeps(k) ==
    /\ Handles(k, "unsubscribed")
    /\ subs' = subs
    /\ Notify(cur[k].sid)
    /\ Unlock(k)
    /\ UNCHANGED <<connected, ws, reconnectID, pubs, pubSeqNum, subSeqNum,
                   lastSeqNum, threadVars, errLen, msgLen, compLen, comp,
                   histVars, netVars>>

HandleUnsubscribed(k) ==
    /\ Handles(k, "unsubscribed")
    /\ subs' = subs \ {cur[k].sid}
    /\ Notify(cur[k].sid)
    /\ Unlock(k)
    /\ UNCHANGED <<connected, ws, reconnectID, pubs, pubSeqNum, subSeqNum,
                   lastSeqNum, threadVars, errLen, msgLen, compLen, comp,
                   histVars, netVars>>

\* Mutant: the acknowledged publish stays in conn.pubs.
HandleAckKeepsLast(k) ==
    /\ Handles(k, "ack")
    /\ todo' = [todo EXCEPT ![k] = {n \in pubs : n <= cur[k].n}]
    /\ pubs' = {n \in pubs : n >= cur[k].n}
    /\ Step(k, "complete")
    /\ UNCHANGED <<connected, ws, reconnectID, pubSeqNum, subs, subSeqNum,
                   lastSeqNum, mu, threadVars, rd, cur, chanVars, histVars, netVars>>

\* handleAck takes the completions the (cumulative) acknowledgement covers,
\* to complete them one by one.
HandleAck(k) ==
    /\ Handles(k, "ack")
    /\ todo' = [todo EXCEPT ![k] = {n \in pubs : n <= cur[k].n}]
    /\ pubs' = {n \in pubs : n > cur[k].n}
    /\ Step(k, "complete")
    /\ UNCHANGED <<connected, ws, reconnectID, pubSeqNum, subs, subSeqNum,
                   lastSeqNum, mu, threadVars, rd, cur, chanVars, histVars, netVars>>

\* handleDisconnect closes whatever connection is current.
HandleDisconnect(k) ==
    /\ dpc[k] = "err"
    /\ mu = Free
    /\ IF connected
       THEN /\ connected' = FALSE
            /\ wsState' = [wsState EXCEPT ![ws] = "closed"]
            /\ mu' = k
            /\ Step(k, "errchan")
       ELSE /\ Step(k, "exit")
            /\ UNCHANGED <<connected, wsState, mu>>
    /\ UNCHANGED <<ws, reconnectID, pubs, pubSeqNum, subs, subSeqNum, lastSeqNum,
                   threadVars, rd, cur, todo, chanVars, histVars, c2s, s2c>>

\* Mutant: the pending completions are cleared and not completed.
SendErrorDropsPending(k) ==
    /\ dpc[k] = "errchan"
    /\ ErrCap > 0 => errLen < ErrCap
    /\ errLen' = IF ErrCap > 0 THEN errLen + 1 ELSE errLen
    /\ todo' = [todo EXCEPT ![k] = {}]
    /\ pubs' = {}
    /\ Step(k, "fail")
    /\ UNCHANGED <<connected, ws, reconnectID, pubSeqNum, subs, subSeqNum,
                   lastSeqNum, mu, threadVars, rd, cur, msgLen, compLen, comp,
                   sub, histVars, netVars>>

\* The send to ErrorChan, which blocks while it is full; then the pending
\* completions are taken, to fail them one by one.
SendError(k) ==
    /\ dpc[k] = "errchan"
    /\ ErrCap > 0 => errLen < ErrCap
    /\ errLen' = IF ErrCap > 0 THEN errLen + 1 ELSE errLen
    /\ todo' = [todo EXCEPT ![k] = pubs]
    /\ pubs' = {}
    /\ Step(k, "fail")
    /\ UNCHANGED <<connected, ws, reconnectID, pubSeqNum, subs, subSeqNum,
                   lastSeqNum, mu, threadVars, rd, cur, msgLen, compLen, comp,
                   sub, histVars, netVars>>

\* Mutant: the field "err" of an acknowledgement is not looked at.
OutcomeOfAck(k) == IF dpc[k] = "complete" THEN "ok" ELSE "err"

\* The outcome dispatcher k gives its completions: Completion.Error.
Outcome(k) == IF dpc[k] = "complete" /\ cur[k].ok THEN "ok" ELSE "err"

Complete(k) ==
    /\ dpc[k] \in {"complete", "fail"}
    /\ \E n \in todo[k] :
        /\ \A p \in todo[k] : n <= p
        /\ comp[n].chan = "app" => compLen < CompCap
        /\ compLen' = IF comp[n].chan = "app" THEN compLen + 1 ELSE compLen
        /\ comp' = [comp EXCEPT ![n].sent = Append(@, Outcome(k))]
        /\ todo' = [todo EXCEPT ![k] = @ \ {n}]
    /\ UNCHANGED <<connVars, mu, threadVars, dpc, rd, cur, errLen, msgLen, sub,
                   histVars, netVars>>

\* Mutant: handleAck returns with the lock.
AckDoneKeepsLock(k) ==
    /\ dpc[k] = "complete" /\ todo[k] = {}
    /\ Step(k, "top")
    /\ UNCHANGED <<mu, rd, cur, todo>>
    /\ UNCHANGED <<connVars, threadVars, chanVars, histVars, netVars>>

AckDone(k) ==
    /\ dpc[k] = "complete" /\ todo[k] = {}
    /\ Unlock(k)
    /\ UNCHANGED <<connVars, threadVars, chanVars, histVars, netVars>>

\* Mutant: handleDisconnect returns with the lock.
FailDoneKeepsLock(k) ==
    /\ dpc[k] = "fail" /\ todo[k] = {}
    /\ mu' = mu
    /\ Step(k, "exit")
    /\ UNCHANGED <<connVars, threadVars, rd, cur, todo, chanVars, histVars, netVars>>

FailDone(k) ==
    /\ dpc[k] = "fail" /\ todo[k] = {}
    /\ mu' = Free
    /\ Step(k, "exit")
    /\ UNCHANGED <<connVars, threadVars, rd, cur, todo, chanVars, histVars, netVars>>

\* wg.Done(): the last dispatcher to end releases those that wait.
Exit(k) ==
    /\ dpc[k] = "exit"
    /\ Step(k, "done")
    /\ rd' = [rd EXCEPT ![k] = 0]
    /\ pc' = IF Live = {k}
             THEN [t \in Threads |-> IF pc[t] = "wgwait" THEN "woken" ELSE pc[t]]
             ELSE pc
    /\ UNCHANGED <<connVars, mu, arg, cur, todo, chanVars, histVars, netVars>>

CallStep(t) ==
    /\ ~Crashed
    /\ \/ \E op \in Methods : Call(t, op)
       \/ \E i \in Sids : CallUnsubscribe(t, i)

DrainStep(t) == ~Crashed /\ (RecvError(t) \/ RecvMessage(t) \/ RecvCompletion(t))

MethodStep(t) ==
    /\ ~Crashed
    /\ \/ NotConnected(t) \/ IsConnected(t)
       \/ Publish(t) \/ PublishAsync(t) \/ PublishDone(t) \/ PublishTimeout(t)
       \/ Subscribe(t) \/ SubscribeAsync(t) \/ SubscribeDone(t) \/ SubscribeTimeout(t)
       \/ Unsubscribe(t) \/ UnsubscribeAll(t)
       \/ ReconnectNoop(t) \/ DialFail(t) \/ Dial(t) \/ LoginFail(t) \/ Welcome(t)
       \/ Disconnect(t) \/ WaitStart(t) \/ WaitEnd(t)

DispatchStep(k) ==
    /\ ~Crashed
    /\ \/ ReadTop(k) \/ ReadMsg(k) \/ ReadErr(k) \/ Lock(k)
       \/ HandleHeartbeat(k) \/ HandleMessage(k) \/ HandleSubscribed(k)
       \/ HandleUnsubscribed(k) \/ HandleAck(k)
       \/ HandleDisconnect(k) \/ SendError(k)
       \/ Complete(k) \/ AckDone(k) \/ FailDone(k) \/ Exit(k)

ConnTypeOK ==
    /\ connected \in BOOLEAN
    /\ ws \in 0..MaxConn
    /\ reconnectID \in Nat
    /\ pubs \subseteq Pubs
    /\ pubSeqNum \in 0..MaxPub
    /\ subs \subseteq Sids
    /\ subSeqNum \in 0..MaxSub
    /\ lastSeqNum \in Nat

LockTypeOK == mu \in Threads \cup (0..MaxConn)

ThreadTypeOK ==
    /\ pc \in [Threads -> ThreadStates]
    /\ arg \in [Threads -> Nat]

DispTypeOK ==
    /\ dpc \in [Dispatchers -> DispStates]
    /\ rd \in [Dispatchers -> 0..MaxConn]
    /\ cur \in [Dispatchers -> Msgs]
    /\ todo \in [Dispatchers -> SUBSET Pubs]

ChanTypeOK ==
    /\ errLen \in 0..ErrCap
    /\ msgLen \in 0..MsgCap
    /\ compLen \in 0..CompCap
    /\ comp \in [Pubs -> Completions]
    /\ sub \in [Sids -> Subscriptions]

HistTypeOK ==
    /\ delivered \in Seq(Nat \X Nat)
    /\ unwanted \subseteq Nat \X Nat

CliTypeOK ==
    /\ ConnTypeOK
    /\ LockTypeOK
    /\ ThreadTypeOK
    /\ DispTypeOK
    /\ ChanTypeOK
    /\ HistTypeOK
=============================================================================
