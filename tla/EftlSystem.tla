----------------------------- MODULE EftlSystem -----------------------------
(***************************************************************************)
(* The eFTL client library, its websocket connections and its server.       *)
(***************************************************************************)
EXTENDS EftlClient, EftlServer

vars == <<cliVars, netVars, srvVars>>

Init == NetInit /\ SrvInit /\ CliInit

ClientNext ==
    /\ \/ \E t \in Threads : CallStep(t) \/ DrainStep(t) \/ MethodStep(t)
       \/ \E k \in Dispatchers : DispatchStep(k)
    /\ UNCHANGED srvVars

EnvNext ==
    /\ ServerReply \/ ServerPushes
    /\ UNCHANGED cliVars

BreakNext == (\E w \in Ws : Break(w)) /\ UNCHANGED <<cliVars, srvVars>>

Next == ClientNext \/ EnvNext \/ BreakNext

Spec == Init /\ [][Next]_vars

(***************************************************************************)
(* Fairness.  Goroutines are scheduled: a method or a dispatcher that can   *)
(* take a step eventually takes it, and sync.Mutex does not starve a waiter *)
(* (hence strong fairness for what needs the lock).  A timer that was       *)
(* started fires.  The server answers what it is sent.  Nothing obliges the *)
(* application to call, the network to break or the server to push.         *)
(***************************************************************************)
ThreadFair(t) ==
    /\ SF_vars(MethodStep(t) /\ UNCHANGED srvVars)
    /\ WF_vars(DrainStep(t) /\ UNCHANGED srvVars)

DispatchFair(k) == SF_vars(DispatchStep(k) /\ UNCHANGED srvVars)

ServerFair == WF_vars(ServerReply /\ UNCHANGED cliVars)

FairSpec ==
    /\ Spec
    /\ \A t \in Threads : ThreadFair(t)
    /\ \A k \in Dispatchers : DispatchFair(k)
    /\ ServerFair

-----------------------------------------------------------------------------
(* Properties. *)

TypeOK == NetTypeOK /\ SrvTypeOK /\ CliTypeOK

\* What the type invariant rests on: whoever uses conn.ws, or reads a
\* connection, does so after one was dialed.
HasSocket ==
    /\ connected => ws \in Ws
    /\ \A t \in Threads : pc[t] = "login" => ws \in Ws
    /\ \A k \in Dispatchers : dpc[k] # "none" => ws \in Ws
    /\ \A k \in Dispatchers : dpc[k] \in {"reading", "msg", "handle"} => rd[k] \in Ws

TypeInv == TypeOK /\ HasSocket

\* conn.mu is held by exactly the goroutine that is inside a critical section
\* in which it can block, and such a section has one goroutine.
LockDiscipline ==
    /\ \A t \in Threads : mu = t <=> pc[t] = "login"
    /\ \A k \in Dispatchers : mu = k <=> dpc[k] \in Holding

\* No connection stays open that nobody would ever close: an open one is the
\* current one, of a Connection that is connected or is logging in.
NoLeakedSocket ==
    \A w \in Ws : wsState[w] = "open" =>
        w = ws /\ (connected \/ mu \in Threads)

Ending == {"errchan", "fail", "exit", "done"}

\* While the Connection is connected its current connection has a dispatcher
\* that has not met an error and will notice a loss.
ConnectedHasDispatcher ==
    connected => /\ ws \in Ws
                 /\ dpc[ws] # "none" /\ dpc[ws] \notin Ending
                 /\ wsState[ws] \in {"open", "broken"}

\* The publishes n that some dispatcher is completing, or that are pending.
Pending(n) == n \in pubs \/ \E k \in Dispatchers : n \in todo[k]

\* Each publish is completed at most once, and is pending until it is: no
\* acknowledgement, disconnection or re-send completes one twice or loses it.
CompletedOnce ==
    \A n \in Pubs :
        /\ Len(comp[n].sent) = IF n <= pubSeqNum /\ ~Pending(n) THEN 1 ELSE 0
        /\ n > pubSeqNum => ~Pending(n)

NoDisconnect == \A t \in Threads : "Disconnect" \notin Calls[t]

\* Dispatcher k will be told of an acknowledgement or of a loss, or was told.
InCharge(k) ==
    \/ connected /\ k = ws /\ dpc[k] \notin {"none"} \cup Ending
    \/ dpc[k] = "errchan"

\* No publish is stranded: as long as nobody disconnects, what is pending has a
\* dispatcher that will complete or fail it.
NotStranded ==
    NoDisconnect /\ pubs # {} => \E k \in Dispatchers : InCharge(k)

\* No publish gets two outcomes, or none.
PublishesKept == CompletedOnce /\ NotStranded

\* Publishes complete in the order in which they were made.
CompletedInOrder ==
    \A n, p \in Pubs :
        n < p /\ comp[p].sent # <<>> => comp[n].sent # <<>>

\* A publish that completes without an error was accepted by the server
\* ("a non-nil Error indicates a publish failure").
CompletionTruthful ==
    \A n \in Pubs : \A i \in DOMAIN comp[n].sent :
        comp[n].sent[i] = "ok" => n \in accepted

\* The events of a session reach the MessageChan in order and once each.
DeliveredInOrder ==
    \A i, j \in DOMAIN delivered :
        i < j /\ delivered[i][1] = delivered[j][1]
            => delivered[i][2] < delivered[j][2]

\* A Disconnect that waits will be released, once: there is a dispatcher that
\* has still to end (no wake-up is lost), each that has can end (it reads a
\* connection that is not open any more), and none is added before the
\* Disconnect has returned.
DisconnectWaits ==
    /\ ~Crashed
    /\ \A t \in Threads : pc[t] = "wgwait" =>
        /\ Live # {}
        /\ \A k \in Live : dpc[k] \in Ending \/ wsState[k] # "open"

\* A dispatcher waits, with the lock, for room in a subscriptionChan.
SubscriptionChanFull(k) ==
    /\ dpc[k] = "handle" /\ cur[k].op \in {"subscribed", "unsubscribed"}
    /\ cur[k].sid \in subs /\ sub[cur[k].sid].queued = 1

\* The goroutines do not all wait for one another: what stops is a program
\* that panicked, or one that got two answers to a Subscribe and reads one.
NoDeadlock ==
    Crashed \/ ENABLED Next \/ \E k \in Dispatchers : SubscriptionChanFull(k)

\* What the client acknowledges it has received: the event was sent to the
\* MessageChan, or arrived when no subscription wanted it.
AckMeansReceipt ==
    \A id \in acked :
        id \in unwanted \/ \E i \in DOMAIN delivered : delivered[i] = id

\* No two goroutines read one connection.
SingleReader ==
    \A w \in Ws : Cardinality(Readers(w)) <= 1

\* A dispatcher whose read fails tears down the connection it reads, and no
\* other.
TeardownOwnConnection ==
    [][\A k \in Dispatchers : HandleDisconnect(k) /\ connected => rd[k] = ws]_vars

\* Upon success of a Reconnect subscriptions are re-established: while the
\* connection is up, what the library believes subscribed the server holds,
\* or is about to learn, or has ended and the library is about to learn.
SubscriptionsReestablished ==
    \A i \in subs :
        connected /\ wsState[ws] = "open" =>
            \/ i \in srvSubs /\ srvWs = ws
            \/ \E j \in DOMAIN c2s[ws] :
                c2s[ws][j].op = "subscribe" /\ c2s[ws][j].sid = i
            \/ \E j \in DOMAIN s2c[ws] :
                s2c[ws][j].op = "unsubscribed" /\ s2c[ws][j].sid = i
            \/ \E k \in Dispatchers :
                /\ dpc[k] \in {"msg", "handle"}
                /\ cur[k].op = "unsubscribed" /\ cur[k].sid = i

(***************************************************************************)
(* The client keeps the contract of Publish: a message is pending from its  *)
(* registration until an outcome is sent to its completionChan.             *)
(***************************************************************************)
PublishStatus ==
    [n \in Pubs |->
        IF n > pubSeqNum THEN "new"
        ELSE IF comp[n].sent = <<>> THEN "pending"
        ELSE comp[n].sent[Len(comp[n].sent)]]

Contract == INSTANCE EftlPublishContract WITH status <- PublishStatus

KeepsContract == Contract!ContractSpec

(***************************************************************************)
(* The inductive invariants of the proofs.                                  *)
(***************************************************************************)
\* A login is of a connection no dispatcher was started for; nobody reads a
\* connection that was not dialed.
SocketInv ==
    /\ NoLeakedSocket
    /\ ConnectedHasDispatcher
    /\ \A t \in Threads : pc[t] = "login" =>
        ~connected /\ dpc[ws] = "none" /\ wsState[ws] \in {"open", "broken"}
    /\ \A w \in Ws : wsState[w] = "unused" => dpc[w] = "none"

\* Only the dispatcher that holds the lock has completions in hand; they are
\* older than the pending ones and than those still to come.
CompletionInv ==
    /\ \A k \in Dispatchers : todo[k] # {} => dpc[k] \in {"complete", "fail"}
    /\ \A k \in Dispatchers : \A n \in todo[k] :
        n <= pubSeqNum /\ \A p \in pubs : n < p
    /\ \A n \in pubs : n <= pubSeqNum
    /\ CompletedOnce
    /\ CompletedInOrder

\* Liveness, under FairSpec.

\* Every publish is completed: acknowledged, or failed by the loss of its
\* connection, as long as nobody disconnects.
PublishCompletes ==
    [](\A t \in Threads : pc[t] # "Disconnect") =>
        \A n \in Pubs : n \in pubs ~> comp[n].sent # <<>>

\* A connection that is lost is noticed and closed.
LossNoticed ==
    \A w \in Ws : wsState[w] = "broken" ~> wsState[w] = "closed"

\* Reconnect blocks "until either a connection has been established or an
\* error occurs".
ReconnectReturns ==
    \A t \in Threads : pc[t] \in {"Reconnect", "login"} ~> pc[t] = "idle"

\* Every method returns: the ones that wait for an answer have a timeout, and
\* Disconnect waits for the dispatcher to end, and it ends.
MethodsReturn ==
    \A t \in Threads : pc[t] # "idle" ~> pc[t] = "idle"
=============================================================================
