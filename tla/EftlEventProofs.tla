-------------------------- MODULE EftlEventProofs --------------------------
(***************************************************************************)
(* What the eFTL client library promises about what it receives, and about  *)
(* the outcomes it reports, proved for every number of goroutines,          *)
(* connections, publishes and subscriptions, as long as a goroutine that    *)
(* disconnects is the only one that disconnects or reconnects.  (Run        *)
(* takeover shows what happens otherwise.)                                  *)
(***************************************************************************)
EXTENDS EftlSafetyProofs

\* What each goroutine of the application may call.
DisconnectAlone ==
    \A t, u \in Threads :
        t # u /\ "Disconnect" \in Calls[t]
            => Calls[u] \cap {"Reconnect", "Disconnect"} = {}

-----------------------------------------------------------------------------
(* The dispatchers and the connections they read. *)

\* The states of a dispatcher that has not been told to end.
Listening == {"top", "reading", "msg", "handle", "complete", "err"}

CallersInv ==
    \A t \in Threads :
        /\ pc[t] \in {"Reconnect", "login"} => "Reconnect" \in Calls[t]
        /\ pc[t] \in {"Disconnect", "towait", "wgwait", "woken"} =>
              "Disconnect" \in Calls[t]

\* Nobody connects while a Disconnect waits, and it waits for somebody.
WaitersInv ==
    \A t \in Threads :
        /\ pc[t] # "panic"
        /\ pc[t] \in {"towait", "wgwait", "woken"} => ~connected
        /\ pc[t] = "wgwait" => Live # {}
        /\ pc[t] = "woken" => Live = {}

\* Who listens reads the current connection, and a Disconnect that closed it
\* waits for the listener to end.
ListenersInv ==
    \A k \in Dispatchers : dpc[k] \in Listening =>
        /\ k = ws
        /\ connected \/ \E t \in Threads : pc[t] \in {"towait", "wgwait"}
        /\ dpc[k] # "top" => rd[k] = ws

ListenInv == CallersInv /\ WaitersInv /\ ListenersInv

\* A goroutine goes on and leaves the connection and the dispatchers alone.
LEMMA ListenMove ==
    ASSUME ThreadTypeOK, ListenInv, NEW t \in Threads, NEW l,
           Goto(t, l), UNCHANGED <<connected, ws, dpc, rd>>,
           l \notin {"panic", "woken", "login"},
           l = "Reconnect" => "Reconnect" \in Calls[t],
           l = "Disconnect" => "Disconnect" \in Calls[t],
           l \in {"towait", "wgwait"} => pc[t] \in {"towait", "wgwait"},
           \/ pc[t] \notin {"towait", "wgwait"}
           \/ l = "wgwait"
           \/ Live = {},
           l = "wgwait" => Live # {}
    PROVE  ListenInv'
<1>1. \A u \in Threads : pc'[u] = IF u = t THEN l ELSE pc[u]
  BY DEF Goto, ThreadTypeOK
<1>2. CallersInv'
  BY <1>1 DEF ListenInv, CallersInv
<1>3. Live' = Live
  BY DEF Live
<1>4. WaitersInv'
  BY <1>1, <1>3 DEF ListenInv, WaitersInv
<1>5. ListenersInv'
  BY <1>1 DEF ListenInv, ListenersInv, Live, Listening
<1> QED  BY <1>2, <1>4, <1>5 DEF ListenInv

\* Who may connect is not who waits, and nobody listens meanwhile.
LEMMA NobodyListens ==
    ASSUME DisconnectAlone, ListenInv, NEW t \in Threads,
           pc[t] \in {"Reconnect", "login"}, ~connected
    PROVE  /\ \A k \in Dispatchers : dpc[k] \notin Listening
           /\ \A u \in Threads : pc[u] \notin {"towait", "wgwait", "woken"}
<1>1. \A u \in Threads : pc[u] \notin {"towait", "wgwait", "woken"}
  <2>1. SUFFICES ASSUME NEW u \in Threads, pc[u] \in {"towait", "wgwait", "woken"}
                 PROVE  FALSE
    OBVIOUS
  <2>2. "Disconnect" \in Calls[u] /\ "Reconnect" \in Calls[t] /\ u # t
    BY <2>1 DEF ListenInv, CallersInv
  <2> QED  BY <2>2 DEF DisconnectAlone
<1> QED  BY <1>1 DEF ListenInv, ListenersInv

LEMMA ListenThread ==
    ASSUME DisconnectAlone, TypeInv, LockDiscipline, SocketInv, ListenInv,
           NEW t \in Threads, CallStep(t) \/ DrainStep(t) \/ MethodStep(t)
    PROVE  ListenInv'
<1> USE DEF connVars, threadVars, dispVars
<1>0. ThreadTypeOK
  BY DEF TypeInv, TypeOK, CliTypeOK
<1>i. ASSUME Goto(t, "idle"), UNCHANGED <<connected, ws, dpc, rd>>,
             pc[t] \notin {"towait", "wgwait"}
      PROVE  ListenInv'
  BY <1>0, <1>i, ListenMove
<1>1. CASE \E op \in Methods : Call(t, op)
  BY <1>0, <1>1, ListenMove DEF Call, Methods, NeedConnection, PublishOps, SubscribeOps
<1>2. CASE \E i \in Sids : CallUnsubscribe(t, i)
  BY <1>0, <1>2, ListenMove DEF CallUnsubscribe
<1>3. CASE NotConnected(t)
  BY <1>3, <1>i DEF NotConnected, Return, NeedConnection, PublishOps, SubscribeOps
<1>4. CASE IsConnected(t)
  BY <1>4, <1>i DEF IsConnected, Return
<1>5. CASE Publish(t)
  BY <1>0, <1>5, ListenMove DEF Publish, Register, Await, Return
<1>6. CASE PublishAsync(t)
  BY <1>0, <1>6, ListenMove DEF PublishAsync, Register, Await, Return
<1>7. CASE PublishDone(t)
  BY <1>7, <1>i DEF PublishDone, Return
<1>8. CASE PublishTimeout(t)
  BY <1>8, <1>i DEF PublishTimeout, Return
<1>9. CASE Subscribe(t)
  BY <1>0, <1>9, ListenMove DEF Subscribe, AddSubscription, Await, Return
<1>10. CASE SubscribeAsync(t)
  BY <1>0, <1>10, ListenMove DEF SubscribeAsync, AddSubscription, Await, Return
<1>11. CASE SubscribeDone(t)
  BY <1>11, <1>i DEF SubscribeDone, Return
<1>12. CASE SubscribeTimeout(t)
  BY <1>12, <1>i DEF SubscribeTimeout, Return
<1>13. CASE Unsubscribe(t)
  BY <1>13, <1>i DEF Unsubscribe, Return
<1>14. CASE UnsubscribeAll(t)
  BY <1>14, <1>i DEF UnsubscribeAll, Return
<1>15. CASE ReconnectNoop(t)
  BY <1>15, <1>i DEF ReconnectNoop, Return
<1>16. CASE DialFail(t)
  BY <1>16, <1>i DEF DialFail, Return
<1>17. CASE Dial(t)
  <2>1. /\ \A k \in Dispatchers : dpc[k] \notin Listening
        /\ \A u \in Threads : pc[u] \notin {"towait", "wgwait", "woken"}
    BY <1>17, NobodyListens DEF Dial
  <2>2. /\ pc[t] = "Reconnect"
        /\ \A u \in Threads : pc'[u] = IF u = t THEN "login" ELSE pc[u]
        /\ UNCHANGED <<dpc, connected>>
    BY <1>0, <1>17 DEF Dial, Goto, ThreadTypeOK
  <2> QED  BY <2>1, <2>2 DEF ListenInv, CallersInv, WaitersInv, ListenersInv
<1>18. CASE LoginFail(t)
  BY <1>18, <1>i DEF LoginFail, Return
<1>19. CASE Welcome(t)
  <2>1. ~connected /\ dpc[ws] = "none" /\ ws \in Ws
    BY <1>19 DEF Welcome, SocketInv, TypeInv, HasSocket
  <2>2. /\ \A k \in Dispatchers : dpc[k] \notin Listening
        /\ \A u \in Threads : pc[u] \notin {"towait", "wgwait", "woken"}
    BY <1>19, <2>1, NobodyListens DEF Welcome
  <2>3. \A u \in Threads : pc'[u] = IF u = t THEN "idle" ELSE pc[u]
    BY <1>0, <1>19 DEF Welcome, Return, Goto, ThreadTypeOK
  <2>4. \A k \in Dispatchers : dpc'[k] = IF k = ws THEN "top" ELSE dpc[k]
    BY <1>19 DEF Welcome, TypeInv, TypeOK, CliTypeOK, DispTypeOK
  <2>5. UNCHANGED ws /\ connected'
    BY <1>19 DEF Welcome
  <2> QED  BY <2>2, <2>3, <2>4, <2>5 DEF ListenInv, CallersInv, WaitersInv, ListenersInv
<1>20. CASE Disconnect(t)
  <2>1. CASE ~connected
    BY <1>20, <2>1, <1>i DEF Disconnect
  <2>2. CASE connected
    <3>1. /\ pc[t] = "Disconnect"
          /\ \A u \in Threads : pc'[u] = IF u = t THEN "towait" ELSE pc[u]
          /\ ~connected' /\ UNCHANGED <<ws, dpc, rd>>
      BY <1>0, <1>20, <2>2 DEF Disconnect, Goto, ThreadTypeOK
    <3>2. \A u \in Threads : pc[u] \notin {"wgwait", "woken"}
      BY <2>2 DEF ListenInv, WaitersInv
    <3> QED  BY <3>1, <3>2 DEF ListenInv, CallersInv, WaitersInv, ListenersInv
  <2> QED  BY <2>1, <2>2
<1>21. CASE WaitStart(t)
  BY <1>0, <1>21, ListenMove DEF WaitStart
<1>22. CASE WaitEnd(t)
  BY <1>22, <1>i DEF WaitEnd, ListenInv, WaitersInv
<1>23. CASE RecvError(t) \/ RecvMessage(t) \/ RecvCompletion(t)
  BY <1>23 DEF RecvError, RecvMessage, RecvCompletion, Recv, ListenInv, CallersInv,
    WaitersInv, ListenersInv, Live
<1> QED  BY <1>1, <1>2, <1>3, <1>4, <1>5, <1>6, <1>7, <1>8, <1>9, <1>10, <1>11, <1>12, <1>13, <1>14, <1>15, <1>16, <1>17, <1>18, <1>19, <1>20, <1>21, <1>22, <1>23
  DEF CallStep, DrainStep, MethodStep

\* A dispatcher that listens goes on, listening or about to end.
LEMMA ListenStep ==
    ASSUME DispTypeOK, ListenInv, NEW k \in Dispatchers, NEW l, Step(k, l),
           dpc[k] \notin {"none", "done"}, l \notin {"none", "done"},
           l \in Listening => dpc[k] \in Listening /\ (l # "top" => rd'[k] = ws),
           \A j \in Dispatchers : j # k => rd'[j] = rd[j],
           UNCHANGED <<connected, ws, pc>>
    PROVE  ListenInv'
<1>1. \A j \in Dispatchers : dpc'[j] = IF j = k THEN l ELSE dpc[j]
  BY DEF Step, DispTypeOK
<1>2. Live' = Live
  BY <1>1 DEF Live
<1>3. ListenersInv'
  BY <1>1 DEF ListenInv, ListenersInv
<1> QED  BY <1>2, <1>3 DEF ListenInv, CallersInv, WaitersInv

LEMMA ListenDispatch ==
    ASSUME TypeInv, LockDiscipline, SocketInv, ListenInv,
           NEW k \in Dispatchers, DispatchStep(k)
    PROVE  ListenInv'
<1> USE DEF connVars, threadVars, dispVars
<1>0. DispTypeOK /\ ThreadTypeOK
  BY DEF TypeInv, TypeOK, CliTypeOK
<1>r. dpc[k] \in Listening /\ dpc[k] # "top" => rd[k] = ws
  BY DEF ListenInv, ListenersInv
<1>s. ASSUME NEW l \in {"reading", "msg", "handle", "complete", "err"}, Step(k, l),
             dpc[k] \in Listening, rd' = rd \/ rd' = [rd EXCEPT ![k] = ws],
             dpc[k] # "top" \/ rd' = [rd EXCEPT ![k] = ws],
             UNCHANGED <<connected, ws, pc>>
      PROVE  ListenInv'
  BY <1>0, <1>r, <1>s, ListenStep DEF DispTypeOK, Listening
<1>u. ASSUME Step(k, "top"), dpc[k] \in Listening, rd' = [rd EXCEPT ![k] = 0],
             UNCHANGED <<connected, ws, pc>>
      PROVE  ListenInv'
  BY <1>0, <1>u, ListenStep DEF DispTypeOK, Listening
<1>e. ASSUME NEW l \in {"errchan", "fail", "exit"}, Step(k, l),
             dpc[k] \notin {"none", "done"}, UNCHANGED <<rd, connected, ws, pc>>
      PROVE  ListenInv'
  BY <1>0, <1>e, ListenStep DEF Listening
<1>1. CASE ReadTop(k)
  BY <1>1, <1>s DEF ReadTop, Listening
<1>2. CASE ReadMsg(k)
  BY <1>2, <1>s, <1>u DEF ReadMsg, Listening
<1>3. CASE ReadErr(k)
  BY <1>3, <1>s DEF ReadErr, Listening
<1>4. CASE Lock(k)
  BY <1>4, <1>s DEF Lock, Listening
<1>5. CASE HandleHeartbeat(k)
  BY <1>5, <1>u DEF HandleHeartbeat, Handles, Unlock, Listening
<1>6. CASE HandleMessage(k)
  BY <1>6, <1>u DEF HandleMessage, Handles, Unlock, Listening
<1>7. CASE HandleSubscribed(k)
  BY <1>7, <1>u DEF HandleSubscribed, Handles, Unlock, Listening
<1>8. CASE HandleUnsubscribed(k)
  BY <1>8, <1>u DEF HandleUnsubscribed, Handles, Unlock, Listening
<1>9. CASE HandleAck(k)
  BY <1>9, <1>s DEF HandleAck, Handles, Listening
<1>10. CASE HandleDisconnect(k)
  <2>1. CASE ~connected
    BY <1>10, <2>1, <1>e DEF HandleDisconnect
  <2>2. CASE connected
    <3>1. dpc[k] = "err" /\ k = ws
      BY <1>10 DEF HandleDisconnect, ListenInv, ListenersInv, Listening
    <3>2. /\ \A j \in Dispatchers : dpc'[j] = IF j = k THEN "errchan" ELSE dpc[j]
          /\ UNCHANGED <<ws, pc>>
      BY <1>0, <1>10, <2>2 DEF HandleDisconnect, Step, DispTypeOK
    <3>3. \A j \in Dispatchers : dpc'[j] \notin Listening
      BY <3>1, <3>2 DEF ListenInv, ListenersInv, Listening
    <3>4. \A t \in Threads : pc[t] \notin {"wgwait", "woken"}
      BY <2>2 DEF ListenInv, WaitersInv
    <3>5. ~connected'
      BY <1>10, <2>2 DEF HandleDisconnect
    <3> QED  BY <3>2, <3>3, <3>4, <3>5 DEF ListenInv, CallersInv, WaitersInv, ListenersInv
  <2> QED  BY <2>1, <2>2
<1>11. CASE SendError(k)
  BY <1>11, <1>e DEF SendError
<1>12. CASE Complete(k)
  BY <1>12 DEF Complete, ListenInv, CallersInv, WaitersInv, ListenersInv, Live
<1>13. CASE AckDone(k)
  BY <1>13, <1>u DEF AckDone, Unlock, Listening
<1>14. CASE FailDone(k)
  BY <1>14, <1>e DEF FailDone
<1>15. CASE Exit(k)
  <2>1. /\ dpc[k] = "exit"
        /\ \A j \in Dispatchers : dpc'[j] = IF j = k THEN "done" ELSE dpc[j]
        /\ \A j \in Dispatchers : j # k => rd'[j] = rd[j]
        /\ UNCHANGED <<ws, connected>>
    BY <1>0, <1>15 DEF Exit, Step, DispTypeOK
  <2>2. Live' = Live \ {k} /\ k \in Live
    BY <2>1 DEF Live
  <2>3. CASE Live = {k}
    <3>1. \A t \in Threads : pc'[t] = IF pc[t] = "wgwait" THEN "woken" ELSE pc[t]
      BY <1>0, <1>15, <2>3 DEF Exit, ThreadTypeOK
    <3>2. \A j \in Dispatchers : dpc'[j] \notin Listening
      BY <2>2, <2>3 DEF Live, Listening
    <3> QED  BY <2>1, <2>2, <2>3, <3>1, <3>2
      DEF ListenInv, CallersInv, WaitersInv, ListenersInv
  <2>4. CASE Live # {k}
    <3>1. UNCHANGED pc
      BY <1>15, <2>4 DEF Exit
    <3>2. Live' # {}
      BY <2>2, <2>4
    <3>3. \A j \in Dispatchers : dpc'[j] \in Listening => dpc[j] \in Listening /\ rd'[j] = rd[j]
      BY <2>1 DEF Listening
    <3>4. CallersInv' /\ ListenersInv'
      BY <2>1, <3>1, <3>3 DEF ListenInv, CallersInv, ListenersInv, Listening
    <3>5. WaitersInv'
      BY <2>1, <2>2, <3>1, <3>2 DEF ListenInv, WaitersInv
    <3> QED  BY <3>4, <3>5 DEF ListenInv
  <2> QED  BY <2>3, <2>4
<1> QED  BY <1>1, <1>2, <1>3, <1>4, <1>5, <1>6, <1>7, <1>8, <1>9, <1>10, <1>11, <1>12, <1>13, <1>14, <1>15
  DEF DispatchStep

LEMMA ListenInit == Init => ListenInv
  BY DEF Init, CliInit, ListenInv, CallersInv, WaitersInv, ListenersInv, Listening

LEMMA ListenNext ==
    ASSUME DisconnectAlone, Inv, ListenInv, [Next]_vars
    PROVE  ListenInv'
<1> USE DEF Inv
<1>1. CASE ClientNext
  BY <1>1, ListenThread, ListenDispatch DEF ClientNext
<1>2. CASE EnvNext \/ BreakNext \/ UNCHANGED vars
  BY <1>2 DEF EnvNext, BreakNext, vars, cliVars, connVars, threadVars, dispVars,
    ListenInv, CallersInv, WaitersInv, ListenersInv, Live
<1> QED  BY <1>1, <1>2 DEF Next

LEMMA ListenCorrect == DisconnectAlone => (Spec => [](Inv /\ ListenInv))
<1> SUFFICES ASSUME DisconnectAlone PROVE Spec => [](Inv /\ ListenInv)
  OBVIOUS
<1>1. Init => ListenInv
  BY ListenInit
<1>2. Inv /\ ListenInv /\ [Next]_vars => ListenInv'
  BY ListenNext
<1> QED  BY <1>1, <1>2, InvCorrect, PTL DEF Spec

LEMMA OneReader ==
    ASSUME Inv, ListenInv
    PROVE  SingleReader
<1> SUFFICES ASSUME NEW w \in Ws PROVE Cardinality(Readers(w)) <= 1
  BY DEF SingleReader
<1>1. \A x, y \in Readers(w) : x = y
  <2>1. \A k \in Dispatchers : dpc[k] = "reading" => k = ws
    BY DEF ListenInv, ListenersInv, Listening
  <2>2. \A t \in Threads : pc[t] = "login" => dpc[ws] = "none" /\ mu = t
    BY DEF Inv, SocketInv, LockDiscipline
  <2> QED  BY <2>1, <2>2 DEF Readers
<1>2. CASE Readers(w) = {}
  BY <1>2, FS_EmptySet
<1>3. CASE Readers(w) # {}
  <2>1. PICK x : Readers(w) = {x}
    BY <1>1, <1>3
  <2>2. Cardinality(Readers(w)) = 1
    BY ONLY <2>1, FS_Singleton
  <2> QED  BY <2>2
<1> QED  BY <1>2, <1>3

\* Every connection is read by one goroutine at most: a dispatcher, or the
\* connect() that waits for its welcome.  The websocket library relies on it.
THEOREM SingleReaderCorrect == DisconnectAlone => (Spec => []SingleReader)
<1>1. Inv /\ ListenInv => SingleReader
  BY OneReader
<1> QED  BY <1>1, ListenCorrect, PTL

\* A Disconnect that waits for the dispatchers waits for one that can end, is
\* woken by the last, and finds the WaitGroup as the last left it.
THEOREM WaitGroupCorrect == DisconnectAlone => (Spec => []DisconnectWaits)
<1>1. Inv /\ ListenInv => DisconnectWaits
  <2> SUFFICES ASSUME Inv, ListenInv PROVE DisconnectWaits
    OBVIOUS
  <2>1. ~Crashed
    BY DEF ListenInv, WaitersInv, Crashed
  <2>2. ASSUME NEW t \in Threads, pc[t] = "wgwait"
        PROVE  /\ Live # {}
               /\ \A k \in Live : dpc[k] \in Ending \/ wsState[k] # "open"
    <3>1. Live # {} /\ ~connected
      BY <2>2 DEF ListenInv, WaitersInv
    <3>2. ASSUME NEW k \in Live, dpc[k] \notin Ending, wsState[k] = "open"
          PROVE  FALSE
      <4>1. dpc[k] \in Listening /\ k \in Ws
        BY <3>2 DEF Live, Ending, Listening, Inv, TypeInv, TypeOK, CliTypeOK, DispTypeOK,
          DispStates, Dispatchers
      <4>2. k = ws
        BY <4>1 DEF ListenInv, ListenersInv, Dispatchers
      <4>3. mu \in Threads
        BY <3>1, <3>2, <4>1 DEF Inv, SocketInv, NoLeakedSocket
      <4>4. dpc[ws] = "none"
        BY <4>3 DEF Inv, LockDiscipline, SocketInv
      <4> QED  BY <4>1, <4>2, <4>4 DEF Listening
    <3> QED  BY <3>1, <3>2
  <2> QED  BY <2>1, <2>2 DEF DisconnectWaits
<1> QED  BY <1>1, ListenCorrect, PTL

\* handleDisconnect closes the connection whose read failed, and no other.
THEOREM TeardownCorrect == DisconnectAlone => (Spec => TeardownOwnConnection)
<1>1. ListenInv => \A k \in Dispatchers : HandleDisconnect(k) /\ connected => rd[k] = ws
  BY DEF ListenInv, ListenersInv, HandleDisconnect, Listening
<1> QED  BY <1>1, ListenCorrect, PTL DEF TeardownOwnConnection
-----------------------------------------------------------------------------
(* Sequences of messages. *)

Elems(s) == {s[j] : j \in DOMAIN s}
Ops(s) == {m.op : m \in Elems(s)}

LEMMA ElemsTail ==
    ASSUME NEW s \in Seq(Msgs), s # <<>>
    PROVE  /\ Head(s) \in Elems(s) /\ Head(s) \in Msgs
           /\ Tail(s) \in Seq(Msgs)
           /\ Elems(s) = {Head(s)} \cup Elems(Tail(s))
<1>1. Head(s) = s[1] /\ 1 \in DOMAIN s /\ Tail(s) \in Seq(Msgs)
  OBVIOUS
<1>2. \A j \in DOMAIN Tail(s) : j + 1 \in DOMAIN s /\ Tail(s)[j] = s[j + 1]
  OBVIOUS
<1>3. \A j \in DOMAIN s : j = 1 \/ (j - 1 \in DOMAIN Tail(s) /\ s[j] = Tail(s)[j - 1])
  OBVIOUS
<1>4. Elems(Tail(s)) \subseteq Elems(s)
  BY <1>2 DEF Elems
<1>5. Elems(s) \subseteq {Head(s)} \cup Elems(Tail(s))
  BY <1>1, <1>3 DEF Elems
<1>6. Head(s) \in Elems(s)
  BY <1>1 DEF Elems
<1> QED  BY <1>1, <1>4, <1>5, <1>6

LEMMA ElemsConcat ==
    ASSUME NEW s \in Seq(Msgs), NEW r \in Seq(Msgs)
    PROVE  s \o r \in Seq(Msgs) /\ Elems(s \o r) = Elems(s) \cup Elems(r)
<1>1. s \o r \in Seq(Msgs) /\ Len(s \o r) = Len(s) + Len(r)
  OBVIOUS
<1>2. \A j \in DOMAIN (s \o r) :
        \/ j \in DOMAIN s /\ (s \o r)[j] = s[j]
        \/ j - Len(s) \in DOMAIN r /\ (s \o r)[j] = r[j - Len(s)]
  OBVIOUS
<1>3. \A j \in DOMAIN s : j \in DOMAIN (s \o r) /\ (s \o r)[j] = s[j]
  OBVIOUS
<1>4. \A j \in DOMAIN r : Len(s) + j \in DOMAIN (s \o r) /\ (s \o r)[Len(s) + j] = r[j]
  OBVIOUS
<1>5. Elems(s \o r) \subseteq Elems(s) \cup Elems(r)
  BY <1>2 DEF Elems
<1>6. Elems(s) \subseteq Elems(s \o r)
  BY <1>3 DEF Elems
<1>7. Elems(r) \subseteq Elems(s \o r)
  BY <1>4 DEF Elems
<1> QED  BY <1>1, <1>5, <1>6, <1>7

LEMMA ElemsShort ==
    /\ Elems(<<>>) = {}
    /\ \A m : Elems(<<m>>) = {m}
<1>1. \A m : <<m>>[1] = m /\ DOMAIN <<m>> = {1}
  OBVIOUS
<1>2. DOMAIN <<>> = {}
  OBVIOUS
<1> QED  BY <1>1, <1>2 DEF Elems

LEMMA OneElem ==
    ASSUME NEW s \in Seq(Msgs), Len(s) = 1
    PROVE  Tail(s) = <<>> /\ Elems(s) = {Head(s)}
<1>1. s # <<>>
  BY EmptySeq
<1>2. Tail(s) \in Seq(Msgs) /\ Len(Tail(s)) = 0
  BY <1>1, HeadTailProperties
<1>3. Tail(s) = <<>>
  BY <1>2, EmptySeq
<1> QED  BY <1>1, <1>3, ElemsTail, ElemsShort

LEMMA ElemsType == ASSUME NEW s \in Seq(Msgs) PROVE Elems(s) \subseteq Msgs
  BY DEF Elems

\* What a write does to each connection.
LEMMA WrittenAt ==
    ASSUME NEW dir \in [Ws -> Seq(Msgs)], NEW w, NEW ms \in Seq(Msgs), NEW v \in Ws
    PROVE  /\ Written(dir, w, ms)[v] =
                IF v = w /\ wsState[v] = "open" THEN dir[v] \o ms ELSE dir[v]
           /\ Elems(Written(dir, w, ms)[v]) =
                IF v = w /\ wsState[v] = "open" THEN Elems(dir[v]) \cup Elems(ms)
                ELSE Elems(dir[v])
<1>1. Written(dir, w, ms)[v] =
        IF v = w /\ wsState[v] = "open" THEN dir[v] \o ms ELSE dir[v]
  BY DEF Written
<1> QED  BY <1>1, ElemsConcat

LEMMA WrittenToServer ==
    ASSUME TypeInv, NEW w, NEW ms \in Seq(Msgs), c2s' = Written(c2s, w, ms)
    PROVE  \A v \in Ws :
             /\ c2s'[v] = IF v = w /\ wsState[v] = "open" THEN c2s[v] \o ms ELSE c2s[v]
             /\ Elems(c2s'[v]) = IF v = w /\ wsState[v] = "open"
                                 THEN Elems(c2s[v]) \cup Elems(ms) ELSE Elems(c2s[v])
<1>1. c2s \in [Ws -> Seq(Msgs)]
  BY DEF TypeInv, TypeOK, NetTypeOK
<1>2. \A v \in Ws :
        /\ Written(c2s, w, ms)[v] =
             IF v = w /\ wsState[v] = "open" THEN c2s[v] \o ms ELSE c2s[v]
        /\ Elems(Written(c2s, w, ms)[v]) =
             IF v = w /\ wsState[v] = "open" THEN Elems(c2s[v]) \cup Elems(ms)
             ELSE Elems(c2s[v])
  BY ONLY <1>1, WrittenAt, ms \in Seq(Msgs)
<1> QED  BY <1>2

LEMMA WrittenToClient ==
    ASSUME TypeInv, NEW w, NEW ms \in Seq(Msgs), s2c' = Written(s2c, w, ms)
    PROVE  \A v \in Ws :
             /\ s2c'[v] = IF v = w /\ wsState[v] = "open" THEN s2c[v] \o ms ELSE s2c[v]
             /\ Elems(s2c'[v]) = IF v = w /\ wsState[v] = "open"
                                 THEN Elems(s2c[v]) \cup Elems(ms) ELSE Elems(s2c[v])
<1>1. s2c \in [Ws -> Seq(Msgs)]
  BY DEF TypeInv, TypeOK, NetTypeOK
<1>2. \A v \in Ws :
        /\ Written(s2c, w, ms)[v] =
             IF v = w /\ wsState[v] = "open" THEN s2c[v] \o ms ELSE s2c[v]
        /\ Elems(Written(s2c, w, ms)[v]) =
             IF v = w /\ wsState[v] = "open" THEN Elems(s2c[v]) \cup Elems(ms)
             ELSE Elems(s2c[v])
  BY ONLY <1>1, WrittenAt, ms \in Seq(Msgs)
<1> QED  BY <1>2

LEMMA NothingWritten == ASSUME TypeInv, NEW w PROVE c2s = Written(c2s, w, <<>>)
<1>1. c2s \in [Ws -> Seq(Msgs)]
  BY DEF TypeInv, TypeOK, NetTypeOK
<1>2. \A v \in Ws : c2s[v] \o <<>> = c2s[v]
  BY <1>1
<1>3. w \in Ws => [c2s EXCEPT ![w] = @ \o <<>>] = c2s
  BY <1>1, <1>2
<1> QED  BY <1>3 DEF Written

-----------------------------------------------------------------------------
(* The client's steps, by what they do to the connection. *)

\* A call, a return or a wait: nothing but the goroutines, the application's
\* channels and what it holds.
Calm == UNCHANGED <<connVars, mu, dispVars, comp, histVars, netVars>>

Subscribes(t) ==
    \E chan \in {"none", "own"}, l \in {"idle", "subwait"} : AddSubscription(t, chan, l)

Publishing(t) ==
    \E chan \in {"none", "own", "app"}, l \in {"idle", "pubwait"} : Register(t, chan, l)

LEMMA ThreadCases ==
    ASSUME NEW t \in Threads, CallStep(t) \/ DrainStep(t) \/ MethodStep(t)
    PROVE  \/ Calm
           \/ Publishing(t) \/ Subscribes(t) \/ Unsubscribe(t) \/ UnsubscribeAll(t)
           \/ Dial(t) \/ LoginFail(t) \/ Welcome(t)
           \/ Disconnect(t) /\ connected
<1> USE DEF Calm, chanVars, netVars
<1>1. CASE CallStep(t)
  BY <1>1 DEF CallStep, Call, CallUnsubscribe
<1>2. CASE DrainStep(t)
  BY <1>2 DEF DrainStep, RecvError, RecvMessage, RecvCompletion, Recv
<1>3. CASE Publish(t) \/ PublishAsync(t)
  BY <1>3 DEF Publish, PublishAsync, Publishing
<1>4. CASE Subscribe(t) \/ SubscribeAsync(t)
  BY <1>4 DEF Subscribe, SubscribeAsync, Subscribes
<1>5. CASE NotConnected(t) \/ IsConnected(t) \/ ReconnectNoop(t) \/ DialFail(t)
  BY <1>5 DEF NotConnected, IsConnected, ReconnectNoop, DialFail
<1>6. CASE PublishDone(t) \/ PublishTimeout(t) \/ SubscribeDone(t) \/ SubscribeTimeout(t)
  BY <1>6 DEF PublishDone, PublishTimeout, SubscribeDone, SubscribeTimeout
<1>7. CASE WaitStart(t) \/ WaitEnd(t)
  BY <1>7 DEF WaitStart, WaitEnd
<1>8. CASE Disconnect(t) /\ ~connected
  BY <1>8 DEF Disconnect, connVars
<1> QED  BY <1>1, <1>2, <1>3, <1>4, <1>5, <1>6, <1>7, <1>8 DEF MethodStep


\* A goroutine that is connected writes ms.
Writes(ms) ==
    /\ connected /\ mu = Free
    /\ ms \in Seq(Msgs)
    /\ c2s' = Written(c2s, ws, ms)
    /\ UNCHANGED <<connected, ws, reconnectID, lastSeqNum, mu, dispVars, histVars,
                   wsState, s2c>>

LEMMA EnumerationIsOnto ==
    ASSUME NEW S, IsFiniteSet(S), NEW q \in [1..Cardinality(S) -> S],
           \A i, j \in 1..Cardinality(S) : i # j => q[i] # q[j]
    PROVE  Elems(q) = S
<1>1. Cardinality(S) \in Nat
  BY FS_CardinalityType
<1>2. IsFiniteSet(1..Cardinality(S)) /\ Cardinality(1..Cardinality(S)) = Cardinality(S)
  BY <1>1, FS_Interval
<1>3. q \in Injection(1..Cardinality(S), S)
  BY DEF Injection, IsInjective
<1>4. q \in Surjection(1..Cardinality(S), S)
  BY ONLY <1>2, <1>3, FS_Injection, IsFiniteSet(S)
<1>5. \A x \in S : \E i \in 1..Cardinality(S) : q[i] = x
  BY <1>4 DEF Surjection
<1> QED  BY <1>5 DEF Elems

LEMMA NumbersFinite ==
    ASSUME TypeInv
    PROVE  /\ IsFiniteSet(subs)
           /\ \A S \in SUBSET pubs : IsFiniteSet(S)
<1>1. subs \in SUBSET (1..MaxSub) /\ pubs \in SUBSET (1..MaxPub)
  BY DEF TypeInv, TypeOK, CliTypeOK, ConnTypeOK, Sids, Pubs
<1>2. IsFiniteSet(1..MaxSub) /\ IsFiniteSet(1..MaxPub)
  BY BoundsAssumption, FS_Interval
<1> QED  BY <1>1, <1>2, FS_Subset

\* A listing of the subscriptions names each of them.
LEMMA SubMsgsElems ==
    ASSUME TypeInv, NEW order \in Listings(subs), NEW op \in OpCodes
    PROVE  /\ SubMsgs(op, order) \in Seq(Msgs)
           /\ Elems(SubMsgs(op, order)) = {Msg(op, 0, i, TRUE) : i \in subs}
<1>1. SubMsgs(op, order) \in Seq(Msgs)
  BY SubsListing DEF TypeInv, TypeOK, CliTypeOK
<1>2. Elems(order) = subs
  BY NumbersFinite, EnumerationIsOnto DEF Listings
<1>3. Elems(SubMsgs(op, order)) = {Msg(op, 0, i, TRUE) : i \in Elems(order)}
  BY DEF Elems, SubMsgs
<1> QED  BY <1>1, <1>2, <1>3

\* What is sent again names each of the publishes.
LEMMA PubMsgsElems ==
    ASSUME TypeInv, NEW S \in SUBSET Resendable, NEW again \in Ascending(S)
    PROVE  /\ PubMsgs(again) \in Seq(Msgs)
           /\ Elems(PubMsgs(again)) = {Msg("publish", n, 0, TRUE) : n \in S}
<1>1. PubMsgs(again) \in Seq(Msgs)
  BY ResendableListing DEF TypeInv, TypeOK, CliTypeOK
<1>2. IsFiniteSet(S) /\ S \subseteq Nat
  BY NumbersFinite DEF Resendable, TypeInv, TypeOK, CliTypeOK, ConnTypeOK, Pubs
<1>3. Cardinality(S) \in Nat
  BY <1>2, FS_CardinalityType
<1>4. \A i, j \in 1..Cardinality(S) : i # j => again[i] # again[j]
  <2>1. \A i \in 1..Cardinality(S) : again[i] \in Nat
    BY <1>2 DEF Ascending
  <2>2. \A i, j \in 1..Cardinality(S) : i < j => again[i] < again[j]
    BY DEF Ascending
  <2> QED  BY ONLY <1>3, <2>1, <2>2
<1>5. Elems(again) = S
  BY <1>2, <1>4, EnumerationIsOnto DEF Ascending
<1>6. Elems(PubMsgs(again)) = {Msg("publish", n, 0, TRUE) : n \in Elems(again)}
  BY DEF Elems, PubMsgs
<1> QED  BY <1>1, <1>5, <1>6

\* What is delivered again names each of the unacknowledged events.
LEMMA RedeliveryElems ==
    ASSUME NEW S \in SUBSET Msgs, IsFiniteSet(S), NEW again \in InSeqOrder(S)
    PROVE  again \in Seq(Msgs) /\ Elems(again) = S
<1>1. again \in Seq(Msgs)
  BY RedeliveryType
<1>2. Cardinality(S) \in Nat
  BY FS_CardinalityType
<1>3. \A i, j \in 1..Cardinality(S) : i # j => again[i] # again[j]
  <2>1. \A m \in S : m.n \in Nat
    BY DEF Msgs
  <2> QED  BY <1>2, <2>1 DEF InSeqOrder
<1> QED  BY <1>1, <1>3, EnumerationIsOnto DEF InSeqOrder

LEMMA PublishingWrites ==
    ASSUME TypeInv, NEW t \in Threads, Publishing(t)
    PROVE  /\ \E ms : /\ Writes(ms)
                      /\ Elems(ms) \subseteq {Msg("publish", pubSeqNum', 0, TRUE)}
           /\ UNCHANGED <<subs, subSeqNum, sub>>
<1>1. PICK chan \in {"none", "own", "app"}, l \in {"idle", "pubwait"} : Register(t, chan, l)
  BY DEF Publishing
<1>2. pubSeqNum' \in Nat
  BY <1>1 DEF Register, TypeInv, TypeOK, CliTypeOK, ConnTypeOK
<1> DEFINE m == Msg("publish", pubSeqNum', 0, TRUE)
<1>3. <<m>> \in Seq(Msgs) /\ <<>> \in Seq(Msgs)
  <2>1. "publish" \in OpCodes /\ 0 \in Nat /\ TRUE \in BOOLEAN
    BY DEF OpCodes
  <2> QED  BY <1>2, <2>1, MsgType, EmptySeq
<1>4. c2s' = Written(c2s, ws, <<m>>) \/ c2s' = c2s
  BY <1>1 DEF Register
<1>5. c2s = Written(c2s, ws, <<>>)
  BY NothingWritten
<1>6. UNCHANGED <<connected, ws, reconnectID, lastSeqNum, mu, dispVars, histVars,
                   wsState, s2c, subs, subSeqNum, sub>> /\ connected /\ mu = Free
  BY <1>1 DEF Register
<1>7. CASE c2s' = Written(c2s, ws, <<m>>)
  <2>1. Writes(<<m>>)
    BY ONLY <1>3, <1>6, <1>7 DEF Writes
  <2> QED  BY <1>6, <2>1, ElemsShort
<1>8. CASE c2s' = c2s
  <2>1. Writes(<<>>)
    BY ONLY <1>3, <1>5, <1>6, <1>8 DEF Writes
  <2> QED  BY <1>6, <2>1, ElemsShort
<1> QED  BY <1>4, <1>7, <1>8

LEMMA SubscribesWrites ==
    ASSUME TypeInv, NEW t \in Threads, Subscribes(t)
    PROVE  \E ms : Writes(ms) /\ Elems(ms) = {Msg("subscribe", 0, subSeqNum', TRUE)}
<1>1. PICK chan \in {"none", "own"}, l \in {"idle", "subwait"} : AddSubscription(t, chan, l)
  BY DEF Subscribes
<1>2. subSeqNum' \in Nat
  BY <1>1 DEF AddSubscription, TypeInv, TypeOK, CliTypeOK, ConnTypeOK
<1> DEFINE m == Msg("subscribe", 0, subSeqNum', TRUE)
<1>3. <<m>> \in Seq(Msgs)
  BY <1>2, MsgType DEF OpCodes
<1>4. Writes(<<m>>)
  BY <1>1, <1>3 DEF AddSubscription, Writes
<1> QED  BY <1>4, ElemsShort

LEMMA UnsubscribeWrites ==
    ASSUME TypeInv, NEW t \in Threads, Unsubscribe(t)
    PROVE  \E ms : Writes(ms) /\ Elems(ms) = {Msg("unsubscribe", 0, arg[t], TRUE)}
<1> DEFINE m == Msg("unsubscribe", 0, arg[t], TRUE)
<1>1. <<m>> \in Seq(Msgs)
  <2>1. arg[t] \in Nat
    BY DEF TypeInv, TypeOK, CliTypeOK, ThreadTypeOK
  <2> QED  BY <2>1, MsgType DEF OpCodes
<1>2. Writes(<<m>>)
  BY <1>1 DEF Unsubscribe, Writes
<1> QED  BY <1>2, ElemsShort

LEMMA UnsubscribeAllWrites ==
    ASSUME TypeInv, NEW t \in Threads, UnsubscribeAll(t)
    PROVE  \E ms : Writes(ms) /\ Elems(ms) = {Msg("unsubscribe", 0, i, TRUE) : i \in subs}
<1>1. PICK order \in Listings(subs) : c2s' = Written(c2s, ws, SubMsgs("unsubscribe", order))
  BY DEF UnsubscribeAll
<1>2. Writes(SubMsgs("unsubscribe", order))
  BY <1>1, SubMsgsElems DEF UnsubscribeAll, Writes, OpCodes
<1> QED  BY <1>2, SubMsgsElems DEF OpCodes

\* Whatever a goroutine writes, it is not a login or an acknowledgement.
LEMMA ThreadWrites ==
    ASSUME TypeInv, NEW t \in Threads,
           Publishing(t) \/ Subscribes(t) \/ Unsubscribe(t) \/ UnsubscribeAll(t)
    PROVE  \E ms : Writes(ms) /\ Ops(ms) \subseteq {"publish", "subscribe", "unsubscribe"}
  BY PublishingWrites, SubscribesWrites, UnsubscribeWrites, UnsubscribeAllWrites
  DEF Ops, Msg

-----------------------------------------------------------------------------
(* The server's steps, by what they write. *)

ServerAnswer ==
    ServerPublish \/ ServerSubscribe \/ ServerUnsubscribe \/ ServerAck \/ ServerIgnore

LEMMA AnswerWrites ==
    ASSUME TypeInv, ServerAnswer
    PROVE  /\ srvWs \in Ws /\ c2s[srvWs] # <<>> /\ Head(c2s[srvWs]).op # "login"
           /\ c2s' = [c2s EXCEPT ![srvWs] = Tail(@)]
           /\ \E ms \in Seq(Msgs) :
                /\ s2c' = Written(s2c, srvWs, ms)
                /\ Ops(ms) \subseteq {"ack", "subscribed", "unsubscribed"}
                /\ "ack" \in Ops(ms) => ServerPublish
           /\ UNCHANGED <<wsState, srvWs, sess, sessOf, srvSeq>>
           /\ unacked' \subseteq unacked
<1>1. PICK op \in {"publish", "subscribe", "unsubscribe", "ack", "heartbeat", "disconnect"} :
        ServerReads(op)
  BY DEF ServerAnswer, ServerPublish, ServerSubscribe, ServerUnsubscribe, ServerAck,
    ServerIgnore
<1>2. /\ srvWs \in Ws /\ c2s[srvWs] # <<>> /\ Head(c2s[srvWs]).op # "login"
      /\ c2s' = [c2s EXCEPT ![srvWs] = Tail(@)]
      /\ UNCHANGED <<wsState, srvWs, sess, sessOf, srvSeq>>
  BY <1>1 DEF ServerReads
<1>3. SrvHead \in Msgs
  BY <1>1, ServerReadsType DEF TypeInv, TypeOK
<1>4. unacked' \subseteq unacked
  BY DEF ServerAnswer, ServerPublish, ServerSubscribe, ServerUnsubscribe, ServerAck,
    ServerIgnore
<1>5. \E ms \in Seq(Msgs) : /\ s2c' = Written(s2c, srvWs, ms)
                            /\ Ops(ms) \subseteq {"ack", "subscribed", "unsubscribed"}
                            /\ "ack" \in Ops(ms) => ServerPublish
  <2>1. CASE UNCHANGED s2c
    <3>1. s2c' = Written(s2c, srvWs, <<>>)
      <4>1. s2c \in [Ws -> Seq(Msgs)]
        BY DEF TypeInv, TypeOK, NetTypeOK
      <4>2. s2c[srvWs] \o <<>> = s2c[srvWs]
        BY <1>2, <4>1
      <4> QED  BY <2>1, <4>1, <4>2 DEF Written
    <3> QED  BY <3>1, EmptySeq, ElemsShort DEF Ops
  <2>2. ASSUME NEW m \in Msgs, s2c' = Written(s2c, srvWs, <<m>>),
               m.op \in {"ack", "subscribed", "unsubscribed"},
               m.op = "ack" => ServerPublish
        PROVE  \E ms \in Seq(Msgs) :
                 /\ s2c' = Written(s2c, srvWs, ms)
                 /\ Ops(ms) \subseteq {"ack", "subscribed", "unsubscribed"}
                 /\ "ack" \in Ops(ms) => ServerPublish
    <3>1. Ops(<<m>>) = {m.op} /\ <<m>> \in Seq(Msgs)
      BY ElemsShort DEF Ops
    <3> QED  BY <2>2, <3>1
  <2>3. SrvHead.n \in Nat /\ SrvHead.sid \in Nat
    BY <1>3 DEF Msgs
  <2>4. \A b \in BOOLEAN : /\ Msg("ack", SrvHead.n, 0, b) \in Msgs
                           /\ Msg("subscribed", 0, SrvHead.sid, b) \in Msgs
                           /\ Msg("unsubscribed", 0, SrvHead.sid, b) \in Msgs
    BY ONLY <2>3 DEF Msg, Msgs, OpCodes
  <2>5. CASE ServerPublish
    <3>1. PICK ok \in BOOLEAN : s2c' = Written(s2c, srvWs, <<Msg("ack", SrvHead.n, 0, ok)>>)
      BY <2>5 DEF ServerPublish
    <3> QED  BY <2>2, <2>4, <2>5, <3>1 DEF Msg
  <2>6. CASE ServerSubscribe
    <3>1. \/ s2c' = Written(s2c, srvWs, <<Msg("subscribed", 0, SrvHead.sid, TRUE)>>)
          \/ s2c' = Written(s2c, srvWs, <<Msg("unsubscribed", 0, SrvHead.sid, FALSE)>>)
      BY <2>6 DEF ServerSubscribe
    <3> QED  BY <2>2, <2>4, <3>1 DEF Msg
  <2>7. CASE ServerUnsubscribe \/ ServerAck \/ ServerIgnore
    BY <2>1, <2>7 DEF ServerUnsubscribe, ServerAck, ServerIgnore
  <2> QED  BY <2>5, <2>6, <2>7 DEF ServerAnswer
<1> QED  BY <1>2, <1>4, <1>5

LEMMA PushWrites ==
    ASSUME TypeInv, ServerPushes
    PROVE  /\ srvWs \in Ws
           /\ \E m \in Msgs :
                /\ s2c' = Written(s2c, srvWs, <<m>>)
                /\ m.op \in {"event", "unsubscribed", "heartbeat", "error"}
                /\ \/ UNCHANGED <<srvSeq, unacked>> /\ m.n = 0
                   \/ /\ m.op = "event" /\ m.n = srvSeq + 1
                      /\ srvSeq' = srvSeq + 1
                      /\ unacked' = unacked \cup {m}
                      /\ UNCHANGED srvSubs
                /\ \/ UNCHANGED srvSubs
                   \/ m.op = "unsubscribed" /\ srvSubs' = srvSubs \ {m.sid}
           /\ UNCHANGED <<wsState, c2s, srvWs, sess, sessOf, accepted, acked>>
<1>1. PICK sid \in srvSubs \cup {0} :
        \/ ServerEvent(sid)
        \/ \E op \in {"event", "unsubscribed", "heartbeat", "error"} : ServerPush(op, sid)
  BY DEF ServerPushes
<1>2. sid \in Nat /\ srvSeq \in Nat
  BY DEF TypeInv, TypeOK, SrvTypeOK
<1>3. CASE ServerEvent(sid)
  <2>1. Msg("event", srvSeq + 1, sid, TRUE) \in Msgs
    BY ONLY <1>2 DEF Msg, Msgs, OpCodes
  <2> QED  BY <1>3, <2>1 DEF ServerEvent, CanPush, Msg
<1>4. ASSUME NEW op \in {"event", "unsubscribed", "heartbeat", "error"}, ServerPush(op, sid)
      PROVE  \E m \in Msgs :
                /\ s2c' = Written(s2c, srvWs, <<m>>)
                /\ m.op = op /\ m.n = 0 /\ m.sid = sid
  <2>1. Msg(op, 0, sid, op # "unsubscribed") \in Msgs
    BY ONLY <1>2 DEF Msg, Msgs, OpCodes
  <2> QED  BY <1>4, <2>1 DEF ServerPush, Msg
<1>5. ASSUME NEW op \in {"event", "unsubscribed", "heartbeat", "error"}, ServerPush(op, sid)
      PROVE  /\ srvWs \in Ws
             /\ UNCHANGED <<srvSeq, unacked, wsState, c2s, srvWs, sess, sessOf,
                            accepted, acked>>
             /\ IF op = "unsubscribed" THEN srvSubs' = srvSubs \ {sid} ELSE UNCHANGED srvSubs
  BY <1>5 DEF ServerPush, CanPush
<1>6. CASE \E op \in {"event", "unsubscribed", "heartbeat", "error"} : ServerPush(op, sid)
  <2>1. PICK op \in {"event", "unsubscribed", "heartbeat", "error"} : ServerPush(op, sid)
    BY <1>6
  <2> QED  BY <1>4, <1>5, <2>1
<1> QED  BY <1>1, <1>3, <1>6

LEMMA LoginWrites ==
    ASSUME TypeInv, NEW w \in Ws, ServerLogin(w)
    PROVE  /\ c2s[w] # <<>> /\ Head(c2s[w]).op = "login"
           /\ c2s' = [v \in Ws |-> IF v = w THEN Tail(c2s[v]) ELSE <<>>]
           /\ srvWs' = w
           /\ sessOf' = [sessOf EXCEPT ![w] = sess']
           /\ \E ms \in Seq(Msgs), resume \in BOOLEAN :
                /\ s2c' = Written(s2c, w, <<Msg("welcome", sess', 0, resume)>> \o ms)
                /\ Elems(ms) = unacked' /\ ms \in InSeqOrder(unacked')
                /\ Msg("welcome", sess', 0, resume) \in Msgs
                /\ IF resume
                   THEN /\ UNCHANGED <<sess, srvSeq, unacked, srvSubs>>
                        /\ Head(c2s[w]).n = sess /\ sess # 0
                   ELSE /\ sess' = sess + 1 /\ srvSeq' = 0 /\ unacked' = {} /\ srvSubs' = {}
                        /\ Head(c2s[w]).n # sess \/ sess = 0 \/ "noresume" \in Faults
           /\ UNCHANGED <<wsState, accepted, acked>>
<1>1. PICK resume \in BOOLEAN :
        /\ resume => Head(c2s[w]).n = sess /\ sess # 0
        /\ ~resume => Head(c2s[w]).n # sess \/ sess = 0 \/ "noresume" \in Faults
        /\ sess' = IF resume THEN sess ELSE sess + 1
        /\ sessOf' = [sessOf EXCEPT ![w] = sess']
        /\ srvSubs' = IF resume THEN srvSubs ELSE {}
        /\ srvSeq' = IF resume THEN srvSeq ELSE 0
        /\ unacked' = IF resume THEN unacked ELSE {}
        /\ \E again \in InSeqOrder(unacked') :
             s2c' = Written(s2c, w, <<Msg("welcome", sess', 0, resume)>> \o again)
  BY DEF ServerLogin
<1>2. unacked' \subseteq Msgs /\ IsFiniteSet(unacked')
  BY <1>1, FS_EmptySet DEF TypeInv, TypeOK, SrvTypeOK
<1>3. PICK again \in InSeqOrder(unacked') :
        s2c' = Written(s2c, w, <<Msg("welcome", sess', 0, resume)>> \o again)
  BY <1>1
<1>4. again \in Seq(Msgs) /\ Elems(again) = unacked'
  BY <1>2, RedeliveryElems
<1>5. Msg("welcome", sess', 0, resume) \in Msgs
  <2>1. sess' \in Nat
    BY <1>1 DEF TypeInv, TypeOK, SrvTypeOK
  <2> QED  BY <2>1 DEF Msg, Msgs, OpCodes
<1>6. \E ms \in Seq(Msgs), b \in BOOLEAN :
        /\ s2c' = Written(s2c, w, <<Msg("welcome", sess', 0, b)>> \o ms)
        /\ Elems(ms) = unacked' /\ ms \in InSeqOrder(unacked')
        /\ Msg("welcome", sess', 0, b) \in Msgs
        /\ IF b
           THEN /\ UNCHANGED <<sess, srvSeq, unacked, srvSubs>>
                /\ Head(c2s[w]).n = sess /\ sess # 0
           ELSE /\ sess' = sess + 1 /\ srvSeq' = 0 /\ unacked' = {} /\ srvSubs' = {}
                /\ Head(c2s[w]).n # sess \/ sess = 0 \/ "noresume" \in Faults
  BY <1>1, <1>3, <1>4, <1>5
<1> QED  BY <1>1, <1>6 DEF ServerLogin

-----------------------------------------------------------------------------
(* Logins and sessions. *)

\* No login waits to be read by the server.
NoLogins == \A w \in Ws : "login" \notin Ops(c2s[w])

\* A connection begins with a login and has nothing else on it, either way,
\* until that is read; the session the client last learned of is not newer than
\* the server's.
WireInv ==
    /\ \A w \in Ws : wsState[w] = "unused" => c2s[w] = <<>> /\ s2c[w] = <<>>
    /\ \A w \in Ws : "login" \in Ops(c2s[w]) =>
          Len(c2s[w]) = 1 /\ s2c[w] = <<>> /\ srvWs # w
    /\ srvWs \in Ws => wsState[srvWs] # "unused" /\ sess = sessOf[srvWs]
    /\ \A u \in unacked : u.op = "event"
    /\ reconnectID <= sess
    /\ connected => reconnectID # 0

\* Once welcomed, the client's current connection is the server's, of the
\* session the client knows.
WelcomedInv ==
    \A w \in Ws : w = ws /\ dpc[w] # "none" =>
        NoLogins /\ srvWs = w /\ sess = reconnectID

\* While a connect() waits for its welcome: the server has read its login, and
\* answers to it, or has not, and has sent nothing.
LoginInv ==
    \A w \in Ws : w = ws /\ mu \in Threads =>
        /\ \A m \in Elems(c2s[w]) : m.op = "login" /\ m.n = reconnectID
        /\ "ack" \notin Ops(s2c[w])
        /\ srvWs = w => NoLogins
        /\ srvWs # w => s2c[w] = <<>>
        /\ \A m \in Elems(s2c[w]) : m.op = "welcome" =>
              /\ m.n = sess /\ m.n # 0
              /\ IF m.ok THEN m.n = reconnectID ELSE m.n > reconnectID

SessionInv == WireInv /\ WelcomedInv /\ LoginInv

\* Nothing is written, nobody logs in: connections close and what is on them
\* is read or lost.
LEMMA SessionShrink ==
    ASSUME TypeInv, SessionInv,
           UNCHANGED <<ws, reconnectID, srvWs, sess, sessOf, unacked>>,
           connected' => connected,
           \A w \in Ws : wsState'[w] = "unused" => wsState[w] = "unused",
           \A w \in Ws : c2s'[w] \in {c2s[w], <<>>},
           \A w \in Ws : Elems(s2c'[w]) \subseteq Elems(s2c[w])
                           /\ (s2c[w] = <<>> => s2c'[w] = <<>>),
           \A w \in Ws : dpc'[w] = "none" <=> dpc[w] = "none",
           mu' \in Threads => mu \in Threads
    PROVE  SessionInv'
<1>1. \A w \in Ws : Elems(c2s'[w]) \subseteq Elems(c2s[w]) /\ Ops(c2s'[w]) \subseteq Ops(c2s[w])
  BY ElemsShort DEF Ops
<1>2. \A w \in Ws : Ops(s2c'[w]) \subseteq Ops(s2c[w])
  BY DEF Ops
<1>3. NoLogins => NoLogins'
  BY <1>1 DEF NoLogins
<1>4. WireInv'
  <2>1. \A w \in Ws : "login" \in Ops(c2s'[w]) =>
          Len(c2s'[w]) = 1 /\ s2c'[w] = <<>> /\ srvWs # w
    BY <1>1, ElemsShort DEF SessionInv, WireInv, Ops
  <2> QED  BY <2>1 DEF SessionInv, WireInv
<1>5. WelcomedInv'
  BY <1>3 DEF SessionInv, WelcomedInv
<1>6. LoginInv'
  BY <1>1, <1>2, <1>3 DEF SessionInv, LoginInv
<1> QED  BY <1>4, <1>5, <1>6 DEF SessionInv

\* The welcomed client writes something else than a login.
LEMMA SessionSend ==
    ASSUME TypeInv, SessionInv, ws \in Ws, dpc[ws] # "none", mu' \notin Threads,
           NEW ms \in Seq(Msgs), "login" \notin Ops(ms),
           c2s' = Written(c2s, ws, ms),
           UNCHANGED <<ws, reconnectID, srvWs, sess, sessOf, unacked, s2c>>,
           connected' => connected,
           \A w \in Ws : wsState'[w] = "unused" => wsState[w] = "unused",
           \A w \in Ws : dpc'[w] = "none" <=> dpc[w] = "none"
    PROVE  SessionInv'
<1>1. NoLogins
  BY DEF SessionInv, WelcomedInv
<1>2. c2s \in [Ws -> Seq(Msgs)]
  BY DEF TypeInv, TypeOK, NetTypeOK
<1>3. \A w \in Ws : Elems(c2s'[w]) \subseteq Elems(c2s[w]) \cup Elems(ms)
  BY WrittenToServer
<1>4. NoLogins'
  BY <1>1, <1>3 DEF NoLogins, Ops
<1>5. \A w \in Ws : wsState[w] = "unused" => c2s'[w] = c2s[w]
  <2>1. \A w \in Ws : c2s'[w] = IF w = ws /\ wsState[w] = "open" THEN c2s[w] \o ms ELSE c2s[w]
    BY WrittenToServer
  <2> QED  BY <2>1
<1>6. WireInv'
  <2>1. \A w \in Ws : "login" \notin Ops(c2s'[w])
    BY <1>4 DEF NoLogins
  <2> QED  BY <1>5, <2>1 DEF SessionInv, WireInv
<1>7. WelcomedInv' /\ LoginInv'
  BY <1>4 DEF SessionInv, WelcomedInv, LoginInv
<1> QED  BY <1>6, <1>7 DEF SessionInv

\* Nobody who is connected waits for a welcome.
LEMMA ConnectedFacts ==
    ASSUME Inv, connected
    PROVE  ws \in Ws /\ dpc[ws] # "none" /\ mu \notin Threads
  BY DEF Inv, SocketInv, ConnectedHasDispatcher, LockDiscipline

LEMMA SessionDial ==
    ASSUME Inv, SessionInv, NEW t \in Threads, Dial(t),
           UNCHANGED <<srvWs, sess, sessOf, unacked>>
    PROVE  SessionInv'
<1>1. PICK w \in Ws : /\ wsState[w] = "unused" /\ ws' = w
                      /\ wsState' = [wsState EXCEPT ![w] = "open"]
                      /\ c2s' = [c2s EXCEPT ![w] = <<Msg("login", reconnectID, 0, TRUE)>>]
  BY DEF Dial
<1> DEFINE m == Msg("login", reconnectID, 0, TRUE)
<1>2. /\ \A v \in Ws : c2s'[v] = IF v = w THEN <<m>> ELSE c2s[v]
      /\ \A v \in Ws : wsState'[v] = IF v = w THEN "open" ELSE wsState[v]
  BY <1>1 DEF Inv, TypeInv, TypeOK, NetTypeOK
<1>3. UNCHANGED <<s2c, reconnectID, connected, dpc>>
  BY DEF Dial, dispVars
<1>4. srvWs # w /\ s2c[w] = <<>> /\ dpc[w] = "none"
  BY <1>1 DEF SessionInv, WireInv, Inv, SocketInv
<1>5. Elems(<<m>>) = {m} /\ Len(<<m>>) = 1 /\ m.n = reconnectID /\ m.op = "login"
  BY ElemsShort DEF Msg
<1> HIDE DEF m
<1>6. WireInv'
  <2>1. \A v \in Ws : wsState'[v] = "unused" => c2s'[v] = <<>> /\ s2c'[v] = <<>>
    BY <1>2, <1>3 DEF SessionInv, WireInv
  <2>2. \A v \in Ws : "login" \in Ops(c2s'[v]) =>
          Len(c2s'[v]) = 1 /\ s2c'[v] = <<>> /\ srvWs # v
    BY <1>2, <1>3, <1>4, <1>5 DEF SessionInv, WireInv
  <2> QED  BY <1>2, <1>3, <2>1, <2>2 DEF SessionInv, WireInv
<1>7. WelcomedInv'
  BY <1>1, <1>3, <1>4 DEF WelcomedInv
<1>8. LoginInv'
  <2>1. Elems(s2c'[w]) = {}
    BY <1>3, <1>4, ElemsShort
  <2>2. \A x \in Elems(c2s'[w]) : x.op = "login" /\ x.n = reconnectID'
    BY <1>2, <1>3, <1>5
  <2> QED  BY <1>1, <1>3, <1>4, <2>1, <2>2 DEF LoginInv, Ops
<1> QED  BY <1>6, <1>7, <1>8 DEF SessionInv

LEMMA WelcomeWrites ==
    ASSUME TypeInv, NEW t \in Threads, Welcome(t)
    PROVE  \E ms \in Seq(Msgs), again \in Seq(Msgs) :
             /\ c2s' = Written(c2s, ws, ms \o again)
             /\ Elems(ms) = {Msg("subscribe", 0, i, TRUE) : i \in subs}
             /\ Elems(again) = {Msg("publish", n, 0, TRUE) :
                                  n \in IF Head(s2c[ws]).ok THEN Resendable ELSE {}}
             /\ \E S \in SUBSET Resendable : \E q \in Ascending(S) : again = PubMsgs(q)
<1> DEFINE R == IF Head(s2c[ws]).ok THEN Resendable ELSE {}
<1>1. PICK order \in Listings(subs), again \in Ascending(R) :
        c2s' = Written(c2s, ws, SubMsgs("subscribe", order) \o PubMsgs(again))
  BY DEF Welcome
<1>2. R \in SUBSET Resendable
  OBVIOUS
<1>3. /\ SubMsgs("subscribe", order) \in Seq(Msgs)
      /\ Elems(SubMsgs("subscribe", order)) = {Msg("subscribe", 0, i, TRUE) : i \in subs}
  BY SubMsgsElems DEF OpCodes
<1> HIDE DEF R
<1>4. /\ PubMsgs(again) \in Seq(Msgs)
      /\ Elems(PubMsgs(again)) = {Msg("publish", n, 0, TRUE) : n \in R}
  BY <1>2, PubMsgsElems
<1> QED  BY <1>1, <1>2, <1>3, <1>4 DEF R

LEMMA SessionWelcome ==
    ASSUME Inv, SessionInv, NEW t \in Threads, Welcome(t),
           UNCHANGED <<srvWs, sess, sessOf, unacked>>
    PROVE  SessionInv'
<1>1. mu = t /\ ws \in Ws /\ mu' = Free
  BY DEF Inv, LockDiscipline, TypeInv, HasSocket, Welcome
<1>2. /\ s2c[ws] # <<>> /\ Head(s2c[ws]).op = "welcome"
      /\ s2c' = [s2c EXCEPT ![ws] = Tail(@)]
      /\ reconnectID' = Head(s2c[ws]).n
      /\ UNCHANGED <<ws, wsState>>
  BY DEF Welcome
<1>3. s2c[ws] \in Seq(Msgs) /\ c2s \in [Ws -> Seq(Msgs)] /\ s2c \in [Ws -> Seq(Msgs)]
  BY <1>1 DEF Inv, TypeInv, TypeOK, NetTypeOK
<1>4. Head(s2c[ws]) \in Elems(s2c[ws])
  BY <1>2, <1>3, ElemsTail
<1>5. srvWs = ws /\ NoLogins /\ reconnectID' = sess /\ sess # 0
  BY <1>1, <1>2, <1>4 DEF SessionInv, LoginInv
<1>6. PICK ms \in Seq(Msgs), again \in Seq(Msgs) :
             /\ c2s' = Written(c2s, ws, ms \o again)
             /\ Elems(ms) = {Msg("subscribe", 0, i, TRUE) : i \in subs}
             /\ Elems(again) = {Msg("publish", n, 0, TRUE) :
                                  n \in IF Head(s2c[ws]).ok THEN Resendable ELSE {}}
  BY WelcomeWrites DEF Inv
<1>7. ms \o again \in Seq(Msgs) /\ "login" \notin Ops(ms \o again)
  BY <1>6, ElemsConcat DEF Ops, Msg
<1>8. \A w \in Ws : /\ Elems(c2s'[w]) \subseteq Elems(c2s[w]) \cup Elems(ms \o again)
                    /\ wsState[w] = "unused" => c2s'[w] = c2s[w]
  <2>1. PICK all \in Seq(Msgs) : all = ms \o again
    BY <1>7
  <2>2. c2s' = Written(c2s, ws, all) /\ TypeInv
    BY <1>6, <2>1 DEF Inv
  <2>3. \A w \in Ws : Elems(c2s'[w]) \subseteq Elems(c2s[w]) \cup Elems(all)
    BY ONLY <2>2, all \in Seq(Msgs), WrittenToServer
  <2>4. \A w \in Ws : c2s'[w] = IF w = ws /\ wsState[w] = "open" THEN c2s[w] \o all ELSE c2s[w]
    BY ONLY <2>2 DEF Written, TypeInv, TypeOK, NetTypeOK
  <2> QED  BY <2>1, <2>3, <2>4
<1>9. NoLogins'
  BY <1>5, <1>7, <1>8 DEF NoLogins, Ops
<1>10. \A w \in Ws : wsState[w] = "unused" => s2c'[w] = s2c[w]
  BY <1>2, <1>3 DEF SessionInv, WireInv
<1>11. WireInv'
  <2>1. sess \in Nat /\ \A w \in Ws : "login" \notin Ops(c2s'[w])
    BY <1>9 DEF NoLogins, Inv, TypeInv, TypeOK, SrvTypeOK
  <2> QED  BY <1>2, <1>5, <1>8, <1>10, <2>1 DEF SessionInv, WireInv
<1>12. WelcomedInv'
  BY <1>2, <1>5, <1>9 DEF WelcomedInv
<1>13. LoginInv'
  BY <1>1, ThreadsAssumption DEF LoginInv, Free
<1> QED  BY <1>11, <1>12, <1>13 DEF SessionInv

LEMMA SessionThread ==
    ASSUME Inv, SessionInv, UNCHANGED srvVars,
           NEW t \in Threads, CallStep(t) \/ DrainStep(t) \/ MethodStep(t)
    PROVE  SessionInv'
<1> USE DEF connVars, dispVars, netVars, srvVars, histVars
<1>0. TypeInv
  BY DEF Inv
<1>1. CASE Calm
  BY <1>0, <1>1, SessionShrink DEF Calm
<1>2. CASE Publishing(t) \/ Subscribes(t) \/ Unsubscribe(t) \/ UnsubscribeAll(t)
  <2>1. PICK ms : Writes(ms) /\ Ops(ms) \subseteq {"publish", "subscribe", "unsubscribe"}
    BY <1>0, <1>2, ThreadWrites
  <2> QED  BY <1>0, <2>1, ConnectedFacts, SessionSend DEF Writes
<1>3. CASE Dial(t)
  BY <1>3, SessionDial
<1>4. CASE LoginFail(t)
  <2>1. \A w \in Ws : wsState'[w] = "unused" => wsState[w] = "unused"
    BY <1>0, <1>4 DEF LoginFail, TypeInv, TypeOK, NetTypeOK
  <2> QED  BY <1>0, <1>4, <2>1, SessionShrink, ThreadsAssumption DEF LoginFail, Free
<1>5. CASE Welcome(t)
  BY <1>5, SessionWelcome
<1>6. CASE Disconnect(t) /\ connected
  <2>1. <<Msg("disconnect", 0, 0, TRUE)>> \in Seq(Msgs)
    BY MsgType DEF OpCodes
  <2>2. Ops(<<Msg("disconnect", 0, 0, TRUE)>>) = {"disconnect"}
    BY ElemsShort DEF Ops, Msg
  <2>3. \A w \in Ws : wsState'[w] = "unused" => wsState[w] = "unused"
    BY <1>0, <1>6 DEF Disconnect, TypeInv, TypeOK, NetTypeOK
  <2>4. mu' \notin Threads
    BY <1>6, ConnectedFacts DEF Disconnect
  <2> QED  BY <1>0, <1>6, <2>1, <2>2, <2>3, <2>4, ConnectedFacts, SessionSend DEF Disconnect
<1> QED  BY <1>1, <1>2, <1>3, <1>4, <1>5, <1>6, ThreadCases

LEMMA SessionDispatch ==
    ASSUME Inv, ListenInv, SessionInv, UNCHANGED srvVars,
           NEW k \in Dispatchers, DispatchStep(k)
    PROVE  SessionInv'
<1> USE DEF connVars, dispVars, netVars, srvVars
<1>0. TypeInv /\ DispTypeOK /\ k \notin Threads
  BY ThreadsAssumption DEF Inv, TypeInv, TypeOK, CliTypeOK, Dispatchers, Ws
<1>1. \A l : Step(k, l) /\ l # "none" /\ dpc[k] # "none" =>
        \A w \in Ws : dpc'[w] = "none" <=> dpc[w] = "none"
  BY <1>0 DEF Step, DispTypeOK
<1>2. ASSUME NEW l, l # "none", dpc[k] # "none", Step(k, l),
             mu' \in {mu, k, Free}, connected' => connected,
             UNCHANGED <<ws, reconnectID, netVars>>
      PROVE  SessionInv'
  BY <1>0, <1>1, <1>2, SessionShrink, ThreadsAssumption DEF Free
<1>3. CASE ReadTop(k) \/ Lock(k)
  BY <1>2, <1>3 DEF ReadTop, Lock
<1>4. CASE HandleSubscribed(k) \/ HandleUnsubscribed(k) \/ HandleAck(k)
  BY <1>2, <1>4 DEF HandleSubscribed, HandleUnsubscribed, HandleAck, Handles, Unlock
<1>5. CASE SendError(k) \/ AckDone(k) \/ FailDone(k) \/ Exit(k)
  BY <1>2, <1>5 DEF SendError, AckDone, FailDone, Exit, Unlock
<1>6. CASE Complete(k)
  BY <1>0, <1>6, SessionShrink DEF Complete
<1>7. CASE ReadMsg(k) \/ ReadErr(k)
  <2>1. PICK r \in Ws : r = rd[k]
    BY <1>7 DEF ReadMsg, ReadErr, Inv, TypeInv, HasSocket
  <2>2. s2c \in [Ws -> Seq(Msgs)]
    BY <1>0 DEF TypeInv, TypeOK, NetTypeOK
  <2>3. \/ s2c[r] # <<>> /\ s2c' = [s2c EXCEPT ![r] = Tail(@)]
        \/ s2c' = [s2c EXCEPT ![r] = <<>>]
    BY <1>7, <2>1 DEF ReadMsg, ReadErr
  <2>4. \A w \in Ws : Elems(s2c'[w]) \subseteq Elems(s2c[w])
                        /\ (s2c[w] = <<>> => s2c'[w] = <<>>)
    <3>1. \A w \in Ws : w # r => s2c'[w] = s2c[w]
      BY <2>2, <2>3
    <3>2. s2c[r] \in Seq(Msgs)
      BY <2>2
    <3>3. \/ s2c[r] # <<>> /\ s2c'[r] = Tail(s2c[r])
          \/ s2c'[r] = <<>>
      BY <2>2, <2>3
    <3>4. Elems(s2c'[r]) \subseteq Elems(s2c[r]) /\ (s2c[r] = <<>> => s2c'[r] = <<>>)
      BY ONLY <3>2, <3>3, ElemsTail, ElemsShort
    <3> QED  BY <3>1, <3>4
  <2>5. \A w \in Ws : dpc'[w] = "none" <=> dpc[w] = "none"
    BY <1>1, <1>7 DEF ReadMsg, ReadErr
  <2>6. UNCHANGED <<connVars, mu, wsState, c2s>>
    BY <1>7 DEF ReadMsg, ReadErr
  <2> QED  BY <1>0, <2>4, <2>5, <2>6, SessionShrink
<1>8. CASE HandleHeartbeat(k) \/ HandleMessage(k)
  <2>1. k = ws /\ dpc[k] # "none"
    BY <1>8 DEF HandleHeartbeat, HandleMessage, Handles, ListenInv, ListenersInv, Listening
  <2>2. cur[k] \in Msgs /\ cur[k].n \in Nat /\ cur[k].op # "login"
    BY <1>0, <1>8 DEF DispTypeOK, Msgs, HandleHeartbeat, HandleMessage, Handles
  <2>3. PICK ms \in Seq(Msgs) : "login" \notin Ops(ms) /\ c2s' = Written(c2s, ws, ms)
    <3>0. \A m \in Msgs : <<m>> \in Seq(Msgs)
      OBVIOUS
    <3>1. \A m \in Msgs : m.op # "login" =>
            <<m>> \in Seq(Msgs) /\ "login" \notin Ops(<<m>>)
      BY ONLY <3>0, ElemsShort DEF Ops
    <3>2. <<>> \in Seq(Msgs) /\ "login" \notin Ops(<<>>)
      BY EmptySeq, ElemsShort DEF Ops
    <3>3. CASE HandleHeartbeat(k)
      BY <2>2, <3>1, <3>3 DEF HandleHeartbeat
    <3>4. CASE HandleMessage(k)
      <4>1. Msg("ack", cur[k].n, 0, TRUE) \in Msgs /\ Msg("ack", cur[k].n, 0, TRUE).op = "ack"
        BY <2>2 DEF Msg, Msgs, OpCodes
      <4>2. c2s = Written(c2s, ws, <<>>)
        BY <1>0, NothingWritten
      <4> QED  BY <3>1, <3>2, <3>4, <4>1, <4>2 DEF HandleMessage
    <3> QED  BY <1>8, <3>3, <3>4
  <2>4. mu' \notin Threads /\ \A w \in Ws : dpc'[w] = "none" <=> dpc[w] = "none"
    BY <1>1, <1>8, <2>1, ThreadsAssumption DEF HandleHeartbeat, HandleMessage, Unlock, Free
  <2>5. UNCHANGED <<ws, reconnectID, connected, wsState, s2c>>
    BY <1>8 DEF HandleHeartbeat, HandleMessage
  <2>6. ws \in Ws
    BY <2>1 DEF Dispatchers
  <2> QED  BY <1>0, <2>1, <2>3, <2>4, <2>5, <2>6, SessionSend
<1>9. CASE HandleDisconnect(k)
  <2>1. \A w \in Ws : wsState'[w] = "unused" => wsState[w] = "unused"
    BY <1>0, <1>9 DEF HandleDisconnect, TypeInv, TypeOK, NetTypeOK
  <2>2. \A w \in Ws : dpc'[w] = "none" <=> dpc[w] = "none"
    BY <1>1, <1>9 DEF HandleDisconnect
  <2>3. /\ UNCHANGED <<ws, reconnectID, c2s, s2c>>
        /\ connected' => connected
        /\ mu' \in Threads => mu \in Threads
    BY <1>0, <1>9 DEF HandleDisconnect
  <2> QED  BY <1>0, <2>1, <2>2, <2>3, SessionShrink
<1> QED  BY <1>3, <1>4, <1>5, <1>6, <1>7, <1>8, <1>9 DEF DispatchStep

\* The server's answers and its pushes leave sessions and logins alone.
LEMMA SessionServer ==
    ASSUME TypeInv, SessionInv, NEW ms \in Seq(Msgs),
           s2c' = Written(s2c, srvWs, ms), srvWs \in Ws,
           "ack" \in Ops(ms) => "login" \notin Ops(c2s[srvWs]) /\ c2s[srvWs] # <<>>,
           "welcome" \notin Ops(ms),
           \A w \in Ws : Elems(c2s'[w]) \subseteq Elems(c2s[w]),
           \A w \in Ws : c2s[w] = <<>> => c2s'[w] = <<>>,
           \A w \in Ws : "login" \in Ops(c2s[w]) => c2s'[w] = c2s[w],
           \A u \in unacked' : u.op = "event",
           UNCHANGED <<ws, reconnectID, srvWs, sess, sessOf, connected, wsState, dpc, mu>>
    PROVE  SessionInv'
<1>1. \A w \in Ws : /\ wsState[w] = "unused" => s2c'[w] = s2c[w]
                    /\ w # srvWs => s2c'[w] = s2c[w]
                    /\ Elems(s2c'[w]) \subseteq Elems(s2c[w]) \cup Elems(ms)
  <2>1. \A w \in Ws : s2c'[w] = IF w = srvWs /\ wsState[w] = "open"
                                THEN s2c[w] \o ms ELSE s2c[w]
    BY DEF Written, TypeInv, TypeOK, NetTypeOK
  <2>2. \A w \in Ws : Elems(s2c'[w]) \subseteq Elems(s2c[w]) \cup Elems(ms)
    BY WrittenToClient
  <2> QED  BY <2>1, <2>2
<1>2. \A w \in Ws : Ops(c2s'[w]) \subseteq Ops(c2s[w])
  BY DEF Ops
<1>3. NoLogins => NoLogins'
  BY <1>2 DEF NoLogins
<1>4. WireInv'
  <2>1. \A w \in Ws : "login" \in Ops(c2s'[w]) =>
          Len(c2s'[w]) = 1 /\ s2c'[w] = <<>> /\ srvWs # w
    BY <1>1, <1>2 DEF SessionInv, WireInv
  <2> QED  BY <1>1, <2>1 DEF SessionInv, WireInv
<1>5. WelcomedInv'
  BY <1>3 DEF SessionInv, WelcomedInv
<1>6. LoginInv'
  <2>1. SUFFICES ASSUME NEW w \in Ws, w = ws, mu \in Threads
                 PROVE  LoginInv'
    BY DEF LoginInv
  <2>2. /\ \A m \in Elems(c2s'[w]) : m.op = "login" /\ m.n = reconnectID
        /\ srvWs = w => NoLogins'
        /\ srvWs # w => s2c'[w] = <<>>
    BY <1>1, <1>3, <2>1 DEF SessionInv, LoginInv
  <2>3. \A m \in Elems(s2c'[w]) : m.op = "welcome" =>
              /\ m.n = sess /\ m.n # 0
              /\ IF m.ok THEN m.n = reconnectID ELSE m.n > reconnectID
    <3>1. \A m \in Elems(ms) : m.op # "welcome"
      BY DEF Ops
    <3> QED  BY <1>1, <2>1, <3>1 DEF SessionInv, LoginInv
  <2>4. "ack" \notin Ops(s2c'[w])
    <3>1. CASE "ack" \notin Ops(ms)
      BY <1>1, <2>1, <3>1 DEF SessionInv, LoginInv, Ops
    <3>2. CASE "ack" \in Ops(ms)
      <4>1. Head(c2s[srvWs]) \in Elems(c2s[srvWs])
        BY <3>2, ElemsTail DEF TypeInv, TypeOK, NetTypeOK
      <4>2. \E m \in Elems(c2s[srvWs]) : m.op # "login"
        BY <3>2, <4>1 DEF Ops
      <4>3. srvWs # w
        BY <2>1, <4>2 DEF SessionInv, LoginInv
      <4> QED  BY <1>1, <2>1, <4>3 DEF SessionInv, LoginInv
    <3> QED  BY <3>1, <3>2
  <2> QED  BY <2>1, <2>2, <2>3, <2>4 DEF LoginInv
<1> QED  BY <1>4, <1>5, <1>6 DEF SessionInv

LEMMA SessionLogin ==
    ASSUME TypeInv, SessionInv, NEW w \in Ws, ServerLogin(w),
           UNCHANGED <<connVars, mu, dispVars>>
    PROVE  SessionInv'
<1>1. /\ c2s \in [Ws -> Seq(Msgs)] /\ s2c \in [Ws -> Seq(Msgs)]
      /\ reconnectID \in Nat /\ sess \in Nat
  BY DEF TypeInv, TypeOK, NetTypeOK, SrvTypeOK, CliTypeOK, ConnTypeOK
<1>2. /\ c2s[w] # <<>> /\ Head(c2s[w]).op = "login"
      /\ c2s' = [v \in Ws |-> IF v = w THEN Tail(c2s[v]) ELSE <<>>]
      /\ srvWs' = w /\ sessOf' = [sessOf EXCEPT ![w] = sess']
      /\ UNCHANGED wsState
  BY LoginWrites
<1>3. PICK ms \in Seq(Msgs), resume \in BOOLEAN :
        /\ s2c' = Written(s2c, w, <<Msg("welcome", sess', 0, resume)>> \o ms)
        /\ Elems(ms) = unacked'
        /\ Msg("welcome", sess', 0, resume) \in Msgs
        /\ IF resume
           THEN UNCHANGED <<sess, unacked>> /\ Head(c2s[w]).n = sess /\ sess # 0
           ELSE sess' = sess + 1 /\ unacked' = {}
  BY LoginWrites
<1>4. Head(c2s[w]) \in Elems(c2s[w])
  BY <1>1, <1>2, ElemsTail
<1>5. "login" \in Ops(c2s[w]) /\ ~NoLogins
  BY <1>2, <1>4 DEF Ops, NoLogins
<1>6. \A v \in Ws : c2s'[v] = <<>>
  <2>1. c2s[w] \in Seq(Msgs) /\ Len(c2s[w]) = 1
    BY <1>1, <1>5 DEF SessionInv, WireInv
  <2>2. Tail(c2s[w]) = <<>>
    BY ONLY <2>1, OneElem
  <2> QED  BY <1>2, <2>2
<1>7. NoLogins'
  BY <1>6, ElemsShort DEF NoLogins, Ops
<1> DEFINE hello == Msg("welcome", sess', 0, resume)
<1>8. hello \in Msgs /\ hello.op = "welcome" /\ hello.n = sess' /\ hello.ok = resume
  BY <1>3 DEF Msg
<1> HIDE DEF hello
<1>9. PICK all \in Seq(Msgs) : all = <<hello>> \o ms /\ Elems(all) = {hello} \cup unacked'
  <2>1. <<hello>> \in Seq(Msgs)
    BY <1>8
  <2> QED  BY <1>3, <2>1, ElemsConcat, ElemsShort
<1>10. \A v \in Ws : s2c'[v] = IF v = w /\ wsState[v] = "open" THEN s2c[v] \o all ELSE s2c[v]
  BY <1>1, <1>3, <1>9 DEF Written, hello
<1>11. wsState[w] # "unused" /\ s2c[w] \in Seq(Msgs)
  BY <1>1, <1>2 DEF SessionInv, WireInv
<1>12. WireInv'
  <2>1. \A u \in unacked' : u.op = "event"
    BY <1>3 DEF SessionInv, WireInv
  <2>2. reconnectID' <= sess' /\ (connected' => reconnectID' # 0)
    BY <1>1, <1>3 DEF SessionInv, WireInv, connVars
  <2>3. srvWs' \in Ws => wsState'[srvWs'] # "unused" /\ sess' = sessOf'[srvWs']
    BY <1>2, <1>11 DEF TypeInv, TypeOK, SrvTypeOK
  <2>4. \A v \in Ws : wsState'[v] = "unused" => c2s'[v] = <<>> /\ s2c'[v] = <<>>
    BY <1>2, <1>6, <1>10, <1>11 DEF SessionInv, WireInv
  <2>5. \A v \in Ws : "login" \notin Ops(c2s'[v])
    BY <1>7 DEF NoLogins
  <2> QED  BY <2>1, <2>2, <2>3, <2>4, <2>5 DEF WireInv
<1>13. WelcomedInv'
  BY <1>5 DEF WelcomedInv, SessionInv, connVars, dispVars
<1>14. LoginInv'
  <2>1. SUFFICES ASSUME NEW v \in Ws, v = ws, mu \in Threads
                 PROVE  /\ srvWs' # v => s2c'[v] = <<>>
                        /\ \A m \in Elems(s2c'[v]) : m.op # "ack"
                        /\ \A m \in Elems(s2c'[v]) : m.op = "welcome" =>
                              /\ m.n = sess' /\ m.n # 0
                              /\ IF m.ok THEN m.n = reconnectID ELSE m.n > reconnectID
    BY <1>6, <1>7, ElemsShort DEF LoginInv, connVars, Ops
  <2>2. s2c[v] = <<>>
    BY <1>5, <2>1 DEF SessionInv, LoginInv
  <2>3. CASE s2c'[v] = s2c[v]
    BY <2>2, <2>3, ElemsShort
  <2>4. CASE v = w /\ s2c'[v] = s2c[v] \o all
    <3>1. Elems(s2c'[v]) = {hello} \cup unacked'
      <4>1. <<>> \o all = all
        BY ONLY all \in Seq(Msgs)
      <4> QED  BY <2>2, <2>4, <1>9, <4>1
    <3>2. \A u \in unacked' : u.op = "event"
      BY <1>3 DEF SessionInv, WireInv
    <3>3. resume => sess' = reconnectID /\ sess' # 0
      BY <1>3, <1>4, <2>1, <2>4 DEF SessionInv, LoginInv
    <3>4. ~resume => sess' > reconnectID /\ sess' # 0
      BY <1>1, <1>3 DEF SessionInv, WireInv
    <3> QED  BY <1>2, <1>8, <2>4, <3>1, <3>2, <3>3, <3>4
  <2> QED  BY <1>10, <2>3, <2>4
<1> QED  BY <1>12, <1>13, <1>14 DEF SessionInv

LEMMA SessionEnv ==
    ASSUME TypeInv, SessionInv, ServerReply \/ ServerPushes,
           UNCHANGED <<connVars, mu, dispVars>>
    PROVE  SessionInv'
<1>0. c2s \in [Ws -> Seq(Msgs)]
  BY DEF TypeInv, TypeOK, NetTypeOK
<1>1. CASE \E w \in Ws : ServerLogin(w)
  BY <1>1, SessionLogin
<1>2. CASE ServerAnswer
  <2>1. /\ srvWs \in Ws /\ c2s[srvWs] # <<>> /\ Head(c2s[srvWs]).op # "login"
        /\ c2s' = [c2s EXCEPT ![srvWs] = Tail(@)]
        /\ UNCHANGED <<wsState, srvWs, sess, sessOf>>
        /\ unacked' \subseteq unacked
    BY <1>2, AnswerWrites
  <2>2. PICK ms \in Seq(Msgs) : /\ s2c' = Written(s2c, srvWs, ms)
                                /\ Ops(ms) \subseteq {"ack", "subscribed", "unsubscribed"}
    BY <1>2, AnswerWrites
  <2>3. PICK v \in Ws : v = srvWs
    BY <2>1
  <2>4. c2s[v] \in Seq(Msgs) /\ c2s[v] # <<>> /\ c2s'[v] = Tail(c2s[v])
    BY <1>0, <2>1, <2>3
  <2>5. Elems(c2s'[v]) \subseteq Elems(c2s[v]) /\ Head(c2s[v]) \in Elems(c2s[v])
    BY <2>4, ElemsTail
  <2>6. "login" \notin Ops(c2s[v])
    <3>1. Len(c2s[v]) = 1 => Elems(c2s[v]) = {Head(c2s[v])}
      BY ONLY <2>4, OneElem
    <3> QED  BY <2>1, <2>3, <3>1 DEF SessionInv, WireInv, Ops
  <2>7. \A w \in Ws : w # v => c2s'[w] = c2s[w]
    BY <1>0, <2>1, <2>3
  <2> QED  BY <2>1, <2>2, <2>3, <2>4, <2>5, <2>6, <2>7, SessionServer
    DEF SessionInv, WireInv, connVars, dispVars
<1>3. CASE ServerPushes
  <2>1. PICK m \in Msgs :
                /\ s2c' = Written(s2c, srvWs, <<m>>)
                /\ m.op \in {"event", "unsubscribed", "heartbeat", "error"}
                /\ \/ UNCHANGED <<srvSeq, unacked>> /\ m.n = 0
                   \/ /\ m.op = "event" /\ m.n = srvSeq + 1
                      /\ srvSeq' = srvSeq + 1
                      /\ unacked' = unacked \cup {m}
                      /\ UNCHANGED srvSubs
    BY <1>3, PushWrites
  <2>2. srvWs \in Ws /\ UNCHANGED <<wsState, c2s, srvWs, sess, sessOf>>
    BY <1>3, PushWrites
  <2>3. <<m>> \in Seq(Msgs) /\ Ops(<<m>>) = {m.op}
    BY ElemsShort DEF Ops
  <2>4. \A u \in unacked' : u.op = "event"
    BY <2>1 DEF SessionInv, WireInv
  <2> QED  BY <2>1, <2>2, <2>3, <2>4, SessionServer DEF connVars, dispVars
<1> QED  BY <1>1, <1>2, <1>3 DEF ServerReply, ServerAnswer

LEMMA SessionInit == Init => SessionInv
<1> SUFFICES ASSUME Init PROVE SessionInv
  OBVIOUS
<1>1. NoLogins /\ \A w \in Ws : "login" \notin Ops(c2s[w])
  BY ElemsShort DEF Init, NetInit, NoLogins, Ops
<1> QED  BY <1>1, ThreadsAssumption DEF Init, NetInit, SrvInit, CliInit, SessionInv, WireInv,
    WelcomedInv, LoginInv, Free, Ws

LEMMA SessionNext ==
    ASSUME Inv, ListenInv, SessionInv, [Next]_vars
    PROVE  SessionInv'
<1>0. TypeInv /\ c2s \in [Ws -> Seq(Msgs)]
  BY DEF Inv, TypeInv, TypeOK, NetTypeOK
<1>1. CASE ClientNext
  BY <1>1, SessionThread, SessionDispatch DEF ClientNext
<1>2. CASE EnvNext
  BY <1>0, <1>2, SessionEnv DEF EnvNext, cliVars
<1>3. CASE BreakNext
  <2>1. PICK v \in Ws : Break(v)
    BY <1>3 DEF BreakNext
  <2>2. /\ \A w \in Ws : wsState'[w] = "unused" => wsState[w] = "unused"
        /\ \A w \in Ws : c2s'[w] \in {c2s[w], <<>>}
        /\ UNCHANGED s2c
    BY <1>0, <2>1 DEF Break, TypeInv, TypeOK, NetTypeOK
  <2> QED  BY <1>0, <1>3, <2>2, SessionShrink
    DEF BreakNext, cliVars, connVars, dispVars, srvVars
<1>4. CASE UNCHANGED vars
  BY <1>0, <1>4, SessionShrink DEF vars, cliVars, netVars, connVars, dispVars, srvVars
<1> QED  BY <1>1, <1>2, <1>3, <1>4 DEF Next

LEMMA SessionCorrect == DisconnectAlone => (Spec => [](Inv /\ ListenInv /\ SessionInv))
<1> SUFFICES ASSUME DisconnectAlone PROVE Spec => [](Inv /\ ListenInv /\ SessionInv)
  OBVIOUS
<1>1. Init => SessionInv
  BY SessionInit
<1>2. Inv /\ ListenInv /\ SessionInv /\ [Next]_vars => SessionInv'
  BY SessionNext
<1> QED  BY <1>1, <1>2, ListenCorrect, PTL DEF Spec

-----------------------------------------------------------------------------
(* The order of delivery. *)

\* What was delivered is of a session the client knew, and what is of the
\* present one is not above lastSeqNum.
DeliveryInv ==
    /\ \A i \in DOMAIN delivered :
        /\ delivered[i][1] <= reconnectID
        /\ delivered[i][1] = reconnectID => delivered[i][2] <= lastSeqNum
    /\ DeliveredInOrder

\* The welcome a connect() reads is of the session it knew, or of a newer one.
LEMMA WelcomeSession ==
    ASSUME Inv, SessionInv, NEW t \in Threads, Welcome(t)
    PROVE  /\ reconnectID' = sess /\ srvWs = ws /\ NoLogins
           /\ IF Head(s2c[ws]).ok
              THEN reconnectID' = reconnectID /\ lastSeqNum' = lastSeqNum
              ELSE reconnectID' > reconnectID /\ lastSeqNum' = 0
<1>1. mu = t /\ ws \in Ws /\ s2c[ws] # <<>> /\ Head(s2c[ws]).op = "welcome"
  BY DEF Inv, LockDiscipline, TypeInv, HasSocket, Welcome
<1>2. s2c[ws] \in Seq(Msgs)
  BY <1>1 DEF Inv, TypeInv, TypeOK, NetTypeOK
<1>3. Head(s2c[ws]) \in Elems(s2c[ws])
  BY <1>1, <1>2, ElemsTail
<1> QED  BY <1>1, <1>3 DEF SessionInv, LoginInv, Welcome, LastSeqFor

\* An event that is handled is of the present session.
LEMMA HandledSession ==
    ASSUME Inv, ListenInv, SessionInv, NEW k \in Dispatchers,
           dpc[k] \in {"reading", "msg", "handle", "complete"}
    PROVE  k = ws /\ rd[k] = k /\ srvWs = k /\ sess = reconnectID /\ sessOf[k] = reconnectID
<1>1. k = ws /\ rd[k] = ws
  BY DEF ListenInv, ListenersInv, Listening
<1>2. srvWs = k /\ sess = reconnectID
  BY <1>1 DEF SessionInv, WelcomedInv, Dispatchers
<1> QED  BY <1>1, <1>2 DEF SessionInv, WireInv, Dispatchers

LEMMA DeliveryWelcome ==
    ASSUME Inv, SessionInv, DeliveryInv, NEW t \in Threads, Welcome(t)
    PROVE  DeliveryInv'
<1>1. UNCHANGED delivered
  BY DEF Welcome, histVars
<1>2. delivered \in Seq(Nat \X Nat) /\ reconnectID \in Nat /\ sess \in Nat
  BY DEF Inv, TypeInv, TypeOK, CliTypeOK, ConnTypeOK, HistTypeOK, SrvTypeOK
<1>3. \A i \in DOMAIN delivered : delivered[i][1] \in Nat
  <2>1. \A i \in DOMAIN delivered : delivered[i] \in Nat \X Nat
    BY <1>2
  <2> QED  BY <2>1
<1>4. \A i \in DOMAIN delivered :
        /\ delivered[i][1] <= reconnectID'
        /\ delivered[i][1] = reconnectID' => delivered[i][2] <= lastSeqNum'
  <2>1. CASE reconnectID' = reconnectID /\ lastSeqNum' = lastSeqNum
    BY <2>1 DEF DeliveryInv
  <2>2. CASE reconnectID' > reconnectID
    BY <1>2, <1>3, <2>2, WelcomeSession DEF DeliveryInv
  <2> QED  BY <2>1, <2>2, WelcomeSession
<1> QED  BY <1>1, <1>4 DEF DeliveryInv, DeliveredInOrder

LEMMA DeliveryHandle ==
    ASSUME Inv, ListenInv, SessionInv, DeliveryInv, NEW k \in Dispatchers, HandleMessage(k)
    PROVE  DeliveryInv'
<1>1. sessOf[rd[k]] = reconnectID
  BY HandledSession DEF HandleMessage, Handles
<1> DEFINE n == cur[k].n
           id == <<reconnectID, n>>
<1>2. /\ n \in Nat /\ lastSeqNum \in Nat /\ reconnectID \in Nat
      /\ delivered \in Seq(Nat \X Nat)
  BY DEF Inv, TypeInv, TypeOK, CliTypeOK, ConnTypeOK, DispTypeOK, HistTypeOK, Msgs
<1>3. UNCHANGED reconnectID
  BY DEF HandleMessage
<1>4. lastSeqNum' = IF n > lastSeqNum THEN n ELSE lastSeqNum
  BY <1>2 DEF HandleMessage, IsNew
<1>5. \/ delivered' = delivered
      \/ n > lastSeqNum /\ delivered' = Append(delivered, id)
  BY <1>1, <1>2 DEF HandleMessage, Sends, IsNew
<1>6. \A i \in DOMAIN delivered : delivered[i] \in Nat \X Nat
  BY <1>2
<1>7. \A i \in DOMAIN delivered : delivered[i][1] \in Nat /\ delivered[i][2] \in Nat
  BY <1>6
<1> HIDE DEF n
<1>8. CASE delivered' = delivered
  <2>1. \A i \in DOMAIN delivered : delivered[i][2] <= lastSeqNum => delivered[i][2] <= lastSeqNum'
    BY <1>2, <1>4, <1>7
  <2> QED  BY <1>3, <1>8, <2>1 DEF DeliveryInv, DeliveredInOrder
<1>9. CASE n > lastSeqNum /\ delivered' = Append(delivered, id)
  <2>1. /\ DOMAIN delivered' = 1..(Len(delivered) + 1) /\ DOMAIN delivered = 1..Len(delivered)
        /\ \A i \in DOMAIN delivered : delivered'[i] = delivered[i]
        /\ delivered'[Len(delivered) + 1] = id
    BY <1>2, <1>9
  <2>2. Len(delivered) \in Nat
    BY <1>2
  <2>3. id[1] = reconnectID /\ id[2] = n
    OBVIOUS
  <2>4. \A i \in DOMAIN delivered : delivered[i][1] = reconnectID => delivered[i][2] < n
    BY <1>2, <1>7, <1>9 DEF DeliveryInv
  <2>5. \A i \in DOMAIN delivered' :
          \/ i \in DOMAIN delivered /\ delivered'[i] = delivered[i]
          \/ i = Len(delivered) + 1 /\ delivered'[i][1] = reconnectID /\ delivered'[i][2] = n
    BY <2>1, <2>2, <2>3
  <2>6. \A i \in DOMAIN delivered' :
          /\ delivered'[i][1] <= reconnectID
          /\ delivered'[i][1] = reconnectID => delivered'[i][2] <= n
    BY <1>2, <1>7, <2>4, <2>5 DEF DeliveryInv
  <2>7. DeliveredInOrder'
    <3>1. SUFFICES ASSUME NEW i \in DOMAIN delivered', NEW j \in DOMAIN delivered', i < j,
                          delivered'[i][1] = delivered'[j][1]
                   PROVE  delivered'[i][2] < delivered'[j][2]
      BY DEF DeliveredInOrder
    <3>2. i \in DOMAIN delivered /\ delivered'[i] = delivered[i]
      BY <2>1, <2>2, <3>1
    <3>3. CASE j \in DOMAIN delivered
      BY <2>1, <3>1, <3>2, <3>3 DEF DeliveryInv, DeliveredInOrder
    <3>4. CASE j \notin DOMAIN delivered
      BY <2>4, <2>5, <3>1, <3>2, <3>4
    <3> QED  BY <3>3, <3>4
  <2>8. lastSeqNum' = n
    BY <1>4, <1>9
  <2> QED  BY <1>3, <2>6, <2>7, <2>8 DEF DeliveryInv
<1> QED  BY <1>5, <1>8, <1>9

LEMMA DeliveryNext ==
    ASSUME Inv, ListenInv, SessionInv, DeliveryInv, [Next]_vars
    PROVE  DeliveryInv'
<1>1. CASE UNCHANGED <<delivered, reconnectID, lastSeqNum>>
  BY <1>1 DEF DeliveryInv, DeliveredInOrder
<1>2. ASSUME NEW t \in Threads, CallStep(t) \/ DrainStep(t) \/ MethodStep(t)
      PROVE  Welcome(t) \/ UNCHANGED <<delivered, reconnectID, lastSeqNum>>
  <2>1. CASE Publishing(t) \/ Subscribes(t) \/ Unsubscribe(t) \/ UnsubscribeAll(t)
    BY <2>1, ThreadWrites DEF Writes, histVars, Inv
  <2>2. CASE Calm \/ Dial(t) \/ LoginFail(t) \/ Disconnect(t)
    BY <2>2 DEF Calm, Dial, LoginFail, Disconnect, connVars, histVars
  <2> QED  BY <1>2, <2>1, <2>2, ThreadCases
<1>3. ASSUME NEW k \in Dispatchers, DispatchStep(k)
      PROVE  HandleMessage(k) \/ UNCHANGED <<delivered, reconnectID, lastSeqNum>>
  BY <1>3 DEF DispatchStep, ReadTop, ReadMsg, ReadErr, Lock, HandleHeartbeat,
    HandleSubscribed, HandleUnsubscribed, HandleAck, HandleDisconnect, SendError, Complete,
    AckDone, FailDone, Exit, connVars, histVars
<1>4. CASE ClientNext
  BY <1>1, <1>2, <1>3, <1>4, DeliveryWelcome, DeliveryHandle DEF ClientNext
<1>5. CASE EnvNext \/ BreakNext \/ UNCHANGED vars
  BY <1>1, <1>5 DEF EnvNext, BreakNext, vars, cliVars, connVars, histVars
<1> QED  BY <1>4, <1>5 DEF Next

\* The events of a session reach the MessageChan in the order of their
\* sequence numbers and once each: across losses, re-deliveries and sessions
\* that are not resumed, lastSeqNum tells what was delivered from what was not.
THEOREM DeliveryCorrect == DisconnectAlone => (Spec => []DeliveredInOrder)
<1> SUFFICES ASSUME DisconnectAlone PROVE Spec => []DeliveredInOrder
  OBVIOUS
<1>1. Init => DeliveryInv
  BY DEF Init, CliInit, DeliveryInv, DeliveredInOrder
<1>2. Inv /\ ListenInv /\ SessionInv /\ DeliveryInv /\ [Next]_vars => DeliveryInv'
  BY DeliveryNext
<1>3. DeliveryInv => DeliveredInOrder
  BY DEF DeliveryInv
<1> QED  BY <1>1, <1>2, <1>3, SessionCorrect, PTL DEF Spec

-----------------------------------------------------------------------------
(* What comes to the dispatcher of a connection. *)

\* The messages the dispatcher of w has still to handle, in order: the one it
\* has read and what it has not read yet.
Coming(w) == IF dpc[w] \in {"msg", "handle"} THEN <<cur[w]>> \o s2c[w] ELSE s2c[w]

LEMMA ComingType ==
    ASSUME TypeInv, NEW w \in Ws
    PROVE  /\ Coming(w) \in Seq(Msgs)
           /\ Elems(Coming(w)) = Elems(s2c[w])
                \cup (IF dpc[w] \in {"msg", "handle"} THEN {cur[w]} ELSE {})
<1>1. s2c[w] \in Seq(Msgs) /\ cur[w] \in Msgs
  BY DEF TypeInv, TypeOK, NetTypeOK, CliTypeOK, DispTypeOK, Dispatchers
<1>2. <<cur[w]>> \in Seq(Msgs) /\ Elems(<<cur[w]>>) = {cur[w]}
  BY <1>1, ElemsShort
<1>3. /\ <<cur[w]>> \o s2c[w] \in Seq(Msgs)
      /\ Elems(<<cur[w]>> \o s2c[w]) = Elems(<<cur[w]>>) \cup Elems(s2c[w])
  BY ONLY <1>1, <1>2, ElemsConcat
<1> QED  BY <1>1, <1>2, <1>3 DEF Coming

LEMMA PushedBack ==
    ASSUME NEW s \in Seq(Msgs), s # <<>>
    PROVE  <<Head(s)>> \o Tail(s) = s
  OBVIOUS

LEMMA PushedFront ==
    ASSUME NEW m \in Msgs, NEW s \in Seq(Msgs)
    PROVE  /\ <<m>> \o s # <<>> /\ Head(<<m>> \o s) = m /\ Tail(<<m>> \o s) = s
           /\ <<m>> \o s \in Seq(Msgs)
  OBVIOUS

\* A dispatcher that handles a message has finished with the first that comes.
Finishes(k) == HandleHeartbeat(k) \/ HandleMessage(k) \/ HandleSubscribed(k)
                 \/ HandleUnsubscribed(k) \/ HandleAck(k)

LEMMA ComingDispatch ==
    ASSUME Inv, ListenInv, NEW k \in Dispatchers, DispatchStep(k),
           NEW w \in Ws, w = ws
    PROVE  \/ Coming(w)' = Coming(w) /\ ~Finishes(k)
           \/ /\ Coming(w) # <<>> /\ Coming(w)' = Tail(Coming(w))
              /\ \/ k = w /\ Head(Coming(w)) = cur[k] /\ Finishes(k)
                 \/ Head(Coming(w)).op \notin Handled /\ UNCHANGED <<c2s, subs>> /\ ~Finishes(k)
           \/ Coming(w)' = <<>> /\ ReadErr(k) /\ wsState[w] # "open"
<1>0. /\ DispTypeOK /\ s2c \in [Ws -> Seq(Msgs)]
      /\ cur[k] \in Msgs
  BY DEF Inv, TypeInv, TypeOK, CliTypeOK, DispTypeOK, NetTypeOK
<1>1. dpc[k] \in Listening => k = w /\ (dpc[k] # "top" => rd[k] = w)
  BY DEF ListenInv, ListenersInv
<1>2. s2c[w] \in Seq(Msgs)
  BY <1>0
<1>3. ~Finishes(k) \/ dpc[k] = "handle"
  BY DEF Finishes, HandleHeartbeat, HandleMessage, HandleSubscribed, HandleUnsubscribed,
    HandleAck, Handles
<1>4. \A l : Step(k, l) => \A j \in Ws : dpc'[j] = IF j = k THEN l ELSE dpc[j]
  BY <1>0 DEF Step, DispTypeOK, Dispatchers
<1>5. CASE ReadTop(k)
  BY <1>1, <1>3, <1>4, <1>5 DEF ReadTop, Listening, Coming, netVars
<1>6. CASE ReadMsg(k)
  <2>1. k = w /\ rd[k] = w /\ dpc[k] = "reading" /\ s2c[w] # <<>>
    BY <1>1, <1>6 DEF ReadMsg, Listening
  <2>2. s2c'[w] = Tail(s2c[w]) /\ Coming(w) = s2c[w] /\ UNCHANGED <<c2s, subs>>
    BY <1>0, <1>6, <2>1 DEF ReadMsg, Coming, connVars
  <2>3. CASE Head(s2c[w]).op \in Handled
    <3>1. dpc'[w] = "msg" /\ cur'[w] = Head(s2c[w])
      BY <1>0, <1>4, <1>6, <2>1, <2>3 DEF ReadMsg, DispTypeOK
    <3>2. Coming(w)' = <<Head(s2c[w])>> \o Tail(s2c[w])
      BY <2>2, <3>1 DEF Coming
    <3> QED  BY <1>2, <1>3, <2>1, <2>2, <3>2, PushedBack
  <2>4. CASE Head(s2c[w]).op \notin Handled
    <3>1. dpc'[w] = "top"
      BY <1>4, <1>6, <2>1, <2>4 DEF ReadMsg
    <3>2. Coming(w)' = Tail(s2c[w])
      BY <2>2, <3>1 DEF Coming
    <3> QED  BY <1>3, <2>1, <2>2, <2>4, <3>2
  <2> QED  BY <2>3, <2>4
<1>7. CASE ReadErr(k)
  <2>1. k = w /\ rd[k] = w /\ dpc[k] = "reading" /\ dpc'[w] = "err"
    BY <1>1, <1>4, <1>7 DEF ReadErr, Listening
  <2>2. Readers(w) = {k}
    <3>1. \A j \in Dispatchers : dpc[j] = "reading" => j = w
      BY DEF ListenInv, ListenersInv, Listening
    <3>2. \A t \in Threads : pc[t] = "login" => dpc[ws] = "none"
      BY DEF Inv, SocketInv
    <3> QED  BY <2>1, <3>1, <3>2 DEF Readers
  <2>3. Coming(w)' = <<>>
    BY <1>0, <1>7, <2>1 DEF ReadErr, Coming
  <2> QED  BY <1>7, <2>1, <2>2, <2>3 DEF ReadErr
<1>8. CASE Lock(k)
  BY <1>1, <1>4, <1>8 DEF Lock, Listening, Coming, netVars, Finishes, HandleHeartbeat,
    HandleMessage, HandleSubscribed, HandleUnsubscribed, HandleAck, Handles
<1>9. CASE Finishes(k)
  <2>1. k = w /\ dpc[k] = "handle" /\ UNCHANGED s2c
    BY <1>1, <1>3, <1>9 DEF Listening, Finishes, HandleHeartbeat, HandleMessage,
      HandleSubscribed, HandleUnsubscribed, HandleAck, netVars
  <2>2. dpc'[w] \in {"top", "complete"}
    BY <1>4, <1>9, <2>1 DEF Finishes, HandleHeartbeat, HandleMessage, HandleSubscribed,
      HandleUnsubscribed, HandleAck, Unlock
  <2>3. Coming(w) = <<cur[k]>> \o s2c[w] /\ Coming(w)' = s2c[w]
    BY <2>1, <2>2 DEF Coming
  <2> QED  BY <1>0, <1>2, <1>9, <2>1, <2>3, PushedFront
<1>10. CASE HandleDisconnect(k)
  BY <1>1, <1>3, <1>4, <1>10 DEF HandleDisconnect, Coming, netVars
<1>11. CASE SendError(k) \/ AckDone(k) \/ FailDone(k) \/ Exit(k)
  <2>1. /\ dpc[k] \notin {"msg", "handle"} /\ UNCHANGED <<s2c>>
        /\ \E l \in {"fail", "top", "exit", "done"} : Step(k, l)
        /\ \A j \in Ws : j # k => cur'[j] = cur[j]
    BY <1>0, <1>11 DEF SendError, AckDone, FailDone, Exit, Unlock, netVars, DispTypeOK,
      Dispatchers
  <2> QED  BY <1>3, <1>4, <2>1 DEF Coming
<1>12. CASE Complete(k)
  BY <1>3, <1>12 DEF Complete, Coming, netVars
<1> QED  BY <1>5, <1>6, <1>7, <1>8, <1>9, <1>10, <1>11, <1>12 DEF DispatchStep, Finishes

\* What the server writes comes last.
LEMMA ComingServer ==
    ASSUME TypeInv, NEW v, NEW ms \in Seq(Msgs), s2c' = Written(s2c, v, ms),
           UNCHANGED <<dpc, cur>>, NEW w \in Ws
    PROVE  Coming(w)' = IF w = v /\ wsState[w] = "open" THEN Coming(w) \o ms ELSE Coming(w)
<1>1. s2c \in [Ws -> Seq(Msgs)] /\ cur[w] \in Msgs
  BY DEF TypeInv, TypeOK, NetTypeOK, CliTypeOK, DispTypeOK, Dispatchers
<1>2. s2c'[w] = IF w = v /\ wsState[w] = "open" THEN s2c[w] \o ms ELSE s2c[w]
  BY <1>1 DEF Written
<1>3. s2c[w] \in Seq(Msgs)
  BY <1>1
<1>4. <<cur[w]>> \o (s2c[w] \o ms) = (<<cur[w]>> \o s2c[w]) \o ms
  BY ONLY <1>1, <1>3, ms \in Seq(Msgs)
<1> QED  BY <1>2, <1>4 DEF Coming

-----------------------------------------------------------------------------
(* The subscriptions. *)

\* Subscription numbers in use were given out.
NumbersInv ==
    /\ \A i \in subs : i <= subSeqNum
    /\ \A t \in Threads : pc[t] \in {"subwait", "Unsubscribe"} => arg[t] \in 1..subSeqNum
    /\ \A i \in Sids : sub[i].held => i <= subSeqNum

Ended(i) == i \notin subs /\ i <= subSeqNum

\* What the library has asked the server to end it has ended itself.
UnsubsInv ==
    \A w \in Ws : w = ws =>
        \A m \in Elems(c2s[w]) : m.op = "unsubscribe" => Ended(m.sid)

\* The server of connection w holds subscription i, or will learn of it, or has
\* ended it and the client will learn.
Known(w, i) ==
    \/ srvWs = w /\ i \in srvSubs
    \/ \E m \in Elems(c2s[w]) : m.op = "subscribe" /\ m.sid = i
    \/ \E m \in Elems(Coming(w)) : m.op = "unsubscribed" /\ m.sid = i

KnownInv ==
    \A w \in Ws : w = ws /\ connected /\ wsState[w] = "open" =>
        \A i \in subs : Known(w, i)

SubsInv == NumbersInv /\ UnsubsInv /\ KnownInv

LEMMA SubsInit == Init => SubsInv
<1> SUFFICES ASSUME Init PROVE SubsInv
  OBVIOUS
<1>1. NumbersInv
  BY DEF Init, CliInit, NumbersInv, Subscription
<1>2. UnsubsInv /\ KnownInv
  BY DEF Init, CliInit, UnsubsInv, KnownInv, Ws
<1> QED  BY <1>1, <1>2 DEF SubsInv

\* A goroutine's step, as far as subscription numbers go.
LEMMA NumbersThread ==
    ASSUME TypeInv, NumbersInv, NEW t \in Threads,
           CallStep(t) \/ DrainStep(t) \/ MethodStep(t)
    PROVE  NumbersInv'
<1> USE DEF connVars, threadVars, chanVars
<1>0. /\ pc \in [Threads -> ThreadStates] /\ arg \in [Threads -> Nat]
      /\ sub \in [Sids -> Subscriptions] /\ subs \subseteq Nat /\ subSeqNum \in Nat
  BY DEF TypeInv, TypeOK, CliTypeOK, ConnTypeOK, ThreadTypeOK, ChanTypeOK, Sids
<1>1. ASSUME NEW l, l \notin {"subwait", "Unsubscribe"}, Goto(t, l),
             arg' = arg \/ arg' = [arg EXCEPT ![t] = 0] \/ \E x : arg' = [arg EXCEPT ![t] = x],
             UNCHANGED subSeqNum, subs' \subseteq subs, UNCHANGED sub
      PROVE  NumbersInv'
  <2>1. \A u \in Threads : /\ pc'[u] = IF u = t THEN l ELSE pc[u]
                           /\ u # t => arg'[u] = arg[u]
    BY <1>0, <1>1 DEF Goto
  <2> QED  BY <1>1, <2>1 DEF NumbersInv
<1>2. ASSUME Return(t), UNCHANGED <<subSeqNum, sub>>, subs' \subseteq subs
      PROVE  NumbersInv'
  BY <1>1, <1>2 DEF Return
<1>3. CASE \E op \in Methods : Call(t, op)
  BY <1>1, <1>3 DEF Call, Methods, NeedConnection, PublishOps, SubscribeOps
<1>4. CASE \E i \in Sids : CallUnsubscribe(t, i)
  <2>1. PICK i \in Sids : CallUnsubscribe(t, i)
    BY <1>4
  <2>2. i \in 1..subSeqNum
    BY <1>0, <2>1 DEF CallUnsubscribe, NumbersInv, Sids
  <2>3. \A u \in Threads : /\ pc'[u] = IF u = t THEN "Unsubscribe" ELSE pc[u]
                           /\ arg'[u] = IF u = t THEN i ELSE arg[u]
    BY <1>0, <2>1 DEF CallUnsubscribe, Goto
  <2>4. \A j \in Sids : sub'[j].held => sub[j].held
    BY <1>0, <2>1 DEF CallUnsubscribe, Subscriptions
  <2> QED  BY <2>1, <2>2, <2>3, <2>4 DEF CallUnsubscribe, NumbersInv
<1>5. CASE NotConnected(t) \/ IsConnected(t) \/ ReconnectNoop(t) \/ DialFail(t)
  BY <1>2, <1>5 DEF NotConnected, IsConnected, ReconnectNoop, DialFail
<1>6. CASE PublishDone(t) \/ PublishTimeout(t) \/ SubscribeTimeout(t)
  BY <1>2, <1>6 DEF PublishDone, PublishTimeout, SubscribeTimeout
<1>7. CASE Publish(t) \/ PublishAsync(t)
  BY <1>1, <1>7 DEF Publish, PublishAsync, Register, Await, Return
<1>8. CASE Subscribe(t) \/ SubscribeAsync(t)
  <2>1. /\ subSeqNum' = subSeqNum + 1 /\ subSeqNum' \in Sids
        /\ subs' = subs \cup {subSeqNum'}
        /\ \E chan : sub' = [sub EXCEPT ![subSeqNum'] = Subscription(chan)]
    BY <1>0, <1>8, BoundsAssumption DEF Subscribe, SubscribeAsync, AddSubscription, Sids
  <2>2. \A u \in Threads : u # t => pc'[u] = pc[u] /\ arg'[u] = arg[u]
    BY <1>0, <1>8 DEF Subscribe, SubscribeAsync, AddSubscription, Await, Return, Goto
  <2>3. pc'[t] = "idle" \/ (pc'[t] = "subwait" /\ arg'[t] = subSeqNum')
    BY <1>0, <1>8 DEF Subscribe, SubscribeAsync, AddSubscription, Await, Return, Goto
  <2>4. \A j \in Sids : sub'[j].held => sub[j].held
    BY <1>0, <2>1 DEF Subscription
  <2>5. \A i \in subs' : i <= subSeqNum'
    BY <1>0, <2>1 DEF NumbersInv
  <2>6. \A u \in Threads : pc'[u] \in {"subwait", "Unsubscribe"} => arg'[u] \in 1..subSeqNum'
    <3>1. \A u \in Threads : u # t => (pc'[u] \in {"subwait", "Unsubscribe"} =>
                                          arg'[u] \in 1..subSeqNum)
      BY <2>2 DEF NumbersInv
    <3> QED  BY <1>0, <2>1, <2>3, <3>1
  <2>7. \A i \in Sids : sub'[i].held => i <= subSeqNum'
    BY <1>0, <2>1, <2>4 DEF NumbersInv, Sids
  <2> QED  BY <2>5, <2>6, <2>7 DEF NumbersInv
<1>9. CASE SubscribeDone(t)
  <2>1. arg[t] \in 1..subSeqNum
    BY <1>9 DEF SubscribeDone, NumbersInv
  <2>2. \A u \in Threads : /\ pc'[u] = IF u = t THEN "idle" ELSE pc[u]
                           /\ u # t => arg'[u] = arg[u]
    BY <1>0, <1>9 DEF SubscribeDone, Return, Goto
  <2>3. \A j \in Sids : sub'[j].held => sub[j].held \/ j = arg[t]
    BY <1>0, <1>9 DEF SubscribeDone, Subscriptions
  <2>4. UNCHANGED <<subs, subSeqNum>>
    BY <1>9 DEF SubscribeDone
  <2>5. \A i \in Sids : sub'[i].held => i <= subSeqNum'
    BY <1>0, <2>1, <2>3, <2>4 DEF NumbersInv, Sids
  <2> QED  BY <2>2, <2>4, <2>5 DEF NumbersInv
<1>10. CASE Unsubscribe(t) \/ UnsubscribeAll(t)
  BY <1>2, <1>10 DEF Unsubscribe, UnsubscribeAll
<1>11. CASE Dial(t)
  BY <1>1, <1>11 DEF Dial
<1>12. CASE LoginFail(t) \/ Welcome(t)
  BY <1>2, <1>12 DEF LoginFail, Welcome
<1>13. CASE Disconnect(t) \/ WaitStart(t) \/ WaitEnd(t)
  BY <1>1, <1>13 DEF Disconnect, WaitStart, WaitEnd
<1>14. CASE DrainStep(t)
  BY <1>14 DEF DrainStep, RecvError, RecvMessage, RecvCompletion, Recv, NumbersInv
<1> QED  BY <1>3, <1>4, <1>5, <1>6, <1>7, <1>8, <1>9, <1>10, <1>11, <1>12, <1>13, <1>14
  DEF CallStep, MethodStep

LEMMA NumbersDispatch ==
    ASSUME TypeInv, NumbersInv, NEW k \in Dispatchers, DispatchStep(k)
    PROVE  NumbersInv'
<1>1. subs' \subseteq subs /\ UNCHANGED <<subSeqNum, arg>>
  BY DEF DispatchStep, ReadTop, ReadMsg, ReadErr, Lock, HandleHeartbeat, HandleMessage,
    HandleSubscribed, HandleUnsubscribed, HandleAck, HandleDisconnect, SendError, Complete,
    AckDone, FailDone, Exit, connVars, threadVars
<1>2. \A t \in Threads : pc'[t] = pc[t] \/ pc'[t] = "woken"
  <2>1. CASE UNCHANGED pc
    BY <2>1
  <2>2. CASE Exit(k)
    BY <2>2 DEF Exit, TypeInv, TypeOK, CliTypeOK, ThreadTypeOK
  <2> QED  BY <2>1, <2>2 DEF DispatchStep, ReadTop, ReadMsg, ReadErr, Lock, HandleHeartbeat,
    HandleMessage, HandleSubscribed, HandleUnsubscribed, HandleAck, HandleDisconnect,
    SendError, Complete, AckDone, FailDone, threadVars
<1>3. \A i \in Sids : sub'[i].held = sub[i].held
  <2>1. CASE UNCHANGED sub
    BY <2>1
  <2>2. ASSUME Notify(cur[k].sid) PROVE \A i \in Sids : sub'[i].held = sub[i].held
    BY <2>2 DEF Notify, TypeInv, TypeOK, CliTypeOK, ChanTypeOK, Subscriptions
  <2> QED  BY <2>1, <2>2 DEF DispatchStep, ReadTop, ReadMsg, ReadErr, Lock, HandleHeartbeat,
    HandleMessage, HandleSubscribed, HandleUnsubscribed, HandleAck, HandleDisconnect,
    SendError, Complete, AckDone, FailDone, Exit, chanVars
<1> QED  BY <1>1, <1>2, <1>3 DEF NumbersInv

LEMMA WroteElems ==
    ASSUME TypeInv, NEW ms \in Seq(Msgs), c2s' = Written(c2s, ws, ms)
    PROVE  \A w \in Ws :
             /\ w = ws /\ wsState[w] = "open" => Elems(c2s'[w]) = Elems(c2s[w]) \cup Elems(ms)
             /\ ~(w = ws /\ wsState[w] = "open") => c2s'[w] = c2s[w]
<1> SUFFICES ASSUME NEW w \in Ws
             PROVE  /\ w = ws /\ wsState[w] = "open" =>
                         Elems(c2s'[w]) = Elems(c2s[w]) \cup Elems(ms)
                    /\ ~(w = ws /\ wsState[w] = "open") => c2s'[w] = c2s[w]
  OBVIOUS
<1>1. c2s \in [Ws -> Seq(Msgs)] /\ c2s[w] \in Seq(Msgs)
  BY DEF TypeInv, TypeOK, NetTypeOK
<1>2. c2s'[w] = IF w = ws /\ wsState[w] = "open" THEN c2s[w] \o ms ELSE c2s[w]
  BY <1>1 DEF Written
<1>3. Elems(c2s[w] \o ms) = Elems(c2s[w]) \cup Elems(ms)
  BY ONLY <1>1, ms \in Seq(Msgs), ElemsConcat
<1> QED  BY <1>2, <1>3

LEMMA KnownKeep ==
    ASSUME KnownInv, UNCHANGED <<ws, srvWs, srvSubs>>, connected' => connected,
           subs' \subseteq subs,
           \A w \in Ws : w = ws /\ connected' /\ wsState'[w] = "open" =>
             /\ wsState[w] = "open"
             /\ \A m \in Elems(c2s[w]) : m.op = "subscribe" => m \in Elems(c2s'[w])
             /\ \A m \in Elems(Coming(w)) : m.op = "unsubscribed" /\ m.sid \in subs' =>
                   m \in Elems(Coming(w)')
    PROVE  KnownInv'
<1> SUFFICES ASSUME NEW w \in Ws, w = ws, connected', wsState'[w] = "open", NEW i \in subs'
             PROVE  Known(w, i)'
  BY DEF KnownInv
<1>1. Known(w, i)
  BY DEF KnownInv
<1> QED  BY <1>1 DEF Known

LEMMA UnsubsKeep ==
    ASSUME TypeInv, TypeInv', UnsubsInv, UNCHANGED ws,
           \/ UNCHANGED subSeqNum /\ subs' \subseteq subs
           \/ subSeqNum' = subSeqNum + 1 /\ subs' = subs \cup {subSeqNum'},
           \A w \in Ws : \A m \in Elems(c2s'[w]) :
             w = ws /\ m.op = "unsubscribe" =>
               m \in Elems(c2s[w]) \/ Ended(m.sid)'
    PROVE  UnsubsInv'
<1> SUFFICES ASSUME NEW w \in Ws, w = ws, NEW m \in Elems(c2s'[w]), m.op = "unsubscribe"
             PROVE  Ended(m.sid)'
  BY DEF UnsubsInv
<1>1. m.sid \in Nat /\ subSeqNum \in Nat
  <2>1. c2s'[w] \in Seq(Msgs)
    BY DEF TypeInv, TypeOK, NetTypeOK
  <2>2. Elems(c2s'[w]) \subseteq Msgs
    BY <2>1, ElemsType
  <2> QED  BY <2>2 DEF Msgs, TypeInv, TypeOK, CliTypeOK, ConnTypeOK
<1>2. CASE m \in Elems(c2s[w])
  <2>1. m.sid \notin subs /\ m.sid <= subSeqNum
    BY <1>2 DEF UnsubsInv, Ended
  <2> QED  BY <1>1, <2>1 DEF Ended
<1>3. CASE m \notin Elems(c2s[w])
  BY <1>3
<1> QED  BY <1>2, <1>3

LEMMA SubsThread ==
    ASSUME Inv, ListenInv, SessionInv, SubsInv, UNCHANGED srvVars,
           NEW t \in Threads, CallStep(t) \/ DrainStep(t) \/ MethodStep(t)
    PROVE  UnsubsInv' /\ KnownInv'
<1> USE DEF connVars, dispVars, netVars, srvVars
<1>0. /\ TypeInv /\ TypeInv' /\ subs \subseteq Nat /\ subSeqNum \in Nat /\ subSeqNum' \in Nat
      /\ UnsubsInv /\ KnownInv
  <2>1. TypeInv /\ TypeInv'
    BY TypeNext DEF Inv, Next, ClientNext
  <2> QED  BY <2>1 DEF TypeInv, TypeOK, CliTypeOK, ConnTypeOK, Sids, SubsInv
<1>c. UNCHANGED <<dpc, cur, s2c>> => \A w \in Ws : Coming(w)' = Coming(w)
  BY DEF Coming
<1>1. CASE Calm
  <2>1. UnsubsInv'
    BY <1>0, <1>1 DEF Calm, UnsubsInv, Ended
  <2> QED  BY <1>0, <1>1, <1>c, <2>1, KnownKeep DEF Calm
<1>2. CASE Publishing(t) \/ Unsubscribe(t) \/ UnsubscribeAll(t)
  <2>1. \E ms : /\ Writes(ms)
                /\ \A m \in Elems(ms) : m.op = "unsubscribe" => m.sid \notin subs'
                                          /\ m.sid <= subSeqNum
    <3>1. CASE Publishing(t)
      BY <1>0, <3>1, PublishingWrites DEF Msg
    <3>2. CASE Unsubscribe(t)
      <4>1. arg[t] \in 1..subSeqNum /\ subs' = subs \ {arg[t]}
        BY <3>2 DEF Unsubscribe, SubsInv, NumbersInv
      <4> QED  BY <1>0, <3>2, <4>1, UnsubscribeWrites DEF Msg
    <3>3. CASE UnsubscribeAll(t)
      <4>1. subs' = {} /\ \A i \in subs : i <= subSeqNum
        BY <3>3 DEF UnsubscribeAll, SubsInv, NumbersInv
      <4>2. PICK ms : Writes(ms)
                        /\ Elems(ms) = {Msg("unsubscribe", 0, i, TRUE) : i \in subs}
        BY <1>0, <3>3, UnsubscribeAllWrites
      <4>3. \A m \in Elems(ms) : m.sid \in subs
        BY <4>2 DEF Msg
      <4> QED  BY <4>1, <4>2, <4>3
    <3> QED  BY <1>2, <3>1, <3>2, <3>3
  <2>2. PICK ms : /\ Writes(ms)
                  /\ \A m \in Elems(ms) : m.op = "unsubscribe" => m.sid \notin subs'
                                            /\ m.sid <= subSeqNum
    BY <2>1
  <2>3. subs' \subseteq subs /\ UNCHANGED subSeqNum
    BY <1>0, <1>2, PublishingWrites DEF Unsubscribe, UnsubscribeAll
  <2>4. \A w \in Ws :
             /\ w = ws /\ wsState[w] = "open" => Elems(c2s'[w]) = Elems(c2s[w]) \cup Elems(ms)
             /\ ~(w = ws /\ wsState[w] = "open") => c2s'[w] = c2s[w]
    BY <1>0, <2>2, WroteElems DEF Writes
  <2>5. UNCHANGED <<ws, connected, dpc, cur, s2c, wsState>>
    BY <2>2 DEF Writes
  <2>6. UnsubsInv'
    <3>1. \A w \in Ws : \A m \in Elems(c2s'[w]) :
             w = ws /\ m.op = "unsubscribe" =>
               m \in Elems(c2s[w]) \/ Ended(m.sid)'
      <4>1. \A w \in Ws : \A m \in Elems(c2s'[w]) : m \in Elems(c2s[w]) \/ m \in Elems(ms)
        BY <2>4
      <4>2. \A m \in Elems(ms) : m.op = "unsubscribe" => Ended(m.sid)'
        BY <2>2, <2>3 DEF Ended
      <4> QED  BY <2>3, <4>1, <4>2
    <3> QED  BY <1>0, <2>3, <2>5, <3>1, UnsubsKeep
  <2> QED  BY <1>0, <1>c, <2>3, <2>4, <2>5, <2>6, KnownKeep
<1>3. CASE Subscribes(t)
  <2>1. PICK ms : Writes(ms) /\ Elems(ms) = {Msg("subscribe", 0, subSeqNum', TRUE)}
    BY <1>0, <1>3, SubscribesWrites
  <2>2. subs' = subs \cup {subSeqNum'} /\ subSeqNum' = subSeqNum + 1
    BY <1>3 DEF Subscribes, AddSubscription
  <2>3. \A w \in Ws :
             /\ w = ws /\ wsState[w] = "open" => Elems(c2s'[w]) = Elems(c2s[w]) \cup Elems(ms)
             /\ ~(w = ws /\ wsState[w] = "open") => c2s'[w] = c2s[w]
    BY <1>0, <2>1, WroteElems DEF Writes
  <2>4. UNCHANGED <<ws, connected, dpc, cur, s2c, wsState>>
    BY <2>1 DEF Writes
  <2>5. UnsubsInv'
    <3>1. \A w \in Ws : \A m \in Elems(c2s'[w]) :
             w = ws /\ m.op = "unsubscribe" =>
               m \in Elems(c2s[w]) \/ Ended(m.sid)'
      BY <2>1, <2>3 DEF Msg
    <3> QED  BY <1>0, <2>2, <2>4, <3>1, UnsubsKeep
  <2>6. KnownInv'
    <3>1. SUFFICES ASSUME NEW w \in Ws, w = ws, connected, wsState[w] = "open", NEW i \in subs'
                   PROVE  Known(w, i)'
      BY <2>4 DEF KnownInv
    <3>2. CASE i \in subs
      BY <1>0, <1>c, <2>3, <2>4, <3>1, <3>2 DEF KnownInv, Known
    <3>3. CASE i = subSeqNum'
      <4>1. Msg("subscribe", 0, i, TRUE) \in Elems(c2s'[w])
        BY <2>1, <2>3, <3>1, <3>3
      <4> QED  BY <4>1 DEF Known, Msg
    <3> QED  BY <2>2, <3>2, <3>3
  <2> QED  BY <2>5, <2>6
<1>4. CASE Dial(t)
  <2>1. ~connected'
    BY <1>4 DEF Dial
  <2>2. PICK w \in Ws : ws' = w /\ c2s'[w] = <<Msg("login", reconnectID, 0, TRUE)>>
    BY <1>0, <1>4 DEF Dial, TypeInv, TypeOK, NetTypeOK
  <2>3. \A m \in Elems(c2s'[w]) : m.op = "login"
    BY <2>2, ElemsShort DEF Msg
  <2> QED  BY <2>1, <2>2, <2>3 DEF UnsubsInv, KnownInv
<1>5. CASE LoginFail(t)
  <2>1. ~connected'
    BY <1>5 DEF LoginFail, Inv, SocketInv
  <2>2. UnsubsInv'
    BY <1>0, <1>5 DEF LoginFail, UnsubsInv, Ended
  <2> QED  BY <2>1, <2>2 DEF KnownInv
<1>6. CASE Welcome(t)
  <2>1. mu = t
    BY <1>6 DEF Welcome, Inv, LockDiscipline
  <2>2. PICK ms \in Seq(Msgs), again \in Seq(Msgs) :
             /\ c2s' = Written(c2s, ws, ms \o again)
             /\ Elems(ms) = {Msg("subscribe", 0, i, TRUE) : i \in subs}
             /\ Elems(again) = {Msg("publish", n, 0, TRUE) :
                                  n \in IF Head(s2c[ws]).ok THEN Resendable ELSE {}}
    BY <1>0, <1>6, WelcomeWrites
  <2>3. PICK all \in Seq(Msgs) : /\ all = ms \o again
                                 /\ Elems(all) = Elems(ms) \cup Elems(again)
    BY <2>2, ElemsConcat
  <2>4. \A w \in Ws :
             /\ w = ws /\ wsState[w] = "open" => Elems(c2s'[w]) = Elems(c2s[w]) \cup Elems(all)
             /\ ~(w = ws /\ wsState[w] = "open") => c2s'[w] = c2s[w]
    BY <1>0, <2>2, <2>3, WroteElems
  <2>5. UNCHANGED <<ws, subs, subSeqNum, wsState>>
    BY <1>6 DEF Welcome
  <2>6. \A w \in Ws : w = ws => \A m \in Elems(c2s'[w]) : m.op # "unsubscribe"
    <3>1. \A w \in Ws : w = ws => \A m \in Elems(c2s[w]) : m.op = "login"
      BY <2>1 DEF SessionInv, LoginInv
    <3>2. \A m \in Elems(all) : m.op # "unsubscribe"
      BY <2>2, <2>3 DEF Msg
    <3> QED  BY <2>4, <3>1, <3>2
  <2>7. UnsubsInv'
    BY <2>5, <2>6 DEF UnsubsInv
  <2>8. KnownInv'
    <3>1. SUFFICES ASSUME NEW w \in Ws, w = ws, wsState[w] = "open", NEW i \in subs
                   PROVE  Known(w, i)'
      BY <2>5 DEF KnownInv
    <3>2. Msg("subscribe", 0, i, TRUE) \in Elems(all)
      BY <2>2, <2>3
    <3>3. Elems(c2s'[w]) = Elems(c2s[w]) \cup Elems(all)
      BY <2>4, <3>1
    <3> QED  BY <3>2, <3>3 DEF Known, Msg
  <2> QED  BY <2>7, <2>8
<1>7. CASE Disconnect(t) /\ connected
  <2>1. PICK m \in Msgs : m = Msg("disconnect", 0, 0, TRUE)
    BY DEF Msg, Msgs, OpCodes
  <2>2. c2s' = Written(c2s, ws, <<m>>) /\ ~connected' /\ UNCHANGED <<ws, subs, subSeqNum>>
    BY <1>7, <2>1 DEF Disconnect
  <2>3. <<m>> \in Seq(Msgs) /\ Elems(<<m>>) = {m} /\ m.op = "disconnect"
    <3>1. <<m>> \in Seq(Msgs)
      OBVIOUS
    <3> QED  BY <2>1, <3>1, ElemsShort DEF Msg
  <2>4. \A w \in Ws :
             /\ w = ws /\ wsState[w] = "open" => Elems(c2s'[w]) = Elems(c2s[w]) \cup Elems(<<m>>)
             /\ ~(w = ws /\ wsState[w] = "open") => c2s'[w] = c2s[w]
    BY <1>0, <2>2, <2>3, WroteElems
  <2>5. \A w \in Ws : \A x \in Elems(c2s'[w]) :
             w = ws /\ x.op = "unsubscribe" =>
               x \in Elems(c2s[w]) \/ Ended(x.sid)'
    BY <2>3, <2>4
  <2>6. UnsubsInv'
    BY <1>0, <2>2, <2>5, UnsubsKeep
  <2> QED  BY <2>2, <2>6 DEF KnownInv
<1> QED  BY <1>1, <1>2, <1>3, <1>4, <1>5, <1>6, <1>7, ThreadCases

LEMMA SubsDispatch ==
    ASSUME Inv, ListenInv, SessionInv, SubsInv, UNCHANGED srvVars,
           NEW k \in Dispatchers, DispatchStep(k)
    PROVE  UnsubsInv' /\ KnownInv'
<1> USE DEF connVars, netVars, srvVars
<1>0. /\ TypeInv /\ TypeInv' /\ UnsubsInv /\ KnownInv
      /\ UNCHANGED <<ws, subSeqNum>> /\ subs' \subseteq subs /\ (connected' => connected)
  <2>1. TypeInv /\ TypeInv'
    BY TypeNext DEF Inv, Next, ClientNext
  <2> QED  BY <2>1 DEF SubsInv, DispatchStep, ReadTop, ReadMsg, ReadErr, Lock,
    HandleHeartbeat, HandleMessage, HandleSubscribed, HandleUnsubscribed, HandleAck,
    HandleDisconnect, SendError, Complete, AckDone, FailDone, Exit
<1>1. \E ms \in Seq(Msgs) : /\ c2s' = Written(c2s, ws, ms)
                            /\ \A m \in Elems(ms) : m.op # "unsubscribe"
  <2>0. /\ <<>> \in Seq(Msgs) /\ Elems(<<>>) = {} /\ c2s = Written(c2s, ws, <<>>)
        /\ \A m \in Msgs : <<m>> \in Seq(Msgs)
        /\ \A m : Elems(<<m>>) = {m}
    <3>1. \A m \in Msgs : <<m>> \in Seq(Msgs)
      OBVIOUS
    <3> QED  BY <1>0, <3>1, EmptySeq, ElemsShort, NothingWritten
  <2>1. CASE UNCHANGED c2s
    BY <2>0, <2>1
  <2>2. CASE HandleHeartbeat(k)
    <3>1. cur[k] \in Msgs /\ cur[k].op = "heartbeat"
      BY <1>0, <2>2 DEF HandleHeartbeat, Handles, TypeInv, TypeOK, CliTypeOK, DispTypeOK
    <3> QED  BY <2>0, <2>2, <3>1 DEF HandleHeartbeat
  <2>3. CASE HandleMessage(k)
    <3>1. cur[k] \in Msgs
      BY <1>0 DEF TypeInv, TypeOK, CliTypeOK, DispTypeOK
    <3>2. Msg("ack", cur[k].n, 0, TRUE) \in Msgs /\ Msg("ack", cur[k].n, 0, TRUE).op = "ack"
      BY <3>1 DEF Msg, Msgs, OpCodes
    <3> QED  BY <2>0, <2>3, <3>2 DEF HandleMessage
  <2> QED  BY <2>1, <2>2, <2>3 DEF DispatchStep, ReadTop, ReadMsg, ReadErr, Lock,
    HandleSubscribed, HandleUnsubscribed, HandleAck,
    HandleDisconnect, SendError, Complete, AckDone, FailDone, Exit
<1>2. PICK ms \in Seq(Msgs) : /\ c2s' = Written(c2s, ws, ms)
                              /\ \A m \in Elems(ms) : m.op # "unsubscribe"
  BY <1>1
<1>3. \A w \in Ws :
         /\ w = ws /\ wsState[w] = "open" => Elems(c2s'[w]) = Elems(c2s[w]) \cup Elems(ms)
         /\ ~(w = ws /\ wsState[w] = "open") => c2s'[w] = c2s[w]
  BY <1>0, <1>2, WroteElems
<1>4. UnsubsInv'
  <2>1. \A w \in Ws : \A m \in Elems(c2s'[w]) :
             w = ws /\ m.op = "unsubscribe" => m \in Elems(c2s[w]) \/ Ended(m.sid)'
    BY <1>2, <1>3
  <2> QED  BY <1>0, <2>1, UnsubsKeep
<1>5. \A w \in Ws : wsState'[w] = "open" => wsState[w] = "open"
  BY <1>0 DEF DispatchStep, ReadTop, ReadMsg, ReadErr, Lock,
    HandleHeartbeat, HandleMessage, HandleSubscribed, HandleUnsubscribed, HandleAck,
    HandleDisconnect, SendError, Complete, AckDone, FailDone, Exit, TypeInv, TypeOK, NetTypeOK
<1>6. \A w \in Ws : w = ws /\ connected' /\ wsState'[w] = "open" =>
        \A m \in Elems(Coming(w)) : m.op = "unsubscribed" /\ m.sid \in subs' =>
             m \in Elems(Coming(w)')
  <2>1. SUFFICES ASSUME NEW w \in Ws, w = ws, wsState[w] = "open",
                        NEW m \in Elems(Coming(w)), m.op = "unsubscribed", m.sid \in subs'
                 PROVE  m \in Elems(Coming(w)')
    BY <1>5
  <2>2. \/ Coming(w)' = Coming(w)
        \/ /\ Coming(w) # <<>> /\ Coming(w)' = Tail(Coming(w))
           /\ \/ Head(Coming(w)) = cur[k] /\ Finishes(k)
              \/ Head(Coming(w)).op \notin Handled
    BY <2>1, ComingDispatch
  <2>3. CASE Coming(w) # <<>> /\ Coming(w)' = Tail(Coming(w))
    <3>1. Elems(Coming(w)) = {Head(Coming(w))} \cup Elems(Coming(w)')
      BY <1>0, <2>3, ComingType, ElemsTail
    <3>2. m # Head(Coming(w))
      <4>1. CASE Head(Coming(w)) = cur[k] /\ Finishes(k)
        <5>1. cur[k].op = "unsubscribed" => subs' = subs \ {cur[k].sid}
          BY <4>1 DEF Finishes, HandleHeartbeat, HandleMessage, HandleSubscribed,
            HandleUnsubscribed, HandleAck, Handles
        <5> QED  BY <2>1, <4>1, <5>1
      <4>2. CASE Head(Coming(w)).op \notin Handled
        BY <2>1, <4>2 DEF Handled
      <4>3. CASE Coming(w)' = Coming(w)
        <5>1. Len(Tail(Coming(w))) = Len(Coming(w)) - 1 /\ Len(Coming(w)) \in Nat
          BY <1>0, <2>3, ComingType, HeadTailProperties, LenProperties
        <5> QED  BY <2>3, <4>3, <5>1
      <4> QED  BY <2>2, <4>1, <4>2, <4>3
    <3> QED  BY <3>1, <3>2
  <2> QED  BY <2>2, <2>3
<1>7. \A w \in Ws : w = ws /\ connected' /\ wsState'[w] = "open" =>
             /\ wsState[w] = "open"
             /\ \A m \in Elems(c2s[w]) : m.op = "subscribe" => m \in Elems(c2s'[w])
             /\ \A m \in Elems(Coming(w)) : m.op = "unsubscribed" /\ m.sid \in subs' =>
                   m \in Elems(Coming(w)')
  BY <1>3, <1>5, <1>6
<1> QED  BY <1>0, <1>4, <1>7, KnownKeep

\* What an answer of the server to a subscription, or to its end, tells.
\* The server reads what the client wrote, or discards it.
LEMMA ServerConsumes ==
    ASSUME TypeInv, ServerReply \/ ServerPushes
    PROVE  \A w \in Ws : Elems(c2s'[w]) \subseteq Elems(c2s[w])
<1>0. TypeInv /\ c2s \in [Ws -> Seq(Msgs)]
  BY DEF TypeInv, TypeOK, NetTypeOK
<1>1. CASE \E w \in Ws : ServerLogin(w)
  <2>1. PICK v \in Ws : /\ c2s[v] # <<>>
                        /\ c2s' = [w \in Ws |-> IF w = v THEN Tail(c2s[w]) ELSE <<>>]
    BY <1>0, <1>1, LoginWrites
  <2>2. \A w \in Ws : w # v => Elems(c2s'[w]) = {}
    BY <2>1, ElemsShort
  <2>3. c2s[v] \in Seq(Msgs) /\ c2s'[v] = Tail(c2s[v])
    BY <1>0, <2>1
  <2> QED  BY <2>1, <2>2, <2>3, ElemsTail
<1>2. CASE ServerAnswer
  <2>1. PICK v \in Ws : v = srvWs /\ c2s[v] # <<>> /\ c2s' = [c2s EXCEPT ![v] = Tail(@)]
    BY <1>0, <1>2, AnswerWrites
  <2>2. c2s[v] \in Seq(Msgs) /\ c2s'[v] = Tail(c2s[v])
    BY <1>0, <2>1
  <2>3. \A w \in Ws : w # v => c2s'[w] = c2s[w]
    BY <1>0, <2>1
  <2> QED  BY <2>1, <2>2, <2>3, ElemsTail
<1>3. CASE ServerPushes
  BY <1>0, <1>3, PushWrites
<1> QED  BY <1>1, <1>2, <1>3 DEF ServerReply, ServerAnswer

LEMMA AnswerSubs ==
    ASSUME TypeInv, ServerAnswer, NEW i,
           i \in srvSubs \/ (SrvHead.op = "subscribe" /\ SrvHead.sid = i),
           SrvHead.op = "unsubscribe" => SrvHead.sid # i
    PROVE  \/ i \in srvSubs'
           \/ s2c' = Written(s2c, srvWs, <<Msg("unsubscribed", 0, i, FALSE)>>) /\ i \in Nat
<1>1. SrvHead.sid \in Nat
  <2>1. SrvHead \in Msgs
    BY ServerReadsType DEF ServerAnswer, ServerPublish, ServerSubscribe, ServerUnsubscribe,
      ServerAck, ServerIgnore, TypeInv, TypeOK
  <2> QED  BY <2>1 DEF Msgs
<1>2. CASE ServerPublish \/ ServerAck \/ ServerIgnore
  BY <1>2 DEF ServerPublish, ServerAck, ServerIgnore, ServerReads, SrvHead
<1>3. CASE ServerSubscribe
  BY <1>1, <1>3 DEF ServerSubscribe, ServerReads, SrvHead
<1>4. CASE ServerUnsubscribe
  BY <1>4 DEF ServerUnsubscribe, ServerReads, SrvHead
<1> QED  BY <1>2, <1>3, <1>4 DEF ServerAnswer

LEMMA SubsServer ==
    ASSUME Inv, SessionInv, SubsInv, ServerReply \/ ServerPushes, UNCHANGED cliVars
    PROVE  UnsubsInv' /\ KnownInv'
<1> USE DEF cliVars, connVars, dispVars
<1>0. /\ TypeInv /\ UnsubsInv /\ KnownInv /\ subs \subseteq Nat
      /\ c2s \in [Ws -> Seq(Msgs)] /\ s2c \in [Ws -> Seq(Msgs)]
  BY DEF Inv, SubsInv, TypeInv, TypeOK, NetTypeOK, CliTypeOK, ConnTypeOK, Sids
<1>1. \A w \in Ws : Elems(c2s'[w]) \subseteq Elems(c2s[w])
  BY <1>0, ServerConsumes
<1>2. UnsubsInv'
  BY <1>0, <1>1 DEF UnsubsInv, Ended
<1>3. KnownInv'
  <2>1. SUFFICES ASSUME NEW w \in Ws, w = ws, connected, wsState'[w] = "open", NEW i \in subs
                 PROVE  Known(w, i)'
    BY DEF KnownInv
  <2>2. NoLogins /\ srvWs = w
    BY <2>1, ConnectedFacts DEF SessionInv, WelcomedInv
  <2>3. \A v \in Ws : ~ServerLogin(v)
    <3>1. SUFFICES ASSUME NEW v \in Ws, c2s[v] # <<>>, Head(c2s[v]).op = "login" PROVE FALSE
      BY DEF ServerLogin
    <3>2. Head(c2s[v]) \in Elems(c2s[v])
      BY <1>0, <3>1, ElemsTail
    <3> QED  BY <2>2, <3>1, <3>2 DEF NoLogins, Ops
  <2>4. UNCHANGED wsState
    BY <1>0, <2>3, AnswerWrites, PushWrites DEF ServerReply, ServerAnswer
  <2>5. Known(w, i) /\ wsState[w] = "open"
    BY <1>0, <2>1, <2>4 DEF KnownInv
  <2>6. ASSUME NEW ms \in Seq(Msgs), s2c' = Written(s2c, srvWs, ms)
        PROVE  Elems(Coming(w)') = Elems(Coming(w)) \cup Elems(ms)
    <3>1. Coming(w) \in Seq(Msgs)
      BY <1>0, ComingType
    <3>2. Coming(w)' = Coming(w) \o ms
      BY <1>0, <2>2, <2>5, <2>6, ComingServer
    <3> QED  BY <3>1, <3>2, ElemsConcat
  <2>7. CASE ServerAnswer
    <3>1. /\ c2s[w] # <<>> /\ c2s[w] \in Seq(Msgs) /\ c2s'[w] = Tail(c2s[w])
          /\ srvWs' = srvWs
      BY <1>0, <2>2, <2>7, AnswerWrites
    <3>2. Elems(c2s[w]) = {SrvHead} \cup Elems(c2s'[w])
      BY <2>2, <3>1, ElemsTail DEF SrvHead
    <3>3. Elems(Coming(w)) \subseteq Elems(Coming(w)')
      BY <1>0, <2>6, <2>7, AnswerWrites
    <3>4. SrvHead.op = "unsubscribe" => SrvHead.sid # i
      BY <1>0, <2>1, <3>2 DEF UnsubsInv, Ended
    <3>5. CASE i \in srvSubs \/ (SrvHead.op = "subscribe" /\ SrvHead.sid = i)
      <4>1. CASE i \in srvSubs'
        BY <2>2, <3>1, <4>1 DEF Known
      <4>2. CASE s2c' = Written(s2c, srvWs, <<Msg("unsubscribed", 0, i, FALSE)>>) /\ i \in Nat
        <5>1. PICK m \in Msgs : m = Msg("unsubscribed", 0, i, FALSE)
          BY <4>2 DEF Msg, Msgs, OpCodes
        <5>2. <<m>> \in Seq(Msgs) /\ Elems(<<m>>) = {m}
          <6>1. <<m>> \in Seq(Msgs)
            OBVIOUS
          <6> QED  BY <6>1, ElemsShort
        <5>3. m \in Elems(Coming(w)')
          BY <2>6, <4>2, <5>1, <5>2
        <5> QED  BY <5>1, <5>3 DEF Known, Msg
      <4> QED  BY <1>0, <2>7, <3>4, <3>5, <4>1, <4>2, AnswerSubs
    <3>6. CASE \E m \in Elems(c2s'[w]) : m.op = "subscribe" /\ m.sid = i
      BY <3>6 DEF Known
    <3>7. CASE \E m \in Elems(Coming(w)) : m.op = "unsubscribed" /\ m.sid = i
      BY <3>3, <3>7 DEF Known
    <3>8. CASE \E m \in Elems(c2s[w]) : m.op = "subscribe" /\ m.sid = i
      <4>1. PICK m \in Elems(c2s[w]) : m.op = "subscribe" /\ m.sid = i
        BY <3>8
      <4>2. m = SrvHead \/ m \in Elems(c2s'[w])
        BY <3>2
      <4> QED  BY <3>5, <3>6, <4>1, <4>2
    <3>9. \/ i \in srvSubs
          \/ \E m \in Elems(c2s[w]) : m.op = "subscribe" /\ m.sid = i
          \/ \E m \in Elems(Coming(w)) : m.op = "unsubscribed" /\ m.sid = i
      BY <2>5 DEF Known
    <3> QED  BY <3>5, <3>7, <3>8, <3>9
  <2>8. CASE ServerPushes
    <3>1. PICK m \in Msgs :
                /\ s2c' = Written(s2c, srvWs, <<m>>)
                /\ \/ UNCHANGED srvSubs
                   \/ m.op = "unsubscribed" /\ srvSubs' = srvSubs \ {m.sid}
      BY <1>0, <2>8, PushWrites
    <3>2. UNCHANGED <<c2s, srvWs>>
      BY <1>0, <2>8, PushWrites
    <3>3. <<m>> \in Seq(Msgs) /\ Elems(<<m>>) = {m}
      <4>1. <<m>> \in Seq(Msgs)
        OBVIOUS
      <4> QED  BY <4>1, ElemsShort
    <3>4. Elems(Coming(w)') = Elems(Coming(w)) \cup {m}
      BY <2>6, <3>1, <3>3
    <3> QED  BY <2>5, <3>1, <3>2, <3>4 DEF Known
  <2> QED  BY <2>3, <2>7, <2>8 DEF ServerReply, ServerAnswer
<1> QED  BY <1>2, <1>3

LEMMA SubsNext ==
    ASSUME Inv, ListenInv, SessionInv, SubsInv, [Next]_vars
    PROVE  SubsInv'
<1>0. TypeInv /\ NumbersInv /\ UnsubsInv /\ KnownInv
      /\ c2s \in [Ws -> Seq(Msgs)] /\ wsState \in [Ws -> WsStates]
  BY DEF Inv, SubsInv, TypeInv, TypeOK, NetTypeOK
<1>1. CASE ClientNext
  BY <1>0, <1>1, SubsThread, SubsDispatch, NumbersThread, NumbersDispatch
  DEF ClientNext, SubsInv
<1>2. UNCHANGED cliVars => NumbersInv'
  BY <1>0 DEF cliVars, connVars, threadVars, chanVars, NumbersInv
<1>3. CASE EnvNext
  BY <1>2, <1>3, SubsServer DEF EnvNext, SubsInv
<1>4. CASE BreakNext
  <2>1. PICK v \in Ws : Break(v)
    BY <1>4 DEF BreakNext
  <2>2. \A w \in Ws : Elems(c2s'[w]) \subseteq Elems(c2s[w])
                        /\ (wsState'[w] = "open" => wsState[w] = "open" /\ c2s'[w] = c2s[w])
    BY <1>0, <2>1, ElemsShort DEF Break
  <2>3. UNCHANGED <<ws, connected, subs, subSeqNum, srvWs, srvSubs, dpc, cur, s2c>>
    BY <1>4, <2>1 DEF BreakNext, Break, cliVars, connVars, dispVars, srvVars
  <2>4. UnsubsInv'
    BY <1>0, <2>2, <2>3 DEF UnsubsInv, Ended
  <2>5. KnownInv'
    BY <1>0, <2>2, <2>3, KnownKeep DEF Coming
  <2> QED  BY <1>2, <1>4, <2>4, <2>5 DEF BreakNext, SubsInv
<1>5. CASE UNCHANGED vars
  <2>1. UNCHANGED <<ws, connected, subs, subSeqNum, srvWs, srvSubs, dpc, cur, netVars>>
    BY <1>5 DEF vars, cliVars, connVars, dispVars, srvVars
  <2>2. UnsubsInv' /\ KnownInv'
    BY <1>0, <2>1 DEF UnsubsInv, KnownInv, Known, Coming, Ended, netVars
  <2> QED  BY <1>2, <1>5, <2>2 DEF vars, SubsInv
<1> QED  BY <1>1, <1>3, <1>4, <1>5 DEF Next

\* The words of the property and those of the proof.
LEMMA KnownMeansEstablished ==
    ASSUME Inv, ListenInv, KnownInv
    PROVE  SubscriptionsReestablished
<1> SUFFICES ASSUME NEW i \in subs, connected, wsState[ws] = "open"
             PROVE  \/ i \in srvSubs /\ srvWs = ws
                    \/ \E j \in DOMAIN c2s[ws] :
                        c2s[ws][j].op = "subscribe" /\ c2s[ws][j].sid = i
                    \/ \E j \in DOMAIN s2c[ws] :
                        s2c[ws][j].op = "unsubscribed" /\ s2c[ws][j].sid = i
                    \/ \E k \in Dispatchers :
                        /\ dpc[k] \in {"msg", "handle"}
                        /\ cur[k].op = "unsubscribed" /\ cur[k].sid = i
  BY DEF SubscriptionsReestablished
<1>1. PICK w \in Ws : w = ws
  BY ConnectedFacts
<1>2. Known(w, i)
  BY <1>1 DEF KnownInv
<1>3. Elems(Coming(w)) = Elems(s2c[w])
                \cup (IF dpc[w] \in {"msg", "handle"} THEN {cur[w]} ELSE {})
  BY ComingType DEF Inv
<1> QED  BY <1>1, <1>2, <1>3 DEF Known, Elems, Dispatchers

\* While the connection is up, what the library believes subscribed the server
\* holds, or is about to learn, or has ended and the library is about to learn:
\* connect() tells it again to every new connection, resumed or not.
THEOREM SubscriptionsCorrect == DisconnectAlone => (Spec => []SubscriptionsReestablished)
<1> SUFFICES ASSUME DisconnectAlone PROVE Spec => []SubscriptionsReestablished
  OBVIOUS
<1>1. Init => SubsInv
  BY SubsInit
<1>2. Inv /\ ListenInv /\ SessionInv /\ SubsInv /\ [Next]_vars => SubsInv'
  BY SubsNext
<1>3. Inv /\ ListenInv /\ SubsInv => SubscriptionsReestablished
  BY KnownMeansEstablished DEF SubsInv
<1> QED  BY <1>1, <1>2, <1>3, SessionCorrect, PTL DEF Spec

-----------------------------------------------------------------------------
(* Numbered messages, in order. *)

\* The numbered messages of one kind are in the order of their numbers.
Sorted(s, op) ==
    \A i, j \in DOMAIN s :
        i < j /\ s[i].op = op /\ s[j].op = op /\ s[i].n # 0 /\ s[j].n # 0
            => s[i].n < s[j].n

\* Every numbered message of s comes before every one of r.
Before(s, r, op) ==
    \A m \in Elems(s), x \in Elems(r) :
        m.op = op /\ x.op = op /\ m.n # 0 /\ x.n # 0 => m.n < x.n

LEMMA SortedTail ==
    ASSUME NEW s \in Seq(Msgs), s # <<>>, NEW op, Sorted(s, op)
    PROVE  /\ Sorted(Tail(s), op)
           /\ \A m \in Elems(Tail(s)) :
                m.op = op /\ Head(s).op = op /\ m.n # 0 /\ Head(s).n # 0 => Head(s).n < m.n
<1>1. Len(s) \in Nat /\ Len(s) > 0 /\ DOMAIN s = 1..Len(s) /\ Head(s) = s[1]
  OBVIOUS
<1>2. \A j \in DOMAIN Tail(s) :
        j \in Nat /\ j > 0 /\ j + 1 \in DOMAIN s /\ Tail(s)[j] = s[j + 1]
  OBVIOUS
<1>3. Sorted(Tail(s), op)
  <2>1. SUFFICES ASSUME NEW i \in DOMAIN Tail(s), NEW j \in DOMAIN Tail(s), i < j
                 PROVE  i + 1 \in DOMAIN s /\ j + 1 \in DOMAIN s /\ i + 1 < j + 1
                        /\ Tail(s)[i] = s[i + 1] /\ Tail(s)[j] = s[j + 1]
    BY DEF Sorted
  <2> QED  BY <1>2, <2>1
<1>4. \A j \in DOMAIN Tail(s) : 1 \in DOMAIN s /\ 1 < j + 1
  BY <1>1, <1>2
<1>5. \A j \in DOMAIN Tail(s) :
        Tail(s)[j].op = op /\ Head(s).op = op /\ Tail(s)[j].n # 0 /\ Head(s).n # 0
            => Head(s).n < Tail(s)[j].n
  BY <1>1, <1>2, <1>4 DEF Sorted
<1> QED  BY <1>3, <1>5 DEF Elems

LEMMA SortedConcat ==
    ASSUME NEW s \in Seq(Msgs), NEW r \in Seq(Msgs), NEW op,
           Sorted(s, op), Sorted(r, op), Before(s, r, op)
    PROVE  Sorted(s \o r, op)
<1>1. /\ Len(s) \in Nat /\ DOMAIN s = 1..Len(s)
      /\ Len(r) \in Nat /\ DOMAIN r = 1..Len(r)
      /\ DOMAIN (s \o r) = 1..(Len(s) + Len(r))
  OBVIOUS
<1>2. \A j \in DOMAIN (s \o r) :
        \/ j \in DOMAIN s /\ (s \o r)[j] = s[j]
        \/ j > Len(s) /\ j - Len(s) \in DOMAIN r /\ (s \o r)[j] = r[j - Len(s)]
  OBVIOUS
<1> SUFFICES ASSUME NEW i \in DOMAIN (s \o r), NEW j \in DOMAIN (s \o r), i < j,
                    (s \o r)[i].op = op, (s \o r)[j].op = op,
                    (s \o r)[i].n # 0, (s \o r)[j].n # 0
             PROVE  (s \o r)[i].n < (s \o r)[j].n
  BY DEF Sorted
<1>3. CASE j \in DOMAIN s /\ (s \o r)[j] = s[j]
  <2>1. i \in DOMAIN s /\ (s \o r)[i] = s[i]
    BY <1>1, <1>2, <1>3
  <2> QED  BY <1>3, <2>1 DEF Sorted
<1>4. CASE j > Len(s) /\ j - Len(s) \in DOMAIN r /\ (s \o r)[j] = r[j - Len(s)]
  <2>1. CASE i \in DOMAIN s /\ (s \o r)[i] = s[i]
    BY <1>4, <2>1 DEF Before, Elems
  <2>2. CASE i > Len(s) /\ i - Len(s) \in DOMAIN r /\ (s \o r)[i] = r[i - Len(s)]
    <3>1. i - Len(s) < j - Len(s)
      BY <1>1
    <3> QED  BY <1>4, <2>2, <3>1 DEF Sorted
  <2> QED  BY <1>2, <2>1, <2>2
<1> QED  BY <1>2, <1>3, <1>4

\* What has no message of the kind, or one, is in order.
LEMMA SortedNone ==
    ASSUME NEW s, NEW op, \A m \in Elems(s) : m.op # op
    PROVE  Sorted(s, op)
  BY DEF Sorted, Elems

LEMMA SortedOne == \A m, op : Sorted(<<m>>, op)
<1>1. \A m : DOMAIN <<m>> = {1}
  OBVIOUS
<1>2. SUFFICES ASSUME NEW m, NEW op, NEW i \in DOMAIN <<m>>, NEW j \in DOMAIN <<m>>, i < j
               PROVE  FALSE
  BY DEF Sorted
<1>3. i = 1 /\ j = 1
  BY <1>1, <1>2
<1> QED  BY <1>2, <1>3

-----------------------------------------------------------------------------
(* Receipts. *)

\* The event was sent to the MessageChan, or came when nobody wanted it.
Received(id) == id \in unwanted \/ \E i \in DOMAIN delivered : delivered[i] = id

Events(w) == {m \in Elems(Coming(w)) : m.op = "event" /\ m.n # 0}
Comes(w, u) == \E m \in Events(w) : m.n = u.n

\* What the server keeps for the present session and lastSeqNum covers was
\* received.
UnackedInv ==
    /\ \A u \in unacked : u.n \in 1..srvSeq
    /\ sess = reconnectID =>
        /\ lastSeqNum <= srvSeq
        /\ \A u \in unacked : u.n <= lastSeqNum => Received(<<sess, u.n>>)

\* Events come in order, without a gap among those the server keeps; what
\* comes again was received.
EventsAt(w) ==
    /\ Sorted(Coming(w), "event")
    /\ sessOf[w] = reconnectID =>
        \A m \in Events(w) : m.n <= lastSeqNum => Received(<<reconnectID, m.n>>)
    /\ srvWs = w => \A m \in Events(w) : m.n <= srvSeq
    /\ srvWs = w => \A u \in unacked :
        \/ Received(<<sess, u.n>>)
        \/ Comes(w, u)
        \/ wsState[w] # "open" /\ \A m \in Events(w) : m.n <= u.n

EventsInv == \A w \in Ws : w = ws => EventsAt(w)

AcksInv ==
    /\ AckMeansReceipt
    /\ \A w \in Ws : \A m \in Elems(c2s[w]) :
        m.op = "ack" => Received(<<sessOf[w], m.n>>)

ReceiptInv == UnackedInv /\ EventsInv /\ AcksInv

LEMMA ReceiptInit == Init => ReceiptInv
<1> SUFFICES ASSUME Init PROVE ReceiptInv
  OBVIOUS
<1>1. \A w \in Ws : Elems(c2s[w]) = {}
  BY ElemsShort DEF Init, NetInit
<1>2. UnackedInv
  BY DEF Init, SrvInit, CliInit, UnackedInv
<1>3. EventsInv
  BY DEF Init, CliInit, EventsInv, Ws
<1>4. AcksInv
  BY <1>1 DEF Init, SrvInit, AcksInv, AckMeansReceipt
<1> QED  BY <1>2, <1>3, <1>4 DEF ReceiptInv

\* No event is received, handled or sent: connections close and what is on
\* them is lost.
LEMMA ReceiptKeep ==
    ASSUME ReceiptInv,
           UNCHANGED <<reconnectID, lastSeqNum, srvWs, sess, sessOf, srvSeq, unacked, acked,
                       histVars, ws>>,
           \A w \in Ws : w = ws =>
             /\ Sorted(Coming(w)', "event")
             /\ Events(w)' = Events(w) \/ (Events(w)' = {} /\ wsState'[w] # "open")
             /\ wsState'[w] = "open" => wsState[w] = "open",
           \A w \in Ws : \A m \in Elems(c2s'[w]) : m.op = "ack" => m \in Elems(c2s[w])
    PROVE  ReceiptInv'
<1>1. \A id : Received(id)' <=> Received(id)
  BY DEF Received, histVars
<1>2. UnackedInv'
  BY <1>1 DEF ReceiptInv, UnackedInv
<1>3. EventsInv'
  <2>1. SUFFICES ASSUME NEW w \in Ws, w = ws PROVE EventsAt(w)'
    BY DEF EventsInv
  <2>2. EventsAt(w) /\ Sorted(Coming(w)', "event")
    BY <2>1 DEF ReceiptInv, EventsInv
  <2>3. CASE Events(w)' = {} /\ wsState'[w] # "open"
    BY <1>1, <2>1, <2>2, <2>3 DEF EventsAt
  <2>4. CASE Events(w)' = Events(w)
    <3>1. \A u : Comes(w, u)' <=> Comes(w, u)
      BY <2>4 DEF Comes
    <3>2. wsState'[w] = "open" => wsState[w] = "open"
      BY <2>1
    <3> QED  BY <1>1, <2>1, <2>2, <2>4, <3>1, <3>2 DEF EventsAt
  <2> QED  BY <2>1, <2>3, <2>4
<1>4. AcksInv'
  BY <1>1 DEF ReceiptInv, AcksInv, AckMeansReceipt, Received, histVars
<1> QED  BY <1>2, <1>3, <1>4 DEF ReceiptInv

LEMMA ReceiptThread ==
    ASSUME Inv, ListenInv, SessionInv, ReceiptInv, UNCHANGED srvVars,
           NEW t \in Threads, CallStep(t) \/ DrainStep(t) \/ MethodStep(t)
    PROVE  ReceiptInv'
<1> USE DEF connVars, dispVars, netVars, srvVars
<1>0. TypeInv /\ UnackedInv /\ EventsInv /\ AcksInv
  BY DEF Inv, ReceiptInv
<1>c. UNCHANGED <<dpc, cur, s2c>> =>
        \A w \in Ws : Coming(w)' = Coming(w) /\ Events(w)' = Events(w)
  BY DEF Coming, Events
<1>s. \A w \in Ws : w = ws => Sorted(Coming(w), "event")
  BY <1>0 DEF EventsInv, EventsAt
<1>k. ASSUME UNCHANGED <<dpc, cur, s2c, reconnectID, lastSeqNum, ws, histVars>>,
             \A w \in Ws : wsState'[w] = "open" => wsState[w] = "open",
             \A w \in Ws : \A m \in Elems(c2s'[w]) : m.op = "ack" => m \in Elems(c2s[w])
      PROVE  ReceiptInv'
  <2>1. \A w \in Ws : w = ws =>
             /\ Sorted(Coming(w)', "event")
             /\ Events(w)' = Events(w) \/ (Events(w)' = {} /\ wsState'[w] # "open")
             /\ wsState'[w] = "open" => wsState[w] = "open"
    BY <1>c, <1>s, <1>k
  <2> QED  BY <1>k, <2>1, ReceiptKeep
<1>1. CASE Calm
  BY <1>1, <1>k DEF Calm
<1>2. CASE Publishing(t) \/ Subscribes(t) \/ Unsubscribe(t) \/ UnsubscribeAll(t)
  <2>1. PICK ms : Writes(ms) /\ Ops(ms) \subseteq {"publish", "subscribe", "unsubscribe"}
    BY <1>0, <1>2, ThreadWrites
  <2>2. \A w \in Ws : Elems(c2s'[w]) \subseteq Elems(c2s[w]) \cup Elems(ms)
    BY <1>0, <2>1, WroteElems DEF Writes
  <2>3. \A w \in Ws : \A m \in Elems(c2s'[w]) : m.op = "ack" => m \in Elems(c2s[w])
    BY <2>1, <2>2 DEF Ops
  <2> QED  BY <1>k, <2>1, <2>3 DEF Writes
<1>3. CASE Dial(t)
  <2>1. PICK v \in Ws : /\ wsState[v] = "unused" /\ ws' = v
                        /\ c2s' = [c2s EXCEPT ![v] = <<Msg("login", reconnectID, 0, TRUE)>>]
    BY <1>3 DEF Dial
  <2>2. s2c[v] = <<>> /\ dpc[v] = "none" /\ srvWs # v
    BY <2>1 DEF SessionInv, WireInv, Inv, SocketInv
  <2>3. UNCHANGED <<dpc, cur, s2c, reconnectID, lastSeqNum, histVars>>
    BY <1>3 DEF Dial
  <2>4. Coming(v)' = <<>> /\ Events(v)' = {}
    BY <2>2, <2>3, ElemsShort DEF Coming, Events
  <2>5. \A id : Received(id)' <=> Received(id)
    BY <2>3 DEF Received, histVars
  <2>6. UnackedInv'
    BY <1>0, <2>3, <2>5 DEF UnackedInv
  <2>7. EventsInv'
    <3>1. Sorted(<<>>, "event")
      BY SortedNone, ElemsShort
    <3> QED  BY <2>1, <2>2, <2>4, <3>1 DEF EventsInv, EventsAt
  <2>8. AcksInv'
    <3>1. \A w \in Ws : \A m \in Elems(c2s'[w]) : m.op = "ack" => m \in Elems(c2s[w])
      <4>1. \A m \in Elems(<<Msg("login", reconnectID, 0, TRUE)>>) : m.op = "login"
        BY ElemsShort DEF Msg
      <4> QED  BY <2>1, <4>1 DEF Inv, TypeInv, TypeOK, NetTypeOK
    <3> QED  BY <1>0, <2>3, <2>5, <3>1 DEF AcksInv, AckMeansReceipt, histVars
  <2> QED  BY <2>6, <2>7, <2>8 DEF ReceiptInv
<1>4. CASE LoginFail(t)
  <2>1. \A w \in Ws : wsState'[w] = "open" => wsState[w] = "open"
    BY <1>0, <1>4 DEF LoginFail, TypeInv, TypeOK, NetTypeOK
  <2> QED  BY <1>4, <1>k, <2>1 DEF LoginFail
<1>5. CASE Welcome(t)
  <2>1. mu = t /\ dpc[ws] = "none" /\ ws \in Ws
    BY <1>5 DEF Welcome, Inv, LockDiscipline, SocketInv, TypeInv, HasSocket
  <2>2. /\ s2c[ws] # <<>> /\ Head(s2c[ws]).op = "welcome" /\ s2c[ws] \in Seq(Msgs)
        /\ s2c'[ws] = Tail(s2c[ws]) /\ dpc'[ws] = "top"
        /\ UNCHANGED <<ws, wsState, histVars>>
    BY <1>0, <1>5, <2>1 DEF Welcome, TypeInv, TypeOK, NetTypeOK, CliTypeOK, DispTypeOK,
      Dispatchers
  <2>3. PICK w \in Ws : w = ws
    BY <2>1
  <2>4. Coming(w) = s2c[w] /\ Coming(w)' = Tail(s2c[w])
    BY <2>1, <2>2, <2>3 DEF Coming
  <2>5. Events(w)' = Events(w) /\ Sorted(Coming(w)', "event")
    <3>1. Elems(Coming(w)) = {Head(s2c[w])} \cup Elems(Coming(w)')
      BY <2>2, <2>3, <2>4, ElemsTail
    <3>2. Events(w)' = Events(w)
      BY <2>2, <2>3, <3>1 DEF Events
    <3> QED  BY <1>s, <2>2, <2>3, <2>4, <3>2, SortedTail
  <2>6. \A id : Received(id)' <=> Received(id)
    BY <2>2 DEF Received, histVars
  <2>7. reconnectID' = sess /\ \/ reconnectID' = reconnectID /\ lastSeqNum' = lastSeqNum
                               \/ lastSeqNum' = 0
    BY <1>5, WelcomeSession
  <2>8. srvSeq \in Nat /\ \A m \in Events(w) : m.n \in Nat /\ m.n # 0
    <3>1. Elems(Coming(w)) \subseteq Msgs
      BY <1>0, ComingType, ElemsType
    <3> QED  BY <1>0, <3>1 DEF Events, Msgs, TypeInv, TypeOK, SrvTypeOK
  <2>9. UnackedInv'
    BY <1>0, <2>6, <2>7, <2>8 DEF UnackedInv
  <2>10. EventsInv'
    <3>1. EventsAt(w)
      BY <1>0, <2>3 DEF EventsInv
    <3>2. \A u : Comes(w, u)' <=> Comes(w, u)
      BY <2>5 DEF Comes
    <3>3. EventsAt(w)'
      BY <2>2, <2>5, <2>6, <2>7, <2>8, <3>1, <3>2 DEF EventsAt
    <3> QED  BY <2>2, <2>3, <3>3 DEF EventsInv
  <2>11. AcksInv'
    <3>1. PICK ms \in Seq(Msgs), again \in Seq(Msgs) :
             /\ c2s' = Written(c2s, ws, ms \o again)
             /\ Elems(ms) = {Msg("subscribe", 0, i, TRUE) : i \in subs}
             /\ Elems(again) = {Msg("publish", n, 0, TRUE) :
                                  n \in IF Head(s2c[ws]).ok THEN Resendable ELSE {}}
      BY <1>0, <1>5, WelcomeWrites
    <3>2. PICK all \in Seq(Msgs) : /\ all = ms \o again
                                   /\ Elems(all) = Elems(ms) \cup Elems(again)
      BY <3>1, ElemsConcat
    <3>3. \A m \in Elems(all) : m.op # "ack"
      BY <3>1, <3>2 DEF Msg
    <3>4. \A v \in Ws : Elems(c2s'[v]) \subseteq Elems(c2s[v]) \cup Elems(all)
      BY <1>0, <3>1, <3>2, WroteElems
    <3>5. \A v \in Ws : \A m \in Elems(c2s'[v]) : m.op = "ack" => m \in Elems(c2s[v])
      BY <3>3, <3>4
    <3> QED  BY <1>0, <2>2, <2>6, <3>5 DEF AcksInv, AckMeansReceipt, histVars
  <2> QED  BY <2>9, <2>10, <2>11 DEF ReceiptInv
<1>6. CASE Disconnect(t) /\ connected
  <2>1. \A w \in Ws : wsState'[w] = "open" => wsState[w] = "open"
    BY <1>0, <1>6 DEF Disconnect, TypeInv, TypeOK, NetTypeOK
  <2>2. PICK m \in Msgs : m = Msg("disconnect", 0, 0, TRUE)
    BY DEF Msg, Msgs, OpCodes
  <2>3. <<m>> \in Seq(Msgs)
    OBVIOUS
  <2>4. c2s' = Written(c2s, ws, <<m>>)
    BY <1>6, <2>2 DEF Disconnect
  <2>5. \A w \in Ws : Elems(c2s'[w]) \subseteq Elems(c2s[w]) \cup Elems(<<m>>)
    BY <1>0, <2>3, <2>4, WroteElems
  <2>6. \A w \in Ws : \A x \in Elems(c2s'[w]) : x.op = "ack" => x \in Elems(c2s[w])
    BY <2>2, <2>5, ElemsShort DEF Msg
  <2> QED  BY <1>6, <1>k, <2>1, <2>6 DEF Disconnect
<1> QED  BY <1>1, <1>2, <1>3, <1>4, <1>5, <1>6, ThreadCases

\* The dispatcher does anything but handle an event.
LEMMA ReceiptQuiet ==
    ASSUME Inv, ListenInv, SessionInv, ReceiptInv, UNCHANGED srvVars,
           NEW k \in Dispatchers, DispatchStep(k), ~HandleMessage(k)
    PROVE  ReceiptInv'
<1> USE DEF connVars, netVars, srvVars
<1>0. /\ TypeInv /\ UNCHANGED <<ws, reconnectID, lastSeqNum, histVars>>
  BY DEF Inv, DispatchStep, ReadTop, ReadMsg, ReadErr, Lock,
    HandleHeartbeat, HandleSubscribed, HandleUnsubscribed, HandleAck,
    HandleDisconnect, SendError, Complete, AckDone, FailDone, Exit
<1>1. \A w \in Ws : wsState'[w] = "open" => wsState[w] = "open"
  BY <1>0 DEF DispatchStep, ReadTop, ReadMsg, ReadErr, Lock,
    HandleHeartbeat, HandleSubscribed, HandleUnsubscribed, HandleAck,
    HandleDisconnect, SendError, Complete, AckDone, FailDone, Exit, TypeInv, TypeOK, NetTypeOK
<1>2. \A w \in Ws : \A m \in Elems(c2s'[w]) : m.op = "ack" => m \in Elems(c2s[w])
  <2>1. CASE HandleHeartbeat(k)
    <3>1. PICK m \in Msgs : m = cur[k]
      BY <1>0 DEF TypeInv, TypeOK, CliTypeOK, DispTypeOK
    <3>2. <<m>> \in Seq(Msgs) /\ c2s' = Written(c2s, ws, <<m>>) /\ m.op = "heartbeat"
      <4>1. <<m>> \in Seq(Msgs)
        OBVIOUS
      <4> QED  BY <2>1, <3>1, <4>1 DEF HandleHeartbeat, Handles
    <3>3. \A w \in Ws : Elems(c2s'[w]) \subseteq Elems(c2s[w]) \cup Elems(<<m>>)
      BY <1>0, <3>2, WroteElems
    <3> QED  BY <3>2, <3>3, ElemsShort
  <2>2. CASE UNCHANGED c2s
    BY <2>2
  <2> QED  BY <2>1, <2>2 DEF DispatchStep, ReadTop, ReadMsg, ReadErr, Lock,
    HandleSubscribed, HandleUnsubscribed, HandleAck,
    HandleDisconnect, SendError, Complete, AckDone, FailDone, Exit
<1>3. \A w \in Ws : w = ws =>
             /\ Sorted(Coming(w)', "event")
             /\ Events(w)' = Events(w) \/ (Events(w)' = {} /\ wsState'[w] # "open")
  <2>1. SUFFICES ASSUME NEW w \in Ws, w = ws
                 PROVE  /\ Sorted(Coming(w)', "event")
                        /\ Events(w)' = Events(w)
                             \/ (Events(w)' = {} /\ wsState'[w] # "open")
    OBVIOUS
  <2>2. Sorted(Coming(w), "event") /\ Coming(w) \in Seq(Msgs)
    BY <1>0, <2>1, ComingType DEF ReceiptInv, EventsInv, EventsAt
  <2>3. CASE Coming(w)' = Coming(w)
    BY <2>2, <2>3 DEF Events
  <2>4. CASE /\ Coming(w) # <<>> /\ Coming(w)' = Tail(Coming(w))
             /\ Head(Coming(w)).op # "event"
    <3>1. Elems(Coming(w)) = {Head(Coming(w))} \cup Elems(Coming(w)')
      BY <2>2, <2>4, ElemsTail
    <3>2. Events(w)' = Events(w)
      BY <2>4, <3>1 DEF Events
    <3> QED  BY <2>2, <2>4, <3>2, SortedTail
  <2>5. CASE Coming(w)' = <<>> /\ wsState[w] # "open"
    <3>1. Events(w)' = {} /\ wsState'[w] # "open"
      BY <1>1, <2>5, ElemsShort DEF Events
    <3> QED  BY <2>5, <3>1, SortedNone, ElemsShort
  <2>6. Finishes(k) => cur[k].op # "event"
    BY DEF Finishes, HandleHeartbeat, HandleSubscribed, HandleUnsubscribed, HandleAck, Handles
  <2> QED  BY <2>1, <2>3, <2>4, <2>5, <2>6, ComingDispatch DEF Handled
<1>4. \A w \in Ws : w = ws =>
             /\ Sorted(Coming(w)', "event")
             /\ Events(w)' = Events(w) \/ (Events(w)' = {} /\ wsState'[w] # "open")
             /\ wsState'[w] = "open" => wsState[w] = "open"
  BY <1>1, <1>3
<1>5. UNCHANGED <<reconnectID, lastSeqNum, srvWs, sess, sessOf, srvSeq, unacked, acked,
                  histVars, ws>>
  BY <1>0
<1> QED  BY <1>2, <1>4, <1>5, ReceiptKeep

LEMMA AppendKeeps ==
    ASSUME NEW S, NEW s \in Seq(S), NEW e \in S
    PROVE  /\ \A i \in DOMAIN s : i \in DOMAIN Append(s, e) /\ Append(s, e)[i] = s[i]
           /\ Len(s) + 1 \in DOMAIN Append(s, e)
           /\ Append(s, e)[Len(s) + 1] = e
<1>1. /\ DOMAIN Append(s, e) = 1..(Len(s) + 1) /\ DOMAIN s = 1..Len(s) /\ Len(s) \in Nat
      /\ \A i \in 1..Len(s) : Append(s, e)[i] = s[i]
      /\ Append(s, e)[Len(s) + 1] = e
  OBVIOUS
<1> QED  BY <1>1

\* After an event is handled it was received, by now or before.
LEMMA HandleReceives ==
    ASSUME Inv, ListenInv, SessionInv, ReceiptInv,
           NEW k \in Dispatchers, HandleMessage(k),
           NEW r, r = reconnectID, NEW n, n = cur[k].n
    PROVE  /\ \A a, b : Received(<<a, b>>) => Received(<<a, b>>)'
           /\ n # 0 => Received(<<r, n>>)'
<1>1. k \in Ws /\ k = ws /\ sessOf[k] = reconnectID /\ sessOf[rd[k]] = reconnectID
  BY HandledSession DEF HandleMessage, Handles, Dispatchers
<1>2. /\ cur[k].n \in Nat /\ reconnectID \in Nat /\ lastSeqNum \in Nat
      /\ cur[k].op = "event" /\ delivered \in Seq(Nat \X Nat)
  BY DEF Inv, TypeInv, TypeOK, CliTypeOK, ConnTypeOK, DispTypeOK, HistTypeOK, Msgs,
    HandleMessage, Handles
<1>3. PICK id \in Nat \X Nat : id = <<reconnectID, cur[k].n>>
  BY <1>2
<1>4. /\ delivered' = IF Sends(cur[k]) /\ cur[k].n > 0 THEN Append(delivered, id)
                      ELSE delivered
      /\ unwanted' = IF cur[k].sid \in subs /\ MsgCap > 0 THEN unwanted
                     ELSE unwanted \cup {id}
  BY <1>1, <1>3 DEF HandleMessage
<1>5. /\ \A i \in DOMAIN delivered : i \in DOMAIN Append(delivered, id)
                                      /\ Append(delivered, id)[i] = delivered[i]
      /\ Len(delivered) + 1 \in DOMAIN Append(delivered, id)
      /\ Append(delivered, id)[Len(delivered) + 1] = id
  BY <1>2, AppendKeeps
<1>6. \A i \in DOMAIN delivered : i \in DOMAIN delivered' /\ delivered'[i] = delivered[i]
  BY <1>4, <1>5
<1>7. \A x : Received(x) => Received(x)'
  BY <1>4, <1>6 DEF Received
<1>8. ASSUME cur[k].n # 0 PROVE Received(id)'
  <2>1. CASE Sends(cur[k])
    <3>1. delivered' = Append(delivered, id)
      BY <1>2, <1>4, <1>8, <2>1
    <3> QED  BY <1>5, <3>1 DEF Received
  <2>2. CASE ~(cur[k].sid \in subs /\ MsgCap > 0)
    <3>1. id \in unwanted'
      BY <1>4, <2>2
    <3> QED  BY <3>1 DEF Received
  <2>3. CASE cur[k].n <= lastSeqNum
    <3>1. cur[k] \in Events(k)
      <4>1. Coming(k) = <<cur[k]>> \o s2c[k] /\ cur[k] \in Msgs /\ s2c[k] \in Seq(Msgs)
        BY <1>1 DEF Coming, HandleMessage, Handles, Inv, TypeInv, TypeOK, CliTypeOK,
          DispTypeOK, NetTypeOK
      <4>2. cur[k] \in Elems(Coming(k))
        <5>1. <<cur[k]>> \in Seq(Msgs)
          BY <4>1
        <5> QED  BY <4>1, <5>1, ElemsConcat, ElemsShort
      <4> QED  BY <1>2, <1>8, <4>2 DEF Events
    <3>2. EventsAt(k)
      BY <1>1 DEF ReceiptInv, EventsInv
    <3>3. Received(<<reconnectID, cur[k].n>>)
      BY <1>1, <2>3, <3>1, <3>2 DEF EventsAt
    <3> QED  BY <1>3, <1>7, <3>3
  <2> QED  BY <1>2, <1>8, <2>1, <2>2, <2>3 DEF Sends, IsNew
<1>9. n # 0 => Received(<<r, n>>)'
  <2>1. id = <<r, n>>
    BY <1>3
  <2>2. n # 0 => Received(id)'
    BY <1>8
  <2> QED  BY <2>1, <2>2 DEF Received
<1>10. \A a, b : Received(<<a, b>>) => Received(<<a, b>>)'
  BY <1>7
<1> QED  BY <1>9, <1>10

LEMMA ReceiptHandle ==
    ASSUME Inv, ListenInv, SessionInv, ReceiptInv, UNCHANGED srvVars,
           NEW k \in Dispatchers, DispatchStep(k), HandleMessage(k)
    PROVE  ReceiptInv'
<1>0. TypeInv /\ UnackedInv /\ EventsInv /\ AcksInv
  BY DEF Inv, ReceiptInv
<1>1. k \in Ws /\ k = ws /\ srvWs = k /\ sess = reconnectID /\ sessOf[k] = reconnectID
  BY HandledSession DEF HandleMessage, Handles, Dispatchers
<1>2. UNCHANGED <<ws, reconnectID, wsState, srvWs, sess, sessOf, srvSeq, unacked, acked>>
  BY DEF HandleMessage, srvVars
<1>3. /\ cur[k].n \in Nat /\ lastSeqNum \in Nat /\ srvSeq \in Nat /\ reconnectID \in Nat
      /\ cur[k] \in Msgs /\ cur[k].op = "event"
  BY DEF Inv, TypeInv, TypeOK, CliTypeOK, ConnTypeOK, DispTypeOK, SrvTypeOK, Msgs,
    HandleMessage, Handles
<1>n. PICK n \in Nat : n = cur[k].n
  BY <1>3
<1>r. PICK r \in Nat : r = reconnectID
  BY <1>3
<1>4. lastSeqNum' = IF n > lastSeqNum THEN n ELSE lastSeqNum
  BY <1>3, <1>n DEF HandleMessage, IsNew
<1>5. Coming(k) \in Seq(Msgs) /\ EventsAt(k)
  BY <1>0, <1>1, ComingType DEF EventsInv
<1>6. Coming(k) # <<>> /\ Coming(k)' = Tail(Coming(k)) /\ Head(Coming(k)) = cur[k]
  <2>1. Finishes(k)
    BY DEF Finishes
  <2>2. ~ReadErr(k)
    BY DEF ReadErr, HandleMessage, Handles
  <2>3. \/ Coming(k)' = Coming(k) /\ ~Finishes(k)
        \/ /\ Coming(k) # <<>> /\ Coming(k)' = Tail(Coming(k))
           /\ \/ Head(Coming(k)) = cur[k] /\ Finishes(k)
              \/ ~Finishes(k)
        \/ ReadErr(k)
    BY <1>1, ComingDispatch
  <2> QED  BY <2>1, <2>2, <2>3
<1>7. Elems(Coming(k)) = {cur[k]} \cup Elems(Coming(k)')
  BY <1>5, <1>6, ElemsTail
<1>8. /\ Sorted(Coming(k)', "event")
      /\ \A m \in Events(k)' : n # 0 => n < m.n
      /\ \A m \in Events(k)' : m.n \in Nat /\ m.n # 0
  <2>1. Sorted(Coming(k)', "event")
    BY <1>5, <1>6, SortedTail DEF EventsAt
  <2>2. \A m \in Elems(Coming(k)') :
          m.op = "event" /\ cur[k].op = "event" /\ m.n # 0 /\ cur[k].n # 0 => cur[k].n < m.n
    BY <1>5, <1>6, SortedTail DEF EventsAt
  <2>3. Elems(Coming(k)') \subseteq Msgs
    BY <1>5, <1>7, ElemsType
  <2> QED  BY <1>3, <1>n, <2>1, <2>2, <2>3 DEF Events, Msgs
<1>9. Events(k)' \subseteq Events(k)
      /\ \A m \in Events(k) : m \in Events(k)' \/ (m = cur[k] /\ n # 0)
  BY <1>7, <1>n DEF Events
<1>10. /\ \A a, b : Received(<<a, b>>) => Received(<<a, b>>)'
       /\ n # 0 => Received(<<r, n>>)'
  BY <1>n, <1>r, HandleReceives
<1>e. /\ \A m \in Events(k) : m.n <= lastSeqNum => Received(<<r, m.n>>)
      /\ \A m \in Events(k) : m.n <= srvSeq
      /\ \A u \in unacked : \/ Received(<<r, u.n>>)
                            \/ Comes(k, u)
                            \/ wsState[k] # "open" /\ \A m \in Events(k) : m.n <= u.n
  BY <1>1, <1>5, <1>r DEF EventsAt
<1>11. \A u \in unacked : \/ Received(<<r, u.n>>)'
                          \/ Comes(k, u)'
                          \/ wsState[k] # "open" /\ \A m \in Events(k) : m.n <= u.n
  <2>1. SUFFICES ASSUME NEW u \in unacked, Comes(k, u)
                 PROVE  Received(<<r, u.n>>)' \/ Comes(k, u)'
    BY <1>e, <1>10
  <2>2. PICK m \in Events(k) : m.n = u.n
    BY <2>1 DEF Comes
  <2>3. CASE m \in Events(k)'
    BY <2>2, <2>3 DEF Comes
  <2>4. CASE n = u.n /\ n # 0
    BY <1>10, <2>4
  <2> QED  BY <1>9, <1>n, <2>2, <2>3, <2>4
<1>12. \A u \in unacked : u.n \in Nat /\ u.n # 0 /\ u.n <= srvSeq
  BY <1>0, <1>3 DEF UnackedInv
<1>13. n # 0 => cur[k] \in Events(k) /\ n <= srvSeq
  <2>1. n # 0 => cur[k] \in Events(k)
    BY <1>3, <1>7, <1>n DEF Events
  <2> QED  BY <1>e, <1>n, <2>1
<1>14. UnackedInv'
  <2>1. lastSeqNum' <= srvSeq
    <3>1. lastSeqNum <= srvSeq
      BY <1>0, <1>1 DEF UnackedInv
    <3> QED  BY <1>3, <1>4, <1>13, <3>1
  <2>2. ASSUME NEW u \in unacked, u.n <= lastSeqNum'
        PROVE  Received(<<r, u.n>>)'
    <3>1. CASE u.n <= lastSeqNum
      <4>1. Received(<<r, u.n>>)
        BY <1>0, <1>1, <1>r, <3>1 DEF UnackedInv
      <4> QED  BY <1>10, <4>1
    <3>2. CASE ~(u.n <= lastSeqNum)
      <4>1. n # 0 /\ u.n <= n
        BY <1>3, <1>4, <1>12, <2>2, <3>2
      <4>2. CASE u.n = n
        BY <1>10, <4>1, <4>2
      <4>3. CASE u.n # n
        <5>1. ~(n <= u.n) /\ cur[k] \in Events(k)
          BY <1>12, <1>13, <4>1, <4>3
        <5>2. \A m \in Events(k)' : m.n # u.n
          BY <1>8, <1>12, <4>1
        <5> QED  BY <1>11, <1>n, <5>1, <5>2 DEF Comes
      <4> QED  BY <4>2, <4>3
    <3> QED  BY <3>1, <3>2
  <2>3. sess' = r
    BY <1>1, <1>2, <1>r
  <2>4. \A u \in unacked' : u.n <= lastSeqNum' => Received(<<sess, u.n>>)'
    <3>1. \A u \in unacked : u.n <= lastSeqNum' => Received(<<r, u.n>>)'
      BY <2>2
    <3> QED  BY <1>2, <2>3, <3>1 DEF Received
  <2> QED  BY <1>0, <1>2, <2>1, <2>4 DEF UnackedInv
<1>15. EventsInv'
  <2>1. ASSUME NEW m \in Events(k)', m.n <= lastSeqNum'
        PROVE  Received(<<r, m.n>>)'
    <3>1. m.n <= lastSeqNum
      BY <1>3, <1>4, <1>8, <2>1
    <3>2. Received(<<r, m.n>>)
      BY <1>e, <1>9, <3>1, <2>1
    <3> QED  BY <1>10, <3>2
  <2>2. \A m \in Events(k)' : m.n <= srvSeq
    BY <1>e, <1>9
  <2>3. \A u \in unacked : \/ Received(<<r, u.n>>)'
                           \/ Comes(k, u)'
                           \/ wsState[k] # "open" /\ \A m \in Events(k)' : m.n <= u.n
    BY <1>9, <1>11
  <2>4. r = reconnectID' /\ r = sess'
    BY <1>1, <1>2, <1>r
  <2>5. /\ \A m \in Events(k)' : m.n <= lastSeqNum' => Received(<<reconnectID, m.n>>)'
        /\ \A u \in unacked : \/ Received(<<sess, u.n>>)'
                              \/ Comes(k, u)'
                              \/ wsState[k] # "open" /\ \A m \in Events(k)' : m.n <= u.n
    <3>1. \A m \in Events(k)' : m.n <= lastSeqNum' => Received(<<r, m.n>>)'
      BY <2>1
    <3> QED  BY <2>3, <2>4, <3>1 DEF Received
  <2>6. EventsAt(k)'
    BY <1>2, <1>8, <2>2, <2>5 DEF EventsAt
  <2> QED  BY <1>1, <1>2, <2>6 DEF EventsInv
<1>16. AcksInv'
  <2>1. AckMeansReceipt'
    <3>1. SUFFICES ASSUME NEW id \in acked' PROVE Received(id)'
      BY DEF AckMeansReceipt, Received
    <3>2. PICK a \in Nat, b \in Nat : id = <<a, b>>
      BY <1>2, <3>1 DEF Inv, TypeInv, TypeOK, SrvTypeOK
    <3>3. Received(<<a, b>>)
      BY <1>0, <1>2, <3>1, <3>2 DEF AcksInv, AckMeansReceipt, Received
    <3>4. Received(<<a, b>>)'
      BY <1>10, <3>3
    <3> QED  BY <3>2, <3>4 DEF Received
  <2>2. ASSUME NEW w \in Ws, NEW m \in Elems(c2s'[w]), m.op = "ack",
               NEW e, e = sessOf[w]
        PROVE  Received(<<e, m.n>>)'
    <3>1. CASE m \in Elems(c2s[w])
      <4>1. Received(<<e, m.n>>)
        BY <1>0, <2>2, <3>1 DEF AcksInv
      <4> QED  BY <1>10, <4>1
    <3>2. CASE m \notin Elems(c2s[w])
      <4>1. PICK a \in Msgs : a = Msg("ack", n, 0, TRUE)
        BY <1>3 DEF Msg, Msgs, OpCodes
      <4>2. <<a>> \in Seq(Msgs) /\ Elems(<<a>>) = {a}
        <5>1. <<a>> \in Seq(Msgs)
          OBVIOUS
        <5> QED  BY <5>1, ElemsShort
      <4>3. n # 0 /\ c2s' = Written(c2s, ws, <<a>>)
        BY <1>n, <2>2, <3>2, <4>1 DEF HandleMessage
      <4>4. /\ w = ws /\ wsState[w] = "open" => Elems(c2s'[w]) = Elems(c2s[w]) \cup Elems(<<a>>)
            /\ ~(w = ws /\ wsState[w] = "open") => c2s'[w] = c2s[w]
        BY <1>0, <4>2, <4>3, WroteElems
      <4>5. w = ws /\ m = a
        BY <2>2, <3>2, <4>2, <4>4
      <4>6. e = r /\ m.n = n
        BY <1>1, <1>r, <2>2, <4>1, <4>5 DEF Msg
      <4> QED  BY <1>10, <4>3, <4>6
    <3> QED  BY <3>1, <3>2
  <2>3. \A w \in Ws : \A m \in Elems(c2s'[w]) : m.op = "ack" => Received(<<sessOf[w], m.n>>)'
    <3>1. SUFFICES ASSUME NEW w \in Ws, NEW m \in Elems(c2s'[w]), m.op = "ack"
                   PROVE  Received(<<sessOf[w], m.n>>)'
      OBVIOUS
    <3>2. PICK e : e = sessOf[w]
      OBVIOUS
    <3>3. Received(<<e, m.n>>)'
      BY <2>2, <3>1, <3>2
    <3> QED  BY <1>2, <3>2, <3>3 DEF Received
  <2> QED  BY <2>1, <2>3 DEF AcksInv
<1> QED  BY <1>14, <1>15, <1>16 DEF ReceiptInv

\* What comes when the server has written ms.
LEMMA ReceiptWritten ==
    ASSUME TypeInv, NEW ms \in Seq(Msgs), s2c' = Written(s2c, srvWs, ms),
           UNCHANGED <<dpc, cur>>, NEW w \in Ws, Sorted(Coming(w), "event"),
           Sorted(ms, "event"), srvWs = w => Before(Coming(w), ms, "event")
    PROVE  /\ Sorted(Coming(w)', "event")
           /\ Events(w)' = Events(w) \cup
                (IF w = srvWs /\ wsState[w] = "open"
                 THEN {m \in Elems(ms) : m.op = "event" /\ m.n # 0} ELSE {})
<1>1. Coming(w) \in Seq(Msgs)
  BY ComingType
<1>2. Coming(w)' = IF w = srvWs /\ wsState[w] = "open" THEN Coming(w) \o ms ELSE Coming(w)
  BY ComingServer
<1>3. CASE w = srvWs /\ wsState[w] = "open"
  <2>1. Coming(w)' = Coming(w) \o ms
    BY <1>2, <1>3
  <2>2. Sorted(Coming(w) \o ms, "event")
    BY <1>1, <1>3, SortedConcat
  <2>3. Elems(Coming(w)') = Elems(Coming(w)) \cup Elems(ms)
    BY <1>1, <2>1, ElemsConcat
  <2>4. Events(w)' = Events(w) \cup {m \in Elems(ms) : m.op = "event" /\ m.n # 0}
    BY <2>3 DEF Events
  <2> QED  BY <1>3, <2>1, <2>2, <2>4
<1>4. CASE ~(w = srvWs /\ wsState[w] = "open")
  <2>1. Coming(w)' = Coming(w)
    BY <1>2, <1>4
  <2>2. Events(w)' = Events(w)
    BY <2>1 DEF Events
  <2> QED  BY <1>4, <2>1, <2>2
<1> QED  BY <1>3, <1>4

LEMMA ReceiptAnswer ==
    ASSUME Inv, SessionInv, ReceiptInv, ServerAnswer, UNCHANGED cliVars
    PROVE  ReceiptInv'
<1> USE DEF cliVars, connVars, dispVars
<1>0. TypeInv /\ UnackedInv /\ EventsInv /\ AcksInv
  BY DEF Inv, ReceiptInv
<1>1. PICK v \in Ws : v = srvWs /\ c2s[v] # <<>> /\ c2s' = [c2s EXCEPT ![v] = Tail(@)]
  BY <1>0, AnswerWrites
<1>2. UNCHANGED <<wsState, srvWs, sess, sessOf, srvSeq>> /\ unacked' \subseteq unacked
  BY <1>0, AnswerWrites
<1>3. PICK ms \in Seq(Msgs) : /\ s2c' = Written(s2c, srvWs, ms)
                              /\ Ops(ms) \subseteq {"ack", "subscribed", "unsubscribed"}
  BY <1>0, AnswerWrites
<1>4. /\ c2s[v] \in Seq(Msgs) /\ c2s'[v] = Tail(c2s[v])
      /\ \A w \in Ws : w # v => c2s'[w] = c2s[w]
  BY <1>0, <1>1 DEF TypeInv, TypeOK, NetTypeOK
<1>5. /\ \A w \in Ws : Elems(c2s'[w]) \subseteq Elems(c2s[w])
      /\ SrvHead \in Elems(c2s[v])
  BY <1>1, <1>4, ElemsTail DEF SrvHead
<1>6. \A id : Received(id)' <=> Received(id)
  BY DEF Received, histVars
<1>7. \A w \in Ws : Sorted(Coming(w), "event") =>
        Sorted(Coming(w)', "event") /\ Events(w)' = Events(w)
  <2>1. \A m \in Elems(ms) : m.op # "event"
    BY <1>3 DEF Ops
  <2>2. Sorted(ms, "event") /\ \A w \in Ws : Before(Coming(w), ms, "event")
    BY <2>1, SortedNone DEF Before
  <2>3. {m \in Elems(ms) : m.op = "event" /\ m.n # 0} = {}
    BY <2>1
  <2>4. SUFFICES ASSUME NEW w \in Ws, Sorted(Coming(w), "event")
                 PROVE  Sorted(Coming(w)', "event") /\ Events(w)' = Events(w)
    OBVIOUS
  <2>5. /\ Sorted(Coming(w)', "event")
        /\ Events(w)' = Events(w) \cup
             (IF w = srvWs /\ wsState[w] = "open"
              THEN {m \in Elems(ms) : m.op = "event" /\ m.n # 0} ELSE {})
    BY <1>0, <1>3, <2>2, <2>4, ReceiptWritten
  <2> QED  BY <2>3, <2>5
<1>8. UnackedInv'
  BY <1>0, <1>2, <1>6 DEF UnackedInv
<1>9. EventsInv'
  <2>1. SUFFICES ASSUME NEW w \in Ws, w = ws PROVE EventsAt(w)'
    BY DEF EventsInv
  <2>2. EventsAt(w)
    BY <1>0, <2>1 DEF EventsInv
  <2>3. Sorted(Coming(w)', "event") /\ Events(w)' = Events(w)
    BY <1>7, <2>2 DEF EventsAt
  <2>4. \A u : Comes(w, u)' <=> Comes(w, u)
    BY <2>3 DEF Comes
  <2> QED  BY <1>2, <1>6, <2>2, <2>3, <2>4 DEF EventsAt
<1>10. AcksInv'
  <2>1. \A w \in Ws : \A m \in Elems(c2s'[w]) : m.op = "ack" => Received(<<sessOf[w], m.n>>)'
    BY <1>0, <1>2, <1>5, <1>6 DEF AcksInv
  <2>2. \A id \in acked : Received(id)
    BY <1>0 DEF AcksInv, AckMeansReceipt, Received
  <2>3. CASE UNCHANGED acked
    BY <1>6, <2>1, <2>2, <2>3 DEF AcksInv, AckMeansReceipt, Received
  <2>4. CASE ServerAck
    <3>1. SrvHead.op = "ack"
      BY <2>4 DEF ServerAck, ServerReads, SrvHead
    <3>2. Received(<<sessOf[v], SrvHead.n>>)
      BY <1>0, <1>5, <3>1 DEF AcksInv
    <3>3. sess = sessOf[v]
      BY <1>1 DEF SessionInv, WireInv
    <3>4. acked' = acked \cup {<<sess, m.n>> : m \in unacked \ unacked'}
      BY <2>4 DEF ServerAck
    <3>5. \A m \in unacked \ unacked' : m.n = SrvHead.n
      BY <2>4 DEF ServerAck
    <3>6. \A id \in acked' : Received(id)
      BY <2>2, <3>2, <3>3, <3>4, <3>5
    <3> QED  BY <1>6, <2>1, <3>6 DEF AcksInv, AckMeansReceipt, Received
  <2> QED  BY <2>3, <2>4 DEF ServerAnswer, ServerPublish, ServerSubscribe,
    ServerUnsubscribe, ServerIgnore
<1> QED  BY <1>8, <1>9, <1>10 DEF ReceiptInv

LEMMA ReceiptPush ==
    ASSUME Inv, SessionInv, ReceiptInv, ServerPushes, UNCHANGED cliVars
    PROVE  ReceiptInv'
<1> USE DEF cliVars, connVars, dispVars
<1>0. TypeInv /\ UnackedInv /\ EventsInv /\ AcksInv /\ srvSeq \in Nat /\ lastSeqNum \in Nat
      /\ unacked \subseteq Msgs
  BY DEF Inv, ReceiptInv, TypeInv, TypeOK, SrvTypeOK, CliTypeOK, ConnTypeOK
<1>1. PICK m \in Msgs :
        /\ s2c' = Written(s2c, srvWs, <<m>>)
        /\ m.op \in {"event", "unsubscribed", "heartbeat", "error"}
        /\ \/ UNCHANGED <<srvSeq, unacked>> /\ m.n = 0
           \/ /\ m.op = "event" /\ m.n = srvSeq + 1
              /\ srvSeq' = srvSeq + 1
              /\ unacked' = unacked \cup {m}
  BY <1>0, PushWrites
<1>2. srvWs \in Ws /\ UNCHANGED <<wsState, c2s, srvWs, sess, sessOf, acked>>
  BY <1>0, PushWrites
<1>3. <<m>> \in Seq(Msgs) /\ Elems(<<m>>) = {m} /\ Sorted(<<m>>, "event")
  <2>1. <<m>> \in Seq(Msgs)
    OBVIOUS
  <2> QED  BY <2>1, ElemsShort, SortedOne
<1>4. \A id : Received(id)' <=> Received(id)
  BY DEF Received, histVars
<1>5. ASSUME NEW w \in Ws, w = ws
      PROVE  /\ Sorted(Coming(w)', "event")
             /\ Events(w)' = Events(w) \cup
                  (IF w = srvWs /\ wsState[w] = "open" /\ m.op = "event" /\ m.n # 0
                   THEN {m} ELSE {})
  <2>1. EventsAt(w)
    BY <1>0, <1>5 DEF EventsInv
  <2>2. Elems(Coming(w)) \subseteq Msgs
    BY <1>0, ComingType, ElemsType
  <2>3. srvWs = w => Before(Coming(w), <<m>>, "event")
    <3>1. SUFFICES ASSUME srvWs = w, NEW x \in Elems(Coming(w)), x.op = "event", x.n # 0,
                          m.n # 0
                   PROVE  x.n < m.n
      BY <1>3 DEF Before
    <3>2. x \in Events(w) /\ x.n \in Nat
      BY <2>2, <3>1 DEF Events, Msgs
    <3>3. x.n <= srvSeq
      BY <2>1, <3>1, <3>2 DEF EventsAt
    <3> QED  BY <1>0, <1>1, <3>1, <3>2, <3>3
  <2>4. /\ Sorted(Coming(w)', "event")
        /\ Events(w)' = Events(w) \cup
             (IF w = srvWs /\ wsState[w] = "open"
              THEN {x \in Elems(<<m>>) : x.op = "event" /\ x.n # 0} ELSE {})
    BY <1>0, <1>1, <1>3, <2>1, <2>3, ReceiptWritten DEF EventsAt
  <2>5. {x \in Elems(<<m>>) : x.op = "event" /\ x.n # 0}
          = IF m.op = "event" /\ m.n # 0 THEN {m} ELSE {}
    BY <1>3
  <2> QED  BY <2>4, <2>5
<1>6. UnackedInv'
  <2>1. CASE UNCHANGED <<srvSeq, unacked>>
    BY <1>0, <1>2, <1>4, <2>1 DEF UnackedInv
  <2>2. CASE m.n = srvSeq + 1 /\ srvSeq' = srvSeq + 1 /\ unacked' = unacked \cup {m}
    <3>1. \A u \in unacked' : u.n \in 1..srvSeq'
      BY <1>0, <2>2 DEF UnackedInv
    <3>2. sess = reconnectID => lastSeqNum <= srvSeq' /\ ~(m.n <= lastSeqNum)
      BY <1>0, <2>2 DEF UnackedInv
    <3>3. sess = reconnectID => \A u \in unacked' : u.n <= lastSeqNum => Received(<<sess, u.n>>)'
      BY <1>0, <1>2, <1>4, <2>2, <3>2 DEF UnackedInv
    <3> QED  BY <1>2, <3>1, <3>2, <3>3 DEF UnackedInv
  <2> QED  BY <1>1, <2>1, <2>2
<1>7. EventsInv'
  <2>1. SUFFICES ASSUME NEW w \in Ws, w = ws PROVE EventsAt(w)'
    BY DEF EventsInv
  <2>2. EventsAt(w) /\ Sorted(Coming(w)', "event")
    BY <1>0, <1>5, <2>1 DEF EventsInv
  <2>3. srvWs = w => sess = sessOf[w]
    BY <2>1 DEF SessionInv, WireInv
  <2>4. \A x \in Events(w) : x.n \in Nat
    BY <1>0, ComingType, ElemsType DEF Events, Msgs
  <2>5. CASE Events(w)' = Events(w) /\ (m.n = 0 \/ srvWs # w \/ wsState[w] # "open")
    <3>1. \A u : Comes(w, u)' <=> Comes(w, u)
      BY <2>5 DEF Comes
    <3>2. CASE UNCHANGED <<srvSeq, unacked>>
      BY <1>2, <1>4, <2>2, <2>5, <3>1, <3>2 DEF EventsAt
    <3>3. CASE m.n = srvSeq + 1 /\ srvSeq' = srvSeq + 1 /\ unacked' = unacked \cup {m}
      <4>1. srvWs = w => wsState[w] # "open" /\ \A x \in Events(w) : x.n <= m.n /\ x.n <= srvSeq'
        BY <1>0, <2>2, <2>4, <2>5, <3>3 DEF EventsAt
      <4> QED  BY <1>2, <1>4, <2>2, <2>5, <3>1, <3>3, <4>1 DEF EventsAt
    <3> QED  BY <1>1, <3>2, <3>3
  <2>6. CASE /\ Events(w)' = Events(w) \cup {m} /\ srvWs = w /\ m.n # 0 /\ wsState[w] = "open"
             /\ m.op = "event"
    <3>1. m.n = srvSeq + 1 /\ srvSeq' = srvSeq + 1 /\ unacked' = unacked \cup {m}
      BY <1>1, <2>6
    <3>2. sessOf[w] = reconnectID => ~(m.n <= lastSeqNum)
      BY <1>0, <2>3, <2>6, <3>1 DEF UnackedInv
    <3>3. sessOf[w] = reconnectID =>
            \A x \in Events(w)' : x.n <= lastSeqNum => Received(<<reconnectID, x.n>>)'
      BY <1>4, <2>2, <2>6, <3>2 DEF EventsAt
    <3>4. \A x \in Events(w)' : x.n <= srvSeq'
      BY <1>0, <2>2, <2>4, <2>6, <3>1 DEF EventsAt
    <3>5. Comes(w, m)' /\ \A u : Comes(w, u) => Comes(w, u)'
      BY <2>6 DEF Comes
    <3>6. \A u \in unacked' : Received(<<sess, u.n>>)' \/ Comes(w, u)'
      BY <1>2, <1>4, <2>2, <2>6, <3>1, <3>5 DEF EventsAt
    <3> QED  BY <1>2, <2>2, <3>3, <3>4, <3>6 DEF EventsAt
  <2> QED  BY <1>1, <1>5, <2>1, <2>5, <2>6
<1>8. AcksInv'
  BY <1>0, <1>2, <1>4 DEF AcksInv, AckMeansReceipt, Received, histVars
<1> QED  BY <1>6, <1>7, <1>8 DEF ReceiptInv

LEMMA InSeqOrderSorted ==
    ASSUME NEW S, NEW s \in InSeqOrder(S), NEW op
    PROVE  Sorted(s, op)
<1>1. /\ DOMAIN s = 1..Cardinality(S)
      /\ \A i, j \in 1..Cardinality(S) : i < j => s[i].n < s[j].n
  BY DEF InSeqOrder
<1> QED  BY <1>1 DEF Sorted

LEMMA ReceiptLogin ==
    ASSUME Inv, SessionInv, ReceiptInv, NEW v \in Ws, ServerLogin(v), UNCHANGED cliVars
    PROVE  ReceiptInv'
<1> USE DEF cliVars, connVars, dispVars
<1>0. /\ TypeInv /\ UnackedInv /\ EventsInv /\ AcksInv /\ unacked \subseteq Msgs
      /\ sess \in Nat /\ reconnectID \in Nat
      /\ c2s \in [Ws -> Seq(Msgs)] /\ s2c \in [Ws -> Seq(Msgs)] /\ sessOf \in [Ws -> Nat]
  BY DEF Inv, ReceiptInv, TypeInv, TypeOK, SrvTypeOK, NetTypeOK, CliTypeOK, ConnTypeOK
<1>1. /\ c2s[v] # <<>> /\ Head(c2s[v]).op = "login"
      /\ c2s' = [w \in Ws |-> IF w = v THEN Tail(c2s[w]) ELSE <<>>]
      /\ srvWs' = v /\ sessOf' = [sessOf EXCEPT ![v] = sess']
      /\ UNCHANGED <<wsState, acked>>
  BY <1>0, LoginWrites
<1>2. PICK ms \in Seq(Msgs), resume \in BOOLEAN :
        /\ s2c' = Written(s2c, v, <<Msg("welcome", sess', 0, resume)>> \o ms)
        /\ Elems(ms) = unacked' /\ ms \in InSeqOrder(unacked')
        /\ Msg("welcome", sess', 0, resume) \in Msgs
        /\ IF resume
           THEN UNCHANGED <<sess, srvSeq, unacked>>
           ELSE sess' = sess + 1 /\ srvSeq' = 0 /\ unacked' = {}
  BY <1>0, LoginWrites
<1>3. PICK hello \in Msgs : /\ hello = Msg("welcome", sess', 0, resume)
                            /\ hello.op = "welcome"
  BY <1>2 DEF Msg
<1>4. c2s[v] \in Seq(Msgs) /\ Head(c2s[v]) \in Elems(c2s[v]) /\ "login" \in Ops(c2s[v])
  <2>1. Head(c2s[v]) \in Elems(c2s[v])
    BY <1>0, <1>1, ElemsTail
  <2> QED  BY <1>0, <1>1, <2>1 DEF Ops
<1>5. s2c[v] = <<>> /\ ~NoLogins /\ \A w \in Ws : c2s'[w] = <<>>
  <2>1. Len(c2s[v]) = 1 /\ s2c[v] = <<>>
    BY <1>4 DEF SessionInv, WireInv
  <2>2. Tail(c2s[v]) = <<>>
    BY ONLY <1>4, <2>1, OneElem
  <2> QED  BY <1>1, <1>4, <2>1, <2>2 DEF NoLogins
<1>6. \A id : Received(id)' <=> Received(id)
  BY DEF Received, histVars
<1>7. sess' # sess => ~(sess' = reconnectID)
  BY <1>0, <1>2 DEF SessionInv, WireInv
<1>8. UnackedInv'
  <2>1. CASE resume
    BY <1>0, <1>2, <1>6, <2>1 DEF UnackedInv
  <2>2. CASE ~resume
    BY <1>0, <1>2, <1>7, <2>2 DEF UnackedInv
  <2> QED  BY <2>1, <2>2
<1>9. EventsInv'
  <2>1. SUFFICES ASSUME NEW w \in Ws, w = ws PROVE EventsAt(w)'
    BY DEF EventsInv
  <2>2. EventsAt(w)
    BY <1>0, <2>1 DEF EventsInv
  <2>3. <<hello>> \in Seq(Msgs) /\ Elems(<<hello>>) = {hello}
    <3>1. <<hello>> \in Seq(Msgs)
      OBVIOUS
    <3> QED  BY <3>1, ElemsShort
  <2>4. PICK all \in Seq(Msgs) : all = <<hello>> \o ms /\ Elems(all) = {hello} \cup unacked'
    BY <1>2, <2>3, ElemsConcat
  <2>5. Coming(w)' = IF w = v /\ wsState[w] = "open" THEN Coming(w) \o all ELSE Coming(w)
    <3>1. s2c' = Written(s2c, v, all)
      BY <1>2, <1>3, <2>4
    <3> QED  BY <1>0, <3>1, ComingServer
  <2>6. CASE w # v
    <3>1. Coming(w)' = Coming(w)
      BY <2>5, <2>6
    <3>2. Events(w)' = Events(w)
      BY <3>1 DEF Events
    <3>3. srvWs' # w /\ sessOf'[w] = sessOf[w]
      BY <1>0, <1>1, <2>6
    <3> QED  BY <1>6, <2>2, <3>1, <3>2, <3>3 DEF EventsAt
  <2>7. CASE w = v
    <3>1. Coming(w) = <<>>
      BY <1>5, <2>1, <2>7 DEF Coming, SessionInv, WelcomedInv
    <3>2. srvWs' = w /\ sessOf'[w] = sess'
      BY <1>0, <1>1, <2>7
    <3>3. CASE wsState[w] # "open"
      <4>1. Coming(w)' = <<>>
        BY <2>5, <3>1, <3>3
      <4>2. Events(w)' = {}
        BY <4>1, ElemsShort DEF Events
      <4>3. Sorted(Coming(w)', "event")
        BY <4>1, ElemsShort, SortedNone
      <4> QED  BY <1>1, <3>3, <4>2, <4>3 DEF EventsAt
    <3>4. CASE wsState[w] = "open"
      <4>1. Coming(w)' = all
        <5>1. <<>> \o all = all
          BY ONLY all \in Seq(Msgs)
        <5> QED  BY <2>5, <2>7, <3>1, <3>4, <5>1
      <4>2. Sorted(Coming(w)', "event")
        <5>1. Sorted(ms, "event")
          BY <1>2, InSeqOrderSorted
        <5>2. Sorted(<<hello>>, "event") /\ Before(<<hello>>, ms, "event")
          BY <1>3, <2>3, SortedOne DEF Before
        <5>3. Sorted(<<hello>> \o ms, "event")
          BY <2>3, <5>1, <5>2, SortedConcat
        <5> QED  BY <2>4, <4>1, <5>3
      <4>3. \A m \in unacked' : m.op = "event" /\ m.n # 0 /\ m.n <= srvSeq'
        <5>1. \A m \in unacked' : m.op = "event"
          BY <1>2 DEF SessionInv, WireInv
        <5>2. \A m \in unacked' : m.n \in 1..srvSeq'
          BY <1>8 DEF UnackedInv
        <5>3. srvSeq \in Nat
          BY <1>0 DEF TypeInv, TypeOK, SrvTypeOK
        <5> QED  BY <1>2, <5>1, <5>2, <5>3
      <4>4. Events(w)' = unacked'
        BY <1>3, <2>4, <4>1, <4>3 DEF Events
      <4>5. sessOf'[w] = reconnectID =>
              \A m \in Events(w)' : m.n <= lastSeqNum => Received(<<reconnectID, m.n>>)'
        <5>1. sess' = reconnectID =>
                \A m \in unacked' : m.n <= lastSeqNum => Received(<<sess, m.n>>)'
          BY <1>8 DEF UnackedInv
        <5>2. sess' = reconnectID =>
                \A m \in unacked' : m.n <= lastSeqNum => Received(<<reconnectID, m.n>>)'
          BY <5>1 DEF Received
        <5> QED  BY <3>2, <4>4, <5>2
      <4>6. \A u \in unacked' : Comes(w, u)'
        BY <4>4 DEF Comes
      <4>7. \A m \in Events(w)' : m.n <= srvSeq'
        BY <4>3, <4>4
      <4> QED  BY <4>2, <4>5, <4>6, <4>7 DEF EventsAt
    <3> QED  BY <3>3, <3>4
  <2> QED  BY <2>6, <2>7
<1>10. AcksInv'
  <2>1. \A w \in Ws : Elems(c2s'[w]) = {}
    BY <1>5, ElemsShort
  <2> QED  BY <1>0, <1>1, <1>6, <2>1 DEF AcksInv, AckMeansReceipt, Received, histVars
<1> QED  BY <1>8, <1>9, <1>10 DEF ReceiptInv

LEMMA ReceiptNext ==
    ASSUME Inv, ListenInv, SessionInv, ReceiptInv, [Next]_vars
    PROVE  ReceiptInv'
<1>0. TypeInv /\ c2s \in [Ws -> Seq(Msgs)] /\ wsState \in [Ws -> WsStates]
  BY DEF Inv, TypeInv, TypeOK, NetTypeOK
<1>1. CASE ClientNext
  BY <1>1, ReceiptThread, ReceiptQuiet, ReceiptHandle DEF ClientNext
<1>2. CASE EnvNext
  BY <1>2, ReceiptLogin, ReceiptAnswer, ReceiptPush DEF EnvNext, ServerReply, ServerAnswer
<1>3. ASSUME UNCHANGED <<cliVars, srvVars, s2c>>,
             \A w \in Ws : wsState'[w] = "open" => wsState[w] = "open",
             \A w \in Ws : Elems(c2s'[w]) \subseteq Elems(c2s[w])
      PROVE  ReceiptInv'
  <2>1. \A w \in Ws : Coming(w)' = Coming(w) /\ Events(w)' = Events(w)
    BY <1>3 DEF Coming, Events, cliVars, dispVars
  <2>2. \A w \in Ws : w = ws => Sorted(Coming(w)', "event")
    BY <2>1 DEF ReceiptInv, EventsInv, EventsAt
  <2>3. \A w \in Ws : w = ws =>
             /\ Sorted(Coming(w)', "event")
             /\ Events(w)' = Events(w) \/ (Events(w)' = {} /\ wsState'[w] # "open")
             /\ wsState'[w] = "open" => wsState[w] = "open"
    BY <1>3, <2>1, <2>2
  <2>4. UNCHANGED <<reconnectID, lastSeqNum, srvWs, sess, sessOf, srvSeq, unacked, acked,
                    histVars, ws>>
    BY <1>3 DEF cliVars, srvVars, connVars
  <2>5. \A w \in Ws : \A m \in Elems(c2s'[w]) : m.op = "ack" => m \in Elems(c2s[w])
    BY <1>3
  <2> QED  BY <2>3, <2>4, <2>5, ReceiptKeep
<1>4. CASE BreakNext
  <2>1. PICK v \in Ws : Break(v)
    BY <1>4 DEF BreakNext
  <2>2. \A w \in Ws : Elems(c2s'[w]) \subseteq Elems(c2s[w])
                        /\ (wsState'[w] = "open" => wsState[w] = "open")
    BY <1>0, <2>1, ElemsShort DEF Break
  <2>3. UNCHANGED <<cliVars, srvVars, s2c>>
    BY <1>4, <2>1 DEF BreakNext, Break
  <2> QED  BY <1>3, <2>2, <2>3
<1>5. CASE UNCHANGED vars
  BY <1>3, <1>5 DEF vars, netVars
<1> QED  BY <1>1, <1>2, <1>4, <1>5 DEF Next

\* What the server has an acknowledgement of, the application's MessageChan was
\* sent, or nobody wanted: an event is acknowledged after it is handled, and one
\* that is not above lastSeqNum, which the library acknowledges without handing
\* it on, was handed on before.
THEOREM ReceiptCorrect == DisconnectAlone => (Spec => []AckMeansReceipt)
<1> SUFFICES ASSUME DisconnectAlone PROVE Spec => []AckMeansReceipt
  OBVIOUS
<1>1. Init => ReceiptInv
  BY ReceiptInit
<1>2. Inv /\ ListenInv /\ SessionInv /\ ReceiptInv /\ [Next]_vars => ReceiptInv'
  BY ReceiptNext
<1>3. ReceiptInv => AckMeansReceipt
  BY DEF ReceiptInv, AcksInv
<1> QED  BY <1>1, <1>2, <1>3, SessionCorrect, PTL DEF Spec

-----------------------------------------------------------------------------
(* The publishes that are pending. *)

\* Without a connection nothing is pending, or it is about to be failed,
\* unless somebody disconnects.
ChargeInv ==
    NoDisconnect =>
        (pubs # {} => connected \/ \E k \in Dispatchers : dpc[k] = "errchan")

LEMMA ChargeThread ==
    ASSUME ListenInv, ChargeInv,
           NEW t \in Threads, CallStep(t) \/ DrainStep(t) \/ MethodStep(t)
    PROVE  ChargeInv'
<1> USE DEF connVars, dispVars
<1>1. CASE UNCHANGED <<pubs, connected, dpc>>
  BY <1>1 DEF ChargeInv
<1>2. CASE Publishing(t) \/ Welcome(t)
  <2>1. CASE Publishing(t)
    <3>1. connected /\ UNCHANGED connected
      BY <2>1 DEF Publishing, Register
    <3> QED  BY <3>1 DEF ChargeInv
  <2>2. CASE Welcome(t)
    BY <2>2 DEF Welcome, ChargeInv
  <2> QED  BY <1>2, <2>1, <2>2
<1>3. CASE Disconnect(t)
  <2>1. ~NoDisconnect
    BY <1>3 DEF Disconnect, ListenInv, CallersInv, NoDisconnect
  <2> QED  BY <2>1 DEF ChargeInv
<1>4. CASE Subscribes(t) \/ Unsubscribe(t) \/ UnsubscribeAll(t)
  BY <1>1, <1>4 DEF Subscribes, AddSubscription, Unsubscribe, UnsubscribeAll
<1>5. CASE Calm \/ Dial(t) \/ LoginFail(t)
  BY <1>1, <1>5 DEF Calm, Dial, LoginFail
<1> QED  BY <1>2, <1>3, <1>4, <1>5, ThreadCases

LEMMA ChargeDispatch ==
    ASSUME DispTypeOK, ChargeInv, NEW k \in Dispatchers, DispatchStep(k)
    PROVE  ChargeInv'
<1> USE DEF connVars
<1>1. \A l : Step(k, l) => \A j \in Dispatchers : dpc'[j] = IF j = k THEN l ELSE dpc[j]
  BY DEF Step, DispTypeOK
<1>2. CASE HandleDisconnect(k)
  BY <1>1, <1>2 DEF HandleDisconnect, ChargeInv
<1>3. CASE SendError(k)
  BY <1>3 DEF SendError, ChargeInv
<1>4. ASSUME UNCHANGED connected, pubs' \subseteq pubs,
             \A j \in Dispatchers : dpc[j] = "errchan" => dpc'[j] = "errchan"
      PROVE  ChargeInv'
  BY <1>4 DEF ChargeInv
<1>5. CASE HandleAck(k) \/ Complete(k)
  BY <1>1, <1>4, <1>5 DEF HandleAck, Handles, Complete
<1>6. CASE ReadTop(k) \/ ReadMsg(k) \/ ReadErr(k) \/ Lock(k) \/ Exit(k) \/ AckDone(k) \/ FailDone(k)
  BY <1>1, <1>4, <1>6 DEF ReadTop, ReadMsg, ReadErr, Lock, Exit, AckDone, FailDone, Unlock
<1>7. CASE HandleHeartbeat(k) \/ HandleMessage(k) \/ HandleSubscribed(k) \/ HandleUnsubscribed(k)
  BY <1>1, <1>4, <1>7 DEF HandleHeartbeat, HandleMessage, HandleSubscribed,
    HandleUnsubscribed, Handles, Unlock
<1> QED  BY <1>2, <1>3, <1>5, <1>6, <1>7 DEF DispatchStep

LEMMA ChargeNext ==
    ASSUME Inv, ListenInv, ChargeInv, [Next]_vars
    PROVE  ChargeInv'
<1>1. CASE ClientNext
  BY <1>1, ChargeThread, ChargeDispatch DEF ClientNext, Inv, TypeInv, TypeOK, CliTypeOK
<1>2. CASE EnvNext \/ BreakNext \/ UNCHANGED vars
  BY <1>2 DEF EnvNext, BreakNext, vars, cliVars, connVars, dispVars, ChargeInv
<1> QED  BY <1>1, <1>2 DEF Next

LEMMA ChargeInit == Init => ChargeInv
  BY DEF Init, CliInit, ChargeInv

\* No publish is lost or left alone: each is completed once, and as long as
\* nobody disconnects one that is pending has a dispatcher that completes it
\* when it is acknowledged, or fails it when the connection is lost.
THEOREM PublishesKeptCorrect == Spec => []PublishesKept
<1>1. Spec => []CompletedOnce
  BY CompletionCorrect, PTL
<1>2. Spec => []NotStranded
  <2>1. CASE NoDisconnect
    <3>1. DisconnectAlone
      BY <2>1 DEF DisconnectAlone, NoDisconnect
    <3>2. Init => ChargeInv
      BY ChargeInit
    <3>3. Inv /\ ListenInv /\ ChargeInv /\ [Next]_vars => ChargeInv'
      BY ChargeNext
    <3>4. Inv /\ ChargeInv => NotStranded
      BY DEF ChargeInv, NotStranded, InCharge, Inv, SocketInv, ConnectedHasDispatcher,
        Dispatchers
    <3>5. Spec => [](Inv /\ ListenInv)
      BY <3>1, ListenCorrect
    <3> QED  BY <3>2, <3>3, <3>4, <3>5, PTL DEF Spec
  <2>2. CASE ~NoDisconnect
    <3>1. NotStranded
      BY <2>2 DEF NotStranded
    <3> QED  BY <3>1, PTL
  <2> QED  BY <2>1, <2>2
<1>3. CompletedOnce /\ NotStranded => PublishesKept
  BY DEF PublishesKept
<1> QED  BY <1>1, <1>2, <1>3, PTL

-----------------------------------------------------------------------------
(* The outcomes of publishes. *)

(***************************************************************************)
(* What a true outcome needs of the application and of the server: every    *)
(* message can be encoded, and either nobody disconnects, so that a lost    *)
(* connection fails what is pending, or sessions are resumed, so that it is  *)
(* sent again.  (Run restart shows what happens otherwise.)                 *)
(***************************************************************************)
PublishesSurvive ==
    /\ "badmsg" \notin Faults
    /\ "noresume" \in Faults => NoDisconnect

\* What is pending can be sent.
PendingInv ==
    /\ \A n \in pubs : comp[n].enc
    /\ reconnectID = 0 => pubs = {}
    /\ ChargeInv

LEMMA PendingThread ==
    ASSUME PublishesSurvive, Inv, SessionInv, PendingInv, ChargeInv',
           NEW t \in Threads, CallStep(t) \/ DrainStep(t) \/ MethodStep(t)
    PROVE  PendingInv'
<1> USE DEF connVars, dispVars
<1>1. CASE UNCHANGED <<pubs, comp, connected, reconnectID, dpc>>
  BY <1>1 DEF PendingInv
<1>2. CASE Publishing(t)
  <2>1. PICK chan \in {"none", "own", "app"}, l \in {"idle", "pubwait"} : Register(t, chan, l)
    BY <1>2 DEF Publishing
  <2>2. /\ connected /\ UNCHANGED <<connected, reconnectID>>
        /\ pubs' = pubs \cup {pubSeqNum'} /\ pubSeqNum' = pubSeqNum + 1 /\ pubSeqNum < MaxPub
        /\ comp' = [comp EXCEPT ![pubSeqNum'] = Completion(chan, TRUE)]
    BY <2>1 DEF Register, PublishesSurvive
  <2>3. pubs \subseteq Pubs /\ pubSeqNum' \in Pubs
    BY <2>2, BoundsAssumption DEF Inv, TypeInv, TypeOK, CliTypeOK, ConnTypeOK, Pubs
  <2>4. \A n \in pubs' : comp'[n].enc
    BY <2>2, <2>3 DEF PendingInv, Completion, Inv, TypeInv, TypeOK, CliTypeOK, ChanTypeOK
  <2>5. reconnectID # 0
    BY <2>2 DEF SessionInv, WireInv
  <2> QED  BY <2>2, <2>4, <2>5 DEF PendingInv
<1>3. CASE Welcome(t)
  <2>1. connected' /\ UNCHANGED <<pubs, comp>>
    BY <1>3 DEF Welcome, chanVars
  <2>2. reconnectID' = 0 => reconnectID = 0
    BY <1>3, WelcomeSession DEF Inv, TypeInv, TypeOK, CliTypeOK, ConnTypeOK
  <2> QED  BY <2>1, <2>2 DEF PendingInv
<1>4. CASE Disconnect(t) /\ connected
  BY <1>4 DEF Disconnect, PendingInv, chanVars
<1>5. CASE Subscribes(t) \/ Unsubscribe(t) \/ UnsubscribeAll(t)
  BY <1>1, <1>5 DEF Subscribes, AddSubscription, Unsubscribe, UnsubscribeAll, chanVars
<1>6. CASE Calm \/ Dial(t) \/ LoginFail(t)
  BY <1>1, <1>6 DEF Calm, Dial, LoginFail, chanVars
<1> QED  BY <1>2, <1>3, <1>4, <1>5, <1>6, ThreadCases

LEMMA PendingDispatch ==
    ASSUME Inv, PendingInv, ChargeInv', NEW k \in Dispatchers, DispatchStep(k)
    PROVE  PendingInv'
<1> USE DEF connVars, chanVars
<1>0. DispTypeOK /\ comp \in [Pubs -> Completions] /\ pubs \subseteq Pubs
  BY DEF Inv, TypeInv, TypeOK, CliTypeOK, ConnTypeOK, ChanTypeOK
<1>4. ASSUME UNCHANGED reconnectID, pubs' \subseteq pubs,
             \A n \in pubs : comp'[n].enc = comp[n].enc
      PROVE  PendingInv'
  BY <1>4 DEF PendingInv
<1>5. CASE HandleAck(k) \/ HandleDisconnect(k) \/ SendError(k)
  BY <1>4, <1>5 DEF HandleAck, HandleDisconnect, SendError
<1>6. CASE Complete(k)
  <2>1. PICK n \in todo[k] : comp' = [comp EXCEPT ![n].sent = Append(@, Outcome(k))]
    BY <1>6 DEF Complete
  <2>2. \A p \in pubs : comp'[p].enc = comp[p].enc
    BY <1>0, <2>1 DEF Completions
  <2> QED  BY <1>4, <1>6, <2>2 DEF Complete
<1>7. CASE ReadTop(k) \/ ReadMsg(k) \/ ReadErr(k) \/ Lock(k) \/ Exit(k) \/ AckDone(k) \/ FailDone(k)
  BY <1>4, <1>7 DEF ReadTop, ReadMsg, ReadErr, Lock, Exit, AckDone, FailDone
<1>8. CASE HandleHeartbeat(k) \/ HandleMessage(k) \/ HandleSubscribed(k) \/ HandleUnsubscribed(k)
  BY <1>4, <1>8 DEF HandleHeartbeat, HandleMessage, HandleSubscribed, HandleUnsubscribed
<1> QED  BY <1>5, <1>6, <1>7, <1>8 DEF DispatchStep

LEMMA PendingNext ==
    ASSUME PublishesSurvive, Inv, ListenInv, SessionInv, PendingInv, [Next]_vars
    PROVE  PendingInv'
<1>0. ChargeInv'
  BY ChargeNext DEF PendingInv
<1>1. CASE ClientNext
  BY <1>0, <1>1, PendingThread, PendingDispatch DEF ClientNext
<1>2. CASE EnvNext \/ BreakNext \/ UNCHANGED vars
  BY <1>0, <1>2 DEF EnvNext, BreakNext, vars, cliVars, connVars, chanVars, PendingInv
<1> QED  BY <1>1, <1>2 DEF Next

\* A server that resumes sessions has the one the client knows, and the client
\* asks for it.
ResumeInv ==
    "noresume" \notin Faults =>
        /\ reconnectID # 0 => sess = reconnectID
        /\ \A w \in Ws : \A m \in Elems(c2s[w]) : m.op = "login" => m.n = reconnectID

LEMMA ResumeThread ==
    ASSUME Inv, ListenInv, SessionInv, SessionInv', ResumeInv, UNCHANGED srvVars,
           NEW t \in Threads, CallStep(t) \/ DrainStep(t) \/ MethodStep(t)
    PROVE  ResumeInv'
<1> USE DEF connVars, dispVars, netVars, srvVars
<1>0. TypeInv /\ c2s \in [Ws -> Seq(Msgs)]
  BY DEF Inv, TypeInv, TypeOK, NetTypeOK
<1>1. CASE Calm
  BY <1>1 DEF Calm, ResumeInv
<1>2. CASE Publishing(t) \/ Subscribes(t) \/ Unsubscribe(t) \/ UnsubscribeAll(t)
  <2>1. PICK ms : Writes(ms) /\ Ops(ms) \subseteq {"publish", "subscribe", "unsubscribe"}
    BY <1>0, <1>2, ThreadWrites
  <2>2. \A w \in Ws : Elems(c2s'[w]) \subseteq Elems(c2s[w]) \cup Elems(ms)
    BY <1>0, <2>1, WroteElems DEF Writes
  <2>3. \A w \in Ws : \A m \in Elems(c2s'[w]) : m.op = "login" => m \in Elems(c2s[w])
    BY <2>1, <2>2 DEF Ops
  <2> QED  BY <2>1, <2>3 DEF Writes, ResumeInv
<1>3. CASE Dial(t)
  <2>1. PICK v \in Ws : c2s' = [c2s EXCEPT ![v] = <<Msg("login", reconnectID, 0, TRUE)>>]
    BY <1>3 DEF Dial
  <2>2. \A m \in Elems(<<Msg("login", reconnectID, 0, TRUE)>>) : m.n = reconnectID
    BY ElemsShort DEF Msg
  <2>3. \A w \in Ws : \A m \in Elems(c2s'[w]) : m.n = reconnectID \/ m \in Elems(c2s[w])
    BY <1>0, <2>1, <2>2
  <2> QED  BY <1>3, <2>3 DEF Dial, ResumeInv
<1>4. CASE LoginFail(t)
  BY <1>4 DEF LoginFail, ResumeInv
<1>5. CASE Welcome(t)
  <2>1. ws \in Ws /\ ws' = ws /\ dpc'[ws] = "top"
    BY <1>5 DEF Welcome, Inv, TypeInv, HasSocket, TypeOK, CliTypeOK, DispTypeOK, Dispatchers
  <2>2. NoLogins' /\ sess' = reconnectID'
    BY <2>1 DEF SessionInv, WelcomedInv
  <2> QED  BY <2>2 DEF ResumeInv, NoLogins, Ops
<1>6. CASE Disconnect(t) /\ connected
  <2>1. PICK m \in Msgs : m = Msg("disconnect", 0, 0, TRUE)
    BY DEF Msg, Msgs, OpCodes
  <2>2. <<m>> \in Seq(Msgs)
    OBVIOUS
  <2>3. c2s' = Written(c2s, ws, <<m>>)
    BY <1>6, <2>1 DEF Disconnect
  <2>4. \A w \in Ws : Elems(c2s'[w]) \subseteq Elems(c2s[w]) \cup Elems(<<m>>)
    BY <1>0, <2>2, <2>3, WroteElems
  <2>5. \A w \in Ws : \A x \in Elems(c2s'[w]) : x.op = "login" => x \in Elems(c2s[w])
    BY <2>1, <2>4, ElemsShort DEF Msg
  <2> QED  BY <1>6, <2>5 DEF Disconnect, ResumeInv
<1> QED  BY <1>1, <1>2, <1>3, <1>4, <1>5, <1>6, ThreadCases

\* Whatever a dispatcher writes, it is not a login or a publish.
LEMMA DispatchWrites ==
    ASSUME TypeInv, NEW k \in Dispatchers, DispatchStep(k)
    PROVE  \E ms \in Seq(Msgs) : /\ c2s' = Written(c2s, ws, ms)
                                 /\ Ops(ms) \subseteq {"heartbeat", "ack"}
<1>0. cur[k] \in Msgs
  BY DEF TypeInv, TypeOK, CliTypeOK, DispTypeOK
<1>1. ASSUME NEW m \in Msgs, c2s' = Written(c2s, ws, <<m>>), m.op \in {"heartbeat", "ack"}
      PROVE  \E ms \in Seq(Msgs) : /\ c2s' = Written(c2s, ws, ms)
                                   /\ Ops(ms) \subseteq {"heartbeat", "ack"}
  <2>1. <<m>> \in Seq(Msgs)
    OBVIOUS
  <2>2. Ops(<<m>>) \subseteq {"heartbeat", "ack"}
    BY <1>1, ElemsShort DEF Ops
  <2> QED  BY <1>1, <2>1, <2>2
<1>2. CASE HandleHeartbeat(k)
  BY <1>0, <1>1, <1>2 DEF HandleHeartbeat, Handles
<1>3. CASE UNCHANGED c2s
  <2>1. c2s' = Written(c2s, ws, <<>>) /\ Ops(<<>>) = {} /\ <<>> \in Seq(Msgs)
    BY <1>3, NothingWritten, ElemsShort, EmptySeq DEF Ops
  <2> QED  BY <2>1
<1>4. CASE HandleMessage(k) /\ cur[k].n > 0
  <2>1. PICK m \in Msgs : m = Msg("ack", cur[k].n, 0, TRUE)
    BY <1>0 DEF Msg, Msgs, OpCodes
  <2>2. c2s' = Written(c2s, ws, <<m>>) /\ m.op = "ack"
    BY <1>4, <2>1 DEF HandleMessage, Msg
  <2> QED  BY <1>1, <2>2
<1> QED  BY <1>2, <1>3, <1>4 DEF DispatchStep, ReadTop, ReadMsg, ReadErr, Lock, HandleMessage,
    HandleSubscribed, HandleUnsubscribed, HandleAck, HandleDisconnect, SendError, Complete,
    AckDone, FailDone, Exit, netVars

LEMMA ResumeDispatch ==
    ASSUME Inv, ResumeInv, UNCHANGED srvVars, NEW k \in Dispatchers, DispatchStep(k)
    PROVE  ResumeInv'
<1>0. TypeInv
  BY DEF Inv
<1>1. UNCHANGED <<reconnectID, sess>>
  BY DEF DispatchStep, ReadTop, ReadMsg, ReadErr, Lock, HandleHeartbeat, HandleMessage,
    HandleSubscribed, HandleUnsubscribed, HandleAck, HandleDisconnect, SendError, Complete,
    AckDone, FailDone, Exit, connVars, srvVars
<1>2. PICK ms \in Seq(Msgs) : /\ c2s' = Written(c2s, ws, ms)
                              /\ Ops(ms) \subseteq {"heartbeat", "ack"}
  BY <1>0, DispatchWrites
<1>3. \A w \in Ws : Elems(c2s'[w]) \subseteq Elems(c2s[w]) \cup Elems(ms)
  BY <1>0, <1>2, WroteElems
<1>4. \A w \in Ws : \A m \in Elems(c2s'[w]) : m.op = "login" => m \in Elems(c2s[w])
  BY <1>2, <1>3 DEF Ops
<1> QED  BY <1>1, <1>4 DEF ResumeInv

LEMMA ResumeNext ==
    ASSUME Inv, ListenInv, SessionInv, ResumeInv, [Next]_vars
    PROVE  ResumeInv'
<1>0. TypeInv /\ c2s \in [Ws -> Seq(Msgs)]
  BY DEF Inv, TypeInv, TypeOK, NetTypeOK
<1>1. CASE ClientNext
  BY <1>1, SessionNext, ResumeThread, ResumeDispatch DEF ClientNext
<1>2. CASE EnvNext
  <2>1. UNCHANGED reconnectID /\ \A w \in Ws : Elems(c2s'[w]) \subseteq Elems(c2s[w])
    BY <1>0, <1>2, ServerConsumes DEF EnvNext, cliVars, connVars
  <2>2. "noresume" \notin Faults /\ reconnectID # 0 => UNCHANGED sess
    <3>1. SUFFICES ASSUME "noresume" \notin Faults, reconnectID # 0 PROVE UNCHANGED sess
      OBVIOUS
    <3>2. CASE \E w \in Ws : ServerLogin(w)
      <4>1. PICK w \in Ws : ServerLogin(w)
        BY <3>2
      <4>2. c2s[w] # <<>> /\ Head(c2s[w]).op = "login"
        BY <4>1 DEF ServerLogin
      <4>3. Head(c2s[w]) \in Elems(c2s[w])
        BY <1>0, <4>2, ElemsTail
      <4>4. Head(c2s[w]).n = sess /\ sess # 0
        BY <3>1, <4>2, <4>3 DEF ResumeInv
      <4> QED  BY <3>1, <4>1, <4>4 DEF ServerLogin
    <3>3. CASE ServerAnswer \/ ServerPushes
      BY <1>0, <3>3, AnswerWrites, PushWrites
    <3> QED  BY <1>2, <3>2, <3>3 DEF EnvNext, ServerReply, ServerAnswer
  <2> QED  BY <2>1, <2>2 DEF ResumeInv
<1>3. CASE BreakNext
  <2>1. PICK v \in Ws : Break(v)
    BY <1>3 DEF BreakNext
  <2>2. \A w \in Ws : Elems(c2s'[w]) \subseteq Elems(c2s[w])
    BY <1>0, <2>1, ElemsShort DEF Break
  <2> QED  BY <1>3, <2>2 DEF BreakNext, cliVars, connVars, srvVars, ResumeInv
<1>4. CASE UNCHANGED vars
  BY <1>4 DEF vars, cliVars, connVars, srvVars, netVars, ResumeInv
<1> QED  BY <1>1, <1>2, <1>3, <1>4 DEF Next

\* The publishes on their way to the server and the acknowledgements on their
\* way to the client, of connection w.
Publishes(w) == {m \in Elems(c2s[w]) : m.op = "publish"}
Acks(w) == {m \in Elems(Coming(w)) : m.op = "ack"}

\* The server accepted n, or the client will learn that it did not.
Answered(w, n) == n \in accepted \/ \E m \in Acks(w) : ~m.ok /\ n <= m.n

\* Publishes travel in order, and so do the acknowledgements, which are older;
\* a pending publish is on its way or answered; and an acknowledgement without
\* an error covers only what was accepted, or what an earlier one with an error
\* will complete.
StreamAt(w) ==
    /\ Sorted(c2s[w], "publish")
    /\ Sorted(Coming(w), "ack")
    /\ \A m \in Acks(w) : m.n \in 1..pubSeqNum
    /\ \A p \in Publishes(w) : p.n \in 1..pubSeqNum /\ \A m \in Acks(w) : m.n < p.n
    /\ (connected /\ wsState[w] = "open") =>
        \A n \in pubs : Answered(w, n) \/ \E q \in Publishes(w) : q.n = n
    /\ \A m \in Acks(w) : m.ok =>
        \A n \in pubs : n <= m.n =>
            n \in accepted \/ \E r \in Acks(w) : ~r.ok /\ n <= r.n /\ r.n < m.n

StreamInv == \A w \in Ws : w = ws => StreamAt(w)

\* No publish is made, read or acknowledged: connections close and what is on
\* them is lost.
LEMMA StreamKeep ==
    ASSUME StreamInv, UNCHANGED <<ws, pubSeqNum>>, pubs' \subseteq pubs,
           accepted \subseteq accepted',
           \A w \in Ws : w = ws =>
             /\ Sorted(c2s'[w], "publish")
             /\ Sorted(Coming(w)', "ack")
             /\ Publishes(w)' \subseteq Publishes(w)
             /\ Acks(w)' = Acks(w) \/ Acks(w)' = {}
             /\ (connected' /\ wsState'[w] = "open") =>
                    /\ connected /\ wsState[w] = "open"
                    /\ Publishes(w)' = Publishes(w) /\ Acks(w)' = Acks(w)
    PROVE  StreamInv'
<1> SUFFICES ASSUME NEW w \in Ws, w = ws PROVE StreamAt(w)'
  BY DEF StreamInv
<1>1. /\ StreamAt(w)
      /\ Sorted(c2s'[w], "publish")
      /\ Sorted(Coming(w)', "ack")
      /\ Publishes(w)' \subseteq Publishes(w)
      /\ Acks(w)' = Acks(w) \/ Acks(w)' = {}
      /\ (connected' /\ wsState'[w] = "open") =>
             /\ connected /\ wsState[w] = "open"
             /\ Publishes(w)' = Publishes(w) /\ Acks(w)' = Acks(w)
  BY DEF StreamInv
<1>2. /\ \A m \in Acks(w)' : m.n \in 1..pubSeqNum
      /\ \A p \in Publishes(w)' : p.n \in 1..pubSeqNum /\ \A m \in Acks(w)' : m.n < p.n
  BY <1>1 DEF StreamAt
<1>3. (connected' /\ wsState'[w] = "open") =>
        \A n \in pubs' : Answered(w, n)' \/ \E q \in Publishes(w)' : q.n = n
  <2>1. SUFFICES ASSUME connected', wsState'[w] = "open", NEW n \in pubs'
                 PROVE  Answered(w, n)' \/ \E q \in Publishes(w)' : q.n = n
    OBVIOUS
  <2>2. Answered(w, n) \/ \E q \in Publishes(w) : q.n = n
    BY <1>1, <2>1 DEF StreamAt
  <2>3. Answered(w, n) => Answered(w, n)'
    BY <1>1, <2>1 DEF Answered
  <2> QED  BY <1>1, <2>1, <2>2, <2>3
<1>4. \A m \in Acks(w)' : m.ok =>
        \A n \in pubs' : n <= m.n =>
            n \in accepted' \/ \E r \in Acks(w)' : ~r.ok /\ n <= r.n /\ r.n < m.n
  <2>1. CASE Acks(w)' = {}
    BY <2>1
  <2>2. CASE Acks(w)' = Acks(w)
    BY <1>1, <2>2 DEF StreamAt
  <2> QED  BY <1>1, <2>1, <2>2
<1> QED  BY <1>1, <1>2, <1>3, <1>4 DEF StreamAt

\* Whatever else the client writes leaves its publishes as they are.
LEMMA StreamSend ==
    ASSUME TypeInv, NEW ms \in Seq(Msgs), c2s' = Written(c2s, ws, ms),
           "publish" \notin Ops(ms), NEW w \in Ws, Sorted(c2s[w], "publish")
    PROVE  Sorted(c2s'[w], "publish") /\ Publishes(w)' = Publishes(w)
<1>1. c2s[w] \in Seq(Msgs)
  BY DEF TypeInv, TypeOK, NetTypeOK
<1>2. c2s'[w] = IF w = ws /\ wsState[w] = "open" THEN c2s[w] \o ms ELSE c2s[w]
  BY DEF Written, TypeInv, TypeOK, NetTypeOK
<1>3. \A m \in Elems(ms) : m.op # "publish"
  BY DEF Ops
<1>4. Sorted(c2s[w] \o ms, "publish")
  <2>1. Sorted(ms, "publish") /\ Before(c2s[w], ms, "publish")
    BY <1>3, SortedNone DEF Before
  <2> QED  BY <1>1, <2>1, SortedConcat
<1>5. Elems(c2s[w] \o ms) = Elems(c2s[w]) \cup Elems(ms)
  BY <1>1, ElemsConcat
<1>6. Elems(c2s'[w]) = Elems(c2s[w]) \/ Elems(c2s'[w]) = Elems(c2s[w]) \cup Elems(ms)
  BY <1>2, <1>5
<1>7. Publishes(w)' = Publishes(w)
  BY <1>3, <1>6 DEF Publishes
<1> QED  BY <1>2, <1>4, <1>7

LEMMA StreamPublish ==
    ASSUME PublishesSurvive, Inv, StreamInv, UNCHANGED srvVars,
           NEW t \in Threads, Publishing(t)
    PROVE  StreamInv'
<1>0. TypeInv /\ c2s \in [Ws -> Seq(Msgs)]
  BY DEF Inv, TypeInv, TypeOK, NetTypeOK
<1>1. PICK chan \in {"none", "own", "app"}, l \in {"idle", "pubwait"} : Register(t, chan, l)
  BY DEF Publishing
<1>2. pubSeqNum \in Nat /\ pubs \subseteq Nat
  BY BoundsAssumption DEF Inv, TypeInv, TypeOK, CliTypeOK, ConnTypeOK, Pubs
<1>3. PICK n \in Nat : n = pubSeqNum + 1
  BY <1>2
<1>4. PICK p \in Msgs : p = Msg("publish", n, 0, TRUE) /\ p.op = "publish" /\ p.n = n
  <2>1. Msg("publish", n, 0, TRUE) \in Msgs
    BY MsgType DEF OpCodes
  <2> QED  BY <2>1 DEF Msg
<1>5. /\ pubSeqNum' = n /\ pubs' = pubs \cup {n}
      /\ c2s' = Written(c2s, ws, <<p>>)
      /\ UNCHANGED <<connected, ws, dpc, cur, wsState, s2c>> /\ accepted' = accepted
  BY <1>1, <1>3, <1>4 DEF Register, PublishesSurvive, dispVars, srvVars
<1> SUFFICES ASSUME NEW w \in Ws, w = ws PROVE StreamAt(w)'
  BY <1>5 DEF StreamInv
<1>6. StreamAt(w)
  BY DEF StreamInv
<1>7. Coming(w)' = Coming(w) /\ Acks(w)' = Acks(w)
  BY <1>5 DEF Coming, Acks
<1>8. <<p>> \in Seq(Msgs) /\ Elems(<<p>>) = {p}
  <2>1. <<p>> \in Seq(Msgs)
    OBVIOUS
  <2> QED  BY <2>1, ElemsShort
<1>9. c2s[w] \in Seq(Msgs) /\ \A m \in Publishes(w) : m.n \in 1..pubSeqNum
  BY <1>0, <1>6 DEF StreamAt
<1>10. c2s'[w] = IF wsState[w] = "open" THEN c2s[w] \o <<p>> ELSE c2s[w]
  BY <1>0, <1>5, <1>8, WrittenToServer
<1>11. Sorted(c2s'[w], "publish")
  <2>1. Before(c2s[w], <<p>>, "publish")
    <3>1. \A m \in Elems(c2s[w]) : m.op = "publish" => m.n < n
      BY <1>2, <1>3, <1>9 DEF Publishes
    <3> QED  BY <1>4, <1>8, <3>1 DEF Before
  <2>2. Sorted(c2s[w] \o <<p>>, "publish")
    BY <1>6, <1>8, <1>9, <2>1, SortedConcat, SortedOne DEF StreamAt
  <2> QED  BY <1>6, <1>10, <2>2 DEF StreamAt
<1>12. Publishes(w)' = IF wsState[w] = "open" THEN Publishes(w) \cup {p} ELSE Publishes(w)
  <2>1. CASE wsState[w] = "open"
    <3>1. Elems(c2s'[w]) = Elems(c2s[w]) \cup {p}
      BY <1>8, <1>9, <1>10, <2>1, ElemsConcat
    <3> QED  BY <1>4, <2>1, <3>1 DEF Publishes
  <2>2. CASE wsState[w] # "open"
    BY <1>10, <2>2 DEF Publishes
  <2> QED  BY <2>1, <2>2
<1>13. \A m \in Acks(w) : m.n \in 1..pubSeqNum
  BY <1>6 DEF StreamAt
<1>14. /\ \A m \in Acks(w)' : m.n \in 1..pubSeqNum'
       /\ \A q \in Publishes(w)' : q.n \in 1..pubSeqNum' /\ \A m \in Acks(w)' : m.n < q.n
  <2>1. \A m \in Acks(w)' : m.n \in 1..n /\ m.n < n
    BY <1>2, <1>3, <1>7, <1>13
  <2>2. \A q \in Publishes(w) : q.n \in 1..n /\ \A m \in Acks(w)' : m.n < q.n
    BY <1>2, <1>3, <1>6, <1>7 DEF StreamAt
  <2>3. p.n \in 1..n
    <3>1. n \in 1..n
      BY <1>2, <1>3
    <3> QED  BY <1>4, <3>1
  <2> QED  BY <1>4, <1>5, <1>12, <2>1, <2>2, <2>3
<1>15. (connected' /\ wsState'[w] = "open") =>
         \A i \in pubs' : Answered(w, i)' \/ \E q \in Publishes(w)' : q.n = i
  <2>1. SUFFICES ASSUME connected, wsState[w] = "open", NEW i \in pubs'
                 PROVE  Answered(w, i)' \/ \E q \in Publishes(w)' : q.n = i
    BY <1>5
  <2>2. CASE i = n
    BY <1>4, <1>12, <2>1, <2>2
  <2>3. CASE i \in pubs
    <3>1. Answered(w, i) \/ \E q \in Publishes(w) : q.n = i
      BY <1>6, <2>1, <2>3 DEF StreamAt
    <3>2. Answered(w, i) => Answered(w, i)'
      BY <1>5, <1>7 DEF Answered
    <3> QED  BY <1>12, <2>1, <3>1, <3>2
  <2> QED  BY <1>5, <2>2, <2>3
<1>16. \A m \in Acks(w)' : m.ok =>
         \A i \in pubs' : i <= m.n =>
            i \in accepted' \/ \E r \in Acks(w)' : ~r.ok /\ i <= r.n /\ r.n < m.n
  <2>1. \A m \in Acks(w) : ~(n <= m.n)
    BY <1>2, <1>3, <1>13
  <2> QED  BY <1>5, <1>6, <1>7, <2>1 DEF StreamAt
<1> QED  BY <1>6, <1>7, <1>11, <1>14, <1>15, <1>16 DEF StreamAt

LEMMA AscendingSorted ==
    ASSUME NEW S, NEW q \in Ascending(S), NEW op
    PROVE  Sorted(PubMsgs(q), op)
<1>1. /\ DOMAIN PubMsgs(q) = 1..Cardinality(S)
      /\ \A i \in 1..Cardinality(S) : PubMsgs(q)[i].n = q[i]
      /\ \A i, j \in 1..Cardinality(S) : i < j => q[i] < q[j]
  BY DEF Ascending, PubMsgs, Msg
<1> QED  BY <1>1 DEF Sorted

\* A new connection begins with what is pending, in order; or nothing is.
LEMMA StreamWelcome ==
    ASSUME PublishesSurvive, Inv, SessionInv, PendingInv, ResumeInv, StreamInv,
           UNCHANGED srvVars, NEW t \in Threads, Welcome(t)
    PROVE  StreamInv'
<1>0. TypeInv /\ c2s \in [Ws -> Seq(Msgs)] /\ s2c \in [Ws -> Seq(Msgs)]
  BY DEF Inv, TypeInv, TypeOK, NetTypeOK
<1>1. mu = t /\ dpc[ws] = "none" /\ ws \in Ws /\ ~connected
  BY DEF Welcome, Inv, LockDiscipline, SocketInv, TypeInv, HasSocket
<1>2. /\ s2c[ws] # <<>> /\ Head(s2c[ws]).op = "welcome"
      /\ s2c'[ws] = Tail(s2c[ws]) /\ dpc'[ws] = "top"
      /\ UNCHANGED <<ws, wsState, pubs, pubSeqNum>> /\ accepted' = accepted
  BY <1>0, <1>1 DEF Welcome, TypeInv, TypeOK, CliTypeOK, DispTypeOK, Dispatchers, srvVars
<1> SUFFICES ASSUME NEW w \in Ws, w = ws PROVE StreamAt(w)'
  BY <1>2 DEF StreamInv
<1>3. NoLogins /\ reconnectID' = sess
  BY WelcomeSession
<1>4. /\ \A m \in Elems(c2s[w]) : m.op = "login"
      /\ "ack" \notin Ops(s2c[w])
      /\ \A m \in Elems(s2c[w]) : m.op = "welcome" =>
            m.n = sess /\ (IF m.ok THEN m.n = reconnectID ELSE m.n > reconnectID)
  BY <1>1 DEF SessionInv, LoginInv
<1>5. Elems(c2s[w]) = {}
  BY <1>3, <1>4 DEF NoLogins, Ops
<1>6. Coming(w)' = Tail(s2c[w]) /\ Acks(w)' = {} /\ Sorted(Coming(w)', "ack")
  <2>1. Coming(w)' = Tail(s2c[w])
    BY <1>2 DEF Coming
  <2>2. Elems(s2c[w]) = {Head(s2c[w])} \cup Elems(Tail(s2c[w]))
    BY <1>0, <1>2, ElemsTail
  <2>3. \A m \in Elems(Coming(w)') : m.op # "ack"
    BY <1>4, <2>1, <2>2 DEF Ops
  <2> QED  BY <2>1, <2>3, SortedNone DEF Acks
<1>7. PICK ms \in Seq(Msgs), again \in Seq(Msgs) :
         /\ c2s' = Written(c2s, ws, ms \o again)
         /\ Elems(ms) = {Msg("subscribe", 0, i, TRUE) : i \in subs}
         /\ Elems(again) = {Msg("publish", n, 0, TRUE) :
                              n \in IF Head(s2c[ws]).ok THEN Resendable ELSE {}}
         /\ \E S \in SUBSET Resendable : \E q \in Ascending(S) : again = PubMsgs(q)
  BY <1>0, WelcomeWrites
<1>8. Resendable = pubs
  BY DEF Resendable, PendingInv
<1>9. ~Head(s2c[ws]).ok => pubs = {}
  <2>1. SUFFICES ASSUME ~Head(s2c[ws]).ok, pubs # {} PROVE FALSE
    OBVIOUS
  <2>2. Head(s2c[w]) \in Elems(s2c[w])
    BY <1>0, <1>2, ElemsTail
  <2>3. sess > reconnectID /\ reconnectID \in Nat
    BY <1>0, <1>2, <1>4, <2>1, <2>2 DEF TypeInv, TypeOK, CliTypeOK, ConnTypeOK
  <2>4. reconnectID # 0
    BY <2>1 DEF PendingInv, ChargeInv
  <2>5. "noresume" \in Faults
    BY <2>3, <2>4 DEF ResumeInv
  <2>6. \E k \in Dispatchers : dpc[k] = "errchan"
    BY <1>1, <2>1, <2>5 DEF PendingInv, ChargeInv, PublishesSurvive
  <2> QED  BY <1>1, <2>6, ThreadsAssumption, MaxConnAssumption
      DEF Inv, LockDiscipline, Holding, Dispatchers, Ws
<1>10. Elems(again) = {Msg("publish", n, 0, TRUE) : n \in pubs}
  BY <1>7, <1>8, <1>9
<1>11. PICK all \in Seq(Msgs) : /\ all = ms \o again
                                /\ Elems(all) = Elems(ms) \cup Elems(again)
                                /\ Sorted(all, "publish")
  <2>1. \A m \in Elems(ms) : m.op # "publish"
    BY <1>7 DEF Msg
  <2>2. Sorted(ms, "publish") /\ Before(ms, again, "publish")
    BY <2>1, SortedNone DEF Before
  <2>3. Sorted(again, "publish")
    BY <1>7, AscendingSorted
  <2>4. Sorted(ms \o again, "publish")
    BY <2>2, <2>3, SortedConcat
  <2> QED  BY <2>4, ElemsConcat
<1>12. c2s'[w] = IF wsState[w] = "open" THEN c2s[w] \o all ELSE c2s[w]
  BY <1>0, <1>7, <1>11, WrittenToServer
<1>13. Sorted(c2s[w], "publish") /\ Sorted(c2s[w] \o all, "publish")
  <2>1. c2s[w] \in Seq(Msgs)
    BY <1>0
  <2>2. Sorted(c2s[w], "publish") /\ Before(c2s[w], all, "publish")
    BY <1>5, SortedNone DEF Before
  <2> QED  BY <1>11, <2>1, <2>2, SortedConcat
<1>14. /\ \A p \in Publishes(w)' : p.n \in pubs
       /\ wsState[w] = "open" => \A n \in pubs : \E q \in Publishes(w)' : q.n = n
  <2>1. /\ \A m \in Elems(ms) : m.op # "publish"
        /\ \A m \in Elems(again) : m.op = "publish" /\ m.n \in pubs
    BY <1>7, <1>10 DEF Msg
  <2>2. /\ \A p \in Elems(all) : p.op = "publish" => p.n \in pubs
        /\ \A n \in pubs : \E q \in Elems(all) : q.op = "publish" /\ q.n = n
    <3>1. \A n \in pubs : Msg("publish", n, 0, TRUE) \in Elems(all)
      BY <1>10, <1>11
    <3>2. \A n \in pubs : Msg("publish", n, 0, TRUE).op = "publish"
                            /\ Msg("publish", n, 0, TRUE).n = n
      BY DEF Msg
    <3> QED  BY <1>11, <2>1, <3>1, <3>2
  <2>3. Elems(c2s[w] \o all) = Elems(all)
    <3>1. c2s[w] \in Seq(Msgs)
      BY <1>0
    <3>2. Elems(c2s[w] \o all) = Elems(c2s[w]) \cup Elems(all)
      BY <3>1, ElemsConcat
    <3> QED  BY <1>5, <3>2
  <2>4. CASE wsState[w] = "open"
    BY <1>12, <2>2, <2>3, <2>4 DEF Publishes
  <2>5. CASE wsState[w] # "open"
    BY <1>5, <1>12, <2>5 DEF Publishes
  <2> QED  BY <2>4, <2>5
<1>15. \A n \in pubs : n \in 1..pubSeqNum
  BY BoundsAssumption DEF Inv, TypeInv, TypeOK, CliTypeOK, ConnTypeOK, CompletionInv, Pubs
<1> QED  BY <1>2, <1>6, <1>12, <1>13, <1>14, <1>15 DEF StreamAt

\* A goroutine dials: nothing travels on the new connection yet.
LEMMA StreamDial ==
    ASSUME Inv, SessionInv, NEW t \in Threads, Dial(t)
    PROVE  StreamInv'
<1>0. c2s \in [Ws -> Seq(Msgs)]
  BY DEF Inv, TypeInv, TypeOK, NetTypeOK
<1>1. PICK v \in Ws : /\ wsState[v] = "unused" /\ ws' = v
                      /\ c2s' = [c2s EXCEPT ![v] = <<Msg("login", reconnectID, 0, TRUE)>>]
  BY DEF Dial
<1>2. s2c[v] = <<>> /\ dpc[v] = "none"
  BY <1>1 DEF SessionInv, WireInv, Inv, SocketInv
<1>3. UNCHANGED <<dpc, cur, s2c>> /\ ~connected'
  BY DEF Dial, dispVars
<1>4. Coming(v)' = <<>> /\ Acks(v)' = {}
  BY <1>2, <1>3, ElemsShort DEF Coming, Acks
<1>5. /\ c2s'[v] = <<Msg("login", reconnectID, 0, TRUE)>>
      /\ \A m \in Elems(c2s'[v]) : m.op # "publish"
  <2>1. c2s'[v] = <<Msg("login", reconnectID, 0, TRUE)>>
    BY <1>0, <1>1
  <2> QED  BY <2>1, ElemsShort DEF Msg
<1>6. Publishes(v)' = {}
  BY <1>5 DEF Publishes
<1>7. Sorted(c2s'[v], "publish") /\ Sorted(Coming(v)', "ack")
  BY <1>4, <1>5, ElemsShort, SortedNone
<1>8. StreamAt(v)'
  BY <1>3, <1>4, <1>6, <1>7 DEF StreamAt
<1> QED  BY <1>1, <1>8 DEF StreamInv

LEMMA StreamThread ==
    ASSUME PublishesSurvive, Inv, ListenInv, SessionInv, PendingInv, ResumeInv, StreamInv,
           UNCHANGED srvVars, NEW t \in Threads, CallStep(t) \/ DrainStep(t) \/ MethodStep(t)
    PROVE  StreamInv'
<1> USE DEF connVars, dispVars, netVars, srvVars
<1>0. TypeInv
  BY DEF Inv
<1>k. ASSUME UNCHANGED <<ws, pubs, pubSeqNum, dpc, cur, s2c>>, connected' => connected,
             \A w \in Ws : wsState'[w] = "open" => wsState[w] = "open",
             NEW ms \in Seq(Msgs), c2s' = Written(c2s, ws, ms), "publish" \notin Ops(ms)
      PROVE  StreamInv'
  <2>1. ASSUME NEW w \in Ws, w = ws
        PROVE  /\ Sorted(c2s'[w], "publish")
               /\ Sorted(Coming(w)', "ack")
               /\ Publishes(w)' \subseteq Publishes(w)
               /\ Acks(w)' = Acks(w) \/ Acks(w)' = {}
               /\ (connected' /\ wsState'[w] = "open") =>
                      /\ connected /\ wsState[w] = "open"
                      /\ Publishes(w)' = Publishes(w) /\ Acks(w)' = Acks(w)
    <3>1. Coming(w)' = Coming(w) /\ Acks(w)' = Acks(w)
      BY <1>k DEF Coming, Acks
    <3>2. Sorted(c2s[w], "publish") /\ Sorted(Coming(w), "ack")
      BY <2>1 DEF StreamInv, StreamAt
    <3>3. Sorted(c2s'[w], "publish") /\ Publishes(w)' = Publishes(w)
      BY <1>0, <1>k, <3>2, StreamSend
    <3> QED  BY <1>k, <3>1, <3>2, <3>3
  <2> QED  BY <1>k, <2>1, StreamKeep
<1>e. <<>> \in Seq(Msgs) /\ c2s = Written(c2s, ws, <<>>) /\ "publish" \notin Ops(<<>>)
  BY <1>0, NothingWritten, EmptySeq, ElemsShort DEF Ops
<1>1. CASE Calm
  BY <1>1, <1>e, <1>k DEF Calm
<1>2. CASE Publishing(t)
  BY <1>2, StreamPublish
<1>3. CASE Subscribes(t) \/ Unsubscribe(t) \/ UnsubscribeAll(t)
  <2>1. PICK ms : Writes(ms) /\ "publish" \notin Ops(ms)
    BY <1>0, <1>3, SubscribesWrites, UnsubscribeWrites, UnsubscribeAllWrites DEF Ops, Msg
  <2>2. UNCHANGED <<pubs, pubSeqNum>>
    BY <1>3 DEF Subscribes, AddSubscription, Unsubscribe, UnsubscribeAll
  <2> QED  BY <1>k, <2>1, <2>2 DEF Writes
<1>4. CASE Dial(t)
  BY <1>4, StreamDial
<1>5. CASE LoginFail(t)
  <2>1. \A w \in Ws : wsState'[w] = "open" => wsState[w] = "open"
    BY <1>0, <1>5 DEF LoginFail, TypeInv, TypeOK, NetTypeOK
  <2> QED  BY <1>5, <1>e, <1>k, <2>1 DEF LoginFail
<1>6. CASE Welcome(t)
  BY <1>6, StreamWelcome
<1>7. CASE Disconnect(t) /\ connected
  <2>1. \A w \in Ws : wsState'[w] = "open" => wsState[w] = "open"
    BY <1>0, <1>7 DEF Disconnect, TypeInv, TypeOK, NetTypeOK
  <2>2. PICK m \in Msgs : m = Msg("disconnect", 0, 0, TRUE)
    BY DEF Msg, Msgs, OpCodes
  <2>3. <<m>> \in Seq(Msgs)
    OBVIOUS
  <2>4. "publish" \notin Ops(<<m>>)
    BY <2>2, ElemsShort DEF Ops, Msg
  <2>5. c2s' = Written(c2s, ws, <<m>>)
    BY <1>7, <2>2 DEF Disconnect
  <2> QED  BY <1>7, <1>k, <2>1, <2>3, <2>4, <2>5 DEF Disconnect
<1> QED  BY <1>1, <1>2, <1>3, <1>4, <1>5, <1>6, <1>7, ThreadCases

\* The dispatcher does anything but handle an acknowledgement.
LEMMA StreamQuiet ==
    ASSUME Inv, ListenInv, SessionInv, StreamInv, UNCHANGED srvVars,
           NEW k \in Dispatchers, DispatchStep(k), ~HandleAck(k)
    PROVE  StreamInv'
<1> USE DEF connVars, netVars, srvVars
<1>0. /\ TypeInv /\ UNCHANGED <<ws, pubSeqNum, accepted>> /\ pubs' \subseteq pubs
      /\ connected' => connected
  BY DEF Inv, DispatchStep, ReadTop, ReadMsg, ReadErr, Lock,
    HandleHeartbeat, HandleMessage, HandleSubscribed, HandleUnsubscribed,
    HandleDisconnect, SendError, Complete, AckDone, FailDone, Exit
<1>1. \A w \in Ws : wsState'[w] = "open" => wsState[w] = "open"
  BY <1>0 DEF DispatchStep, ReadTop, ReadMsg, ReadErr, Lock,
    HandleHeartbeat, HandleMessage, HandleSubscribed, HandleUnsubscribed,
    HandleDisconnect, SendError, Complete, AckDone, FailDone, Exit, TypeInv, TypeOK, NetTypeOK
<1>2. PICK ms \in Seq(Msgs) : c2s' = Written(c2s, ws, ms) /\ Ops(ms) \subseteq {"heartbeat", "ack"}
  BY <1>0, DispatchWrites
<1>3. Finishes(k) => cur[k].op # "ack"
  BY DEF Finishes, HandleHeartbeat, HandleMessage, HandleSubscribed, HandleUnsubscribed, Handles
<1>4. ASSUME NEW w \in Ws, w = ws
      PROVE  /\ Sorted(c2s'[w], "publish")
             /\ Sorted(Coming(w)', "ack")
             /\ Publishes(w)' \subseteq Publishes(w)
             /\ Acks(w)' = Acks(w) \/ Acks(w)' = {}
             /\ (connected' /\ wsState'[w] = "open") =>
                    /\ connected /\ wsState[w] = "open"
                    /\ Publishes(w)' = Publishes(w) /\ Acks(w)' = Acks(w)
  <2>1. Sorted(c2s[w], "publish") /\ Sorted(Coming(w), "ack") /\ Coming(w) \in Seq(Msgs)
    BY <1>0, <1>4, ComingType DEF StreamInv, StreamAt
  <2>2. Sorted(c2s'[w], "publish") /\ Publishes(w)' = Publishes(w)
    BY <1>0, <1>2, <2>1, StreamSend
  <2>3. CASE Coming(w)' = Coming(w)
    BY <1>0, <1>1, <2>1, <2>2, <2>3 DEF Acks
  <2>4. CASE Coming(w) # <<>> /\ Coming(w)' = Tail(Coming(w)) /\ Head(Coming(w)).op # "ack"
    <3>1. Elems(Coming(w)) = {Head(Coming(w))} \cup Elems(Coming(w)')
      BY <2>1, <2>4, ElemsTail
    <3>2. Acks(w)' = Acks(w)
      BY <2>4, <3>1 DEF Acks
    <3>3. Sorted(Coming(w)', "ack")
      BY <2>1, <2>4, SortedTail
    <3> QED  BY <1>0, <1>1, <2>2, <3>2, <3>3
  <2>5. CASE Coming(w)' = <<>> /\ wsState[w] # "open"
    <3>1. Acks(w)' = {} /\ Sorted(Coming(w)', "ack") /\ wsState'[w] # "open"
      BY <1>1, <2>5, ElemsShort, SortedNone DEF Acks
    <3> QED  BY <2>2, <3>1
  <2> QED  BY <1>3, <1>4, <2>3, <2>4, <2>5, ComingDispatch DEF Handled
<1> QED  BY <1>0, <1>4, StreamKeep

\* The dispatcher handles an acknowledgement: what it covers is not pending.
LEMMA StreamAck ==
    ASSUME Inv, ListenInv, SessionInv, StreamInv, UNCHANGED srvVars,
           NEW k \in Dispatchers, DispatchStep(k), HandleAck(k)
    PROVE  StreamInv'
<1>0. TypeInv
  BY DEF Inv
<1>1. PICK w \in Ws : w = k /\ w = ws
  BY HandledSession DEF HandleAck, Handles, Dispatchers
<1>2. PICK h \in Msgs : h = cur[k] /\ h.op = "ack"
  BY <1>0 DEF HandleAck, Handles, TypeInv, TypeOK, CliTypeOK, DispTypeOK
<1>3. /\ pubs' = {n \in pubs : n > h.n}
      /\ UNCHANGED <<ws, pubSeqNum, connected, wsState, c2s, accepted>>
  BY <1>2 DEF HandleAck, netVars, srvVars
<1>4. pubs \subseteq Nat /\ h.n \in Nat
  BY <1>0 DEF TypeInv, TypeOK, CliTypeOK, ConnTypeOK, Pubs, Msgs
<1>5. Coming(w) # <<>> /\ Coming(w)' = Tail(Coming(w)) /\ Head(Coming(w)) = h
  BY <1>1, <1>2, ComingDispatch DEF Finishes, HandleAck, Handles, ReadErr
<1>6. Coming(w) \in Seq(Msgs) /\ StreamAt(w)
  BY <1>0, <1>1, ComingType DEF StreamInv
<1>7. Elems(Coming(w)) = {h} \cup Elems(Coming(w)')
  BY <1>5, <1>6, ElemsTail
<1>8. Acks(w) = {h} \cup Acks(w)'
  BY <1>2, <1>7 DEF Acks
<1>9. Sorted(Coming(w)', "ack")
  BY <1>5, <1>6, SortedTail DEF StreamAt
<1>10. Publishes(w)' = Publishes(w) /\ Sorted(c2s'[w], "publish")
  BY <1>3, <1>6 DEF Publishes, StreamAt
<1>11. \A n \in pubs' : n \in pubs /\ ~(n <= h.n)
  BY <1>3, <1>4
<1>12. /\ \A m \in Acks(w)' : m.n \in 1..pubSeqNum'
       /\ \A p \in Publishes(w)' : p.n \in 1..pubSeqNum' /\ \A m \in Acks(w)' : m.n < p.n
  BY <1>3, <1>6, <1>8, <1>10 DEF StreamAt
<1>13. (connected' /\ wsState'[w] = "open") =>
         \A n \in pubs' : Answered(w, n)' \/ \E q \in Publishes(w)' : q.n = n
  <2>1. SUFFICES ASSUME connected, wsState[w] = "open", NEW n \in pubs'
                 PROVE  Answered(w, n)' \/ \E q \in Publishes(w)' : q.n = n
    BY <1>3
  <2>2. Answered(w, n) \/ \E q \in Publishes(w) : q.n = n
    BY <1>6, <1>11, <2>1 DEF StreamAt
  <2>3. Answered(w, n) => Answered(w, n)'
    BY <1>3, <1>8, <1>11 DEF Answered
  <2> QED  BY <1>10, <2>2, <2>3
<1>14. \A m \in Acks(w)' : m.ok =>
         \A n \in pubs' : n <= m.n =>
            n \in accepted' \/ \E r \in Acks(w)' : ~r.ok /\ n <= r.n /\ r.n < m.n
  BY <1>3, <1>6, <1>8, <1>11 DEF StreamAt
<1>15. StreamAt(w)'
  BY <1>9, <1>10, <1>12, <1>13, <1>14 DEF StreamAt
<1> QED  BY <1>1, <1>3, <1>15 DEF StreamInv

\* What the server writes, if it is not an acknowledgement.
LEMMA StreamReply ==
    ASSUME TypeInv, NEW ms \in Seq(Msgs), NEW v, s2c' = Written(s2c, v, ms),
           "ack" \notin Ops(ms), UNCHANGED <<dpc, cur>>,
           NEW w \in Ws, Sorted(Coming(w), "ack")
    PROVE  Sorted(Coming(w)', "ack") /\ Acks(w)' = Acks(w)
<1>1. Coming(w) \in Seq(Msgs)
  BY ComingType
<1>2. Coming(w)' = IF w = v /\ wsState[w] = "open" THEN Coming(w) \o ms ELSE Coming(w)
  BY ComingServer
<1>3. \A m \in Elems(ms) : m.op # "ack"
  BY DEF Ops
<1>4. Sorted(Coming(w) \o ms, "ack")
  <2>1. Sorted(ms, "ack") /\ Before(Coming(w), ms, "ack")
    BY <1>3, SortedNone DEF Before
  <2> QED  BY <1>1, <2>1, SortedConcat
<1>5. Elems(Coming(w) \o ms) = Elems(Coming(w)) \cup Elems(ms)
  BY <1>1, ElemsConcat
<1>6. Elems(Coming(w)') = Elems(Coming(w)) \/ Elems(Coming(w)') = Elems(Coming(w)) \cup Elems(ms)
  BY <1>2, <1>5
<1>7. Acks(w)' = Acks(w)
  BY <1>3, <1>6 DEF Acks
<1> QED  BY <1>2, <1>4, <1>7

\* The server reads something else than a publish.
LEMMA StreamRead ==
    ASSUME TypeInv, NEW v \in Ws, c2s[v] # <<>>, Head(c2s[v]).op # "publish",
           c2s' = [c2s EXCEPT ![v] = Tail(@)], NEW w \in Ws, Sorted(c2s[w], "publish")
    PROVE  Sorted(c2s'[w], "publish") /\ Publishes(w)' = Publishes(w)
<1>1. c2s[w] \in Seq(Msgs) /\ c2s'[w] = IF w = v THEN Tail(c2s[w]) ELSE c2s[w]
  BY DEF TypeInv, TypeOK, NetTypeOK
<1>2. CASE w = v
  <2>1. Elems(c2s[w]) = {Head(c2s[w])} \cup Elems(Tail(c2s[w]))
    BY <1>1, <1>2, ElemsTail
  <2>2. Publishes(w)' = Publishes(w)
    BY <1>1, <1>2, <2>1 DEF Publishes
  <2> QED  BY <1>1, <1>2, <2>2, SortedTail
<1>3. CASE w # v
  BY <1>1, <1>3 DEF Publishes
<1> QED  BY <1>2, <1>3

\* The server reads a publish of a connection that is open, and answers it.
LEMMA StreamAnswered ==
    ASSUME Inv, SessionInv, StreamInv, ServerPublish, UNCHANGED cliVars,
           NEW w \in Ws, w = ws, srvWs = w, wsState[w] = "open"
    PROVE  StreamAt(w)'
<1> USE DEF cliVars, connVars, dispVars
<1>0. TypeInv /\ c2s[w] \in Seq(Msgs) /\ Coming(w) \in Seq(Msgs) /\ pubs \subseteq Nat
  BY ComingType DEF Inv, TypeInv, TypeOK, NetTypeOK, CliTypeOK, ConnTypeOK, Pubs
<1>1. /\ c2s[w] # <<>> /\ Head(c2s[w]).op = "publish" /\ c2s'[w] = Tail(c2s[w])
      /\ wsState'[w] = "open"
  BY <1>0 DEF ServerPublish, ServerReads, TypeInv, TypeOK, NetTypeOK
<1>2. PICK p \in Msgs : p = Head(c2s[w]) /\ p.op = "publish" /\ p.n \in Nat
  <2>1. Head(c2s[w]) \in Msgs
    BY <1>0, <1>1
  <2> QED  BY <1>1, <2>1 DEF Msgs
<1>3. PICK ok \in BOOLEAN :
        /\ accepted' = IF ok THEN accepted \cup {p.n} ELSE accepted
        /\ s2c' = Written(s2c, srvWs, <<Msg("ack", p.n, 0, ok)>>)
  BY <1>2 DEF ServerPublish, SrvHead
<1>4. PICK a \in Msgs : /\ a = Msg("ack", p.n, 0, ok)
                        /\ a.op = "ack" /\ a.n = p.n /\ a.ok = ok
  <2>1. Msg("ack", p.n, 0, ok) \in Msgs
    BY <1>2, MsgType DEF OpCodes
  <2> QED  BY <2>1 DEF Msg
<1>5. StreamAt(w)
  BY DEF StreamInv
<1>6. Elems(c2s[w]) = {p} \cup Elems(c2s'[w])
  BY <1>0, <1>1, <1>2, ElemsTail
<1>7. Publishes(w) = {p} \cup Publishes(w)'
  BY <1>2, <1>6 DEF Publishes
<1>8. pubSeqNum \in Nat /\ p.n \in 1..pubSeqNum /\ \A m \in Acks(w) : m.n < p.n
  BY <1>0, <1>5, <1>7 DEF StreamAt, TypeInv, TypeOK, CliTypeOK, ConnTypeOK
<1>9. Sorted(c2s'[w], "publish") /\ \A q \in Publishes(w)' : p.n < q.n
  <2>1. /\ Sorted(Tail(c2s[w]), "publish")
        /\ \A m \in Elems(Tail(c2s[w])) :
             m.op = "publish" /\ Head(c2s[w]).op = "publish" /\ m.n # 0 /\ Head(c2s[w]).n # 0
               => Head(c2s[w]).n < m.n
    BY <1>0, <1>1, <1>5, SortedTail DEF StreamAt
  <2>2. \A q \in Publishes(w)' : q.n # 0 /\ q \in Elems(Tail(c2s[w])) /\ q.op = "publish"
    <3>1. \A q \in Publishes(w)' : q.n \in 1..pubSeqNum
      BY <1>5, <1>7 DEF StreamAt
    <3> QED  BY <1>1, <1>8, <3>1 DEF Publishes
  <2> QED  BY <1>1, <1>2, <1>8, <2>1, <2>2
<1>10. <<a>> \in Seq(Msgs) /\ Elems(<<a>>) = {a}
  <2>1. <<a>> \in Seq(Msgs)
    OBVIOUS
  <2> QED  BY <2>1, ElemsShort
<1>11. Coming(w)' = Coming(w) \o <<a>>
  <2>1. s2c' = Written(s2c, w, <<a>>)
    BY <1>3, <1>4
  <2> QED  BY <1>0, <1>10, <2>1, ComingServer
<1>12. Sorted(Coming(w)', "ack")
  <2>1. Before(Coming(w), <<a>>, "ack")
    <3>1. \A m \in Elems(Coming(w)) : m.op = "ack" => m.n < p.n
      BY <1>8 DEF Acks
    <3> QED  BY <1>4, <1>10, <3>1 DEF Before
  <2>2. Sorted(Coming(w) \o <<a>>, "ack")
    BY <1>0, <1>5, <1>10, <2>1, SortedConcat, SortedOne DEF StreamAt
  <2> QED  BY <1>11, <2>2
<1>13. Acks(w)' = Acks(w) \cup {a}
  <2>1. Elems(Coming(w) \o <<a>>) = Elems(Coming(w)) \cup Elems(<<a>>)
    BY ONLY <1>0, <1>10, ElemsConcat
  <2>2. Elems(Coming(w)') = Elems(Coming(w)) \cup {a}
    BY <1>10, <1>11, <2>1
  <2> QED  BY <1>4, <2>2 DEF Acks
<1>14. connected
  <2>1. connected \/ mu \in Threads
    BY DEF Inv, SocketInv, NoLeakedSocket
  <2>2. p \in Elems(c2s[w])
    BY <1>6
  <2>3. mu \in Threads => p.op = "login"
    BY <2>2 DEF SessionInv, LoginInv
  <2> QED  BY <1>2, <2>1, <2>3
<1>15. \A n \in pubs : Answered(w, n) \/ \E q \in Publishes(w) : q.n = n
  BY <1>5, <1>14 DEF StreamAt
<1>16. accepted \subseteq accepted'
  BY <1>3
<1>17. \A n : Answered(w, n) => Answered(w, n)'
  BY <1>13, <1>16 DEF Answered
<1>18. \A n \in pubs : Answered(w, n)' \/ \E q \in Publishes(w)' : q.n = n
  <2>1. Answered(w, p.n)'
    <3>1. CASE ok
      <4>1. p.n \in accepted'
        BY <1>3, <3>1
      <4> QED  BY <4>1 DEF Answered
    <3>2. CASE ~ok
      <4>1. a \in Acks(w)' /\ ~a.ok /\ p.n <= a.n
        BY <1>2, <1>4, <1>13, <3>2
      <4> QED  BY <4>1 DEF Answered
    <3> QED  BY <3>1, <3>2
  <2> QED  BY <1>7, <1>15, <1>17, <2>1
<1>19. \A m \in Acks(w)' : m.ok =>
         \A n \in pubs : n <= m.n =>
            n \in accepted' \/ \E r \in Acks(w)' : ~r.ok /\ n <= r.n /\ r.n < m.n
  <2>1. SUFFICES ASSUME NEW m \in Acks(w)', m.ok, NEW n \in pubs, n <= m.n
                 PROVE  n \in accepted' \/ \E r \in Acks(w)' : ~r.ok /\ n <= r.n /\ r.n < m.n
    OBVIOUS
  <2>2. CASE m \in Acks(w)
    BY <1>5, <1>13, <1>16, <2>1, <2>2 DEF StreamAt
  <2>3. CASE m = a
    <3>1. CASE n = p.n
      BY <1>3, <1>4, <2>1, <2>3, <3>1
    <3>2. CASE n < p.n
      <4>1. \A q \in Publishes(w) : p.n <= q.n /\ q.n \in Nat
        BY <1>2, <1>5, <1>7, <1>9, <1>8 DEF StreamAt
      <4>2. n \in Nat /\ ~(\E q \in Publishes(w) : q.n = n)
        BY <1>0, <1>2, <3>2, <4>1
      <4>3. Answered(w, n)
        BY <1>15, <4>2
      <4> QED  BY <1>4, <1>8, <1>13, <1>16, <2>3, <4>3 DEF Answered
    <3> QED  BY <1>0, <1>2, <1>4, <2>1, <2>3, <3>1, <3>2
  <2> QED  BY <1>13, <2>2, <2>3
<1>20. /\ \A m \in Acks(w)' : m.n \in 1..pubSeqNum
       /\ \A q \in Publishes(w)' : q.n \in 1..pubSeqNum /\ \A m \in Acks(w)' : m.n < q.n
  BY <1>4, <1>5, <1>7, <1>8, <1>9, <1>13 DEF StreamAt
<1> QED  BY <1>9, <1>12, <1>18, <1>19, <1>20 DEF StreamAt

LEMMA StreamServer ==
    ASSUME Inv, SessionInv, StreamInv, ServerReply \/ ServerPushes, UNCHANGED cliVars
    PROVE  StreamInv'
<1> USE DEF cliVars, connVars, dispVars
<1>0. TypeInv /\ c2s \in [Ws -> Seq(Msgs)]
  BY DEF Inv, TypeInv, TypeOK, NetTypeOK
<1>s. ASSUME NEW w \in Ws, w = ws PROVE Sorted(c2s[w], "publish") /\ Sorted(Coming(w), "ack")
  BY <1>s DEF StreamInv, StreamAt
<1>k. ASSUME accepted \subseteq accepted',
             \A w \in Ws : w = ws =>
               /\ Sorted(c2s'[w], "publish") /\ Sorted(Coming(w)', "ack")
               /\ Publishes(w)' \subseteq Publishes(w) /\ Acks(w)' = Acks(w)
               /\ (connected /\ wsState'[w] = "open") =>
                      wsState[w] = "open" /\ Publishes(w)' = Publishes(w)
      PROVE  StreamInv'
  <2>1. UNCHANGED <<ws, pubSeqNum, connected>> /\ pubs' \subseteq pubs
    OBVIOUS
  <2> QED  BY <1>k, <2>1, StreamKeep
<1>1. ASSUME NEW v \in Ws, ServerLogin(v) PROVE StreamInv'
  <2>1. PICK ms \in Seq(Msgs), resume \in BOOLEAN :
          /\ s2c' = Written(s2c, v, <<Msg("welcome", sess', 0, resume)>> \o ms)
          /\ Elems(ms) = unacked'
          /\ Msg("welcome", sess', 0, resume) \in Msgs
          /\ UNCHANGED unacked \/ unacked' = {}
    <3>1. \E ms \in Seq(Msgs), resume \in BOOLEAN :
            /\ s2c' = Written(s2c, v, <<Msg("welcome", sess', 0, resume)>> \o ms)
            /\ Elems(ms) = unacked' /\ ms \in InSeqOrder(unacked')
            /\ Msg("welcome", sess', 0, resume) \in Msgs
            /\ IF resume
               THEN /\ UNCHANGED <<sess, srvSeq, unacked, srvSubs>>
                    /\ Head(c2s[v]).n = sess /\ sess # 0
               ELSE /\ sess' = sess + 1 /\ srvSeq' = 0 /\ unacked' = {} /\ srvSubs' = {}
                    /\ Head(c2s[v]).n # sess \/ sess = 0 \/ "noresume" \in Faults
      BY <1>0, <1>1, LoginWrites
    <3> QED  BY <3>1
  <2>2. PICK hello \in Msgs : /\ hello = Msg("welcome", sess', 0, resume)
                              /\ hello.op = "welcome"
    BY <2>1 DEF Msg
  <2>3. <<hello>> \in Seq(Msgs) /\ Elems(<<hello>>) = {hello}
    <3>1. <<hello>> \in Seq(Msgs)
      OBVIOUS
    <3> QED  BY <3>1, ElemsShort
  <2>4. PICK all \in Seq(Msgs) : all = <<hello>> \o ms /\ Elems(all) = {hello} \cup unacked'
    BY <2>1, <2>3, ElemsConcat
  <2>5. "ack" \notin Ops(all)
    BY <2>1, <2>2, <2>4 DEF Ops, SessionInv, WireInv
  <2>6. s2c' = Written(s2c, v, all)
    BY <2>1, <2>2, <2>4
  <2>7. ~connected
    <3>1. c2s[v] # <<>> /\ Head(c2s[v]).op = "login"
      BY <1>0, <1>1, LoginWrites
    <3>2. Head(c2s[v]) \in Elems(c2s[v])
      BY <1>0, <3>1, ElemsTail
    <3>3. ~NoLogins
      BY <3>1, <3>2 DEF NoLogins, Ops
    <3> QED  BY <3>3, ConnectedFacts DEF SessionInv, WelcomedInv
  <2>8. UNCHANGED <<wsState, accepted>> /\ \A w \in Ws : Elems(c2s'[w]) \subseteq Elems(c2s[w])
    BY <1>0, <1>1, LoginWrites, ServerConsumes DEF ServerReply
  <2>9. \A w \in Ws : w = ws => Sorted(c2s'[w], "publish")
    <3>1. SUFFICES ASSUME NEW w \in Ws, w = ws PROVE Sorted(c2s'[w], "publish")
      OBVIOUS
    <3>2. c2s[v] # <<>> /\ c2s'[w] = IF w = v THEN Tail(c2s[w]) ELSE <<>>
      BY <1>0, <1>1, LoginWrites
    <3>3. Sorted(<<>>, "publish")
      BY ElemsShort, SortedNone
    <3>4. w = v => Sorted(Tail(c2s[w]), "publish")
      BY <1>0, <1>s, <3>1, <3>2, SortedTail
    <3> QED  BY <3>2, <3>3, <3>4
  <2>10. \A w \in Ws : w = ws => Sorted(Coming(w)', "ack") /\ Acks(w)' = Acks(w)
    BY <1>0, <1>s, <2>5, <2>6, StreamReply
  <2> QED  BY <1>k, <2>7, <2>8, <2>9, <2>10 DEF Publishes
<1>2. CASE ServerAnswer /\ ~ServerPublish
  <2>1. PICK ms \in Seq(Msgs) : s2c' = Written(s2c, srvWs, ms) /\ "ack" \notin Ops(ms)
    BY <1>0, <1>2, AnswerWrites
  <2>2. PICK v \in Ws : v = srvWs /\ c2s[v] # <<>> /\ c2s' = [c2s EXCEPT ![v] = Tail(@)]
    BY <1>0, <1>2, AnswerWrites
  <2>3. Head(c2s[v]).op # "publish" /\ UNCHANGED <<wsState, accepted>>
    BY <1>2, <2>2 DEF ServerAnswer, ServerSubscribe, ServerUnsubscribe, ServerAck,
      ServerIgnore, ServerReads
  <2>4. \A w \in Ws : w = ws => Sorted(Coming(w)', "ack") /\ Acks(w)' = Acks(w)
    BY <1>0, <1>s, <2>1, StreamReply
  <2>5. \A w \in Ws : w = ws => Sorted(c2s'[w], "publish") /\ Publishes(w)' = Publishes(w)
    BY <1>0, <1>s, <2>2, <2>3, StreamRead
  <2> QED  BY <1>k, <2>3, <2>4, <2>5
<1>3. CASE ServerPushes
  <2>1. PICK m \in Msgs :
          /\ s2c' = Written(s2c, srvWs, <<m>>)
          /\ m.op \in {"event", "unsubscribed", "heartbeat", "error"}
    BY <1>0, <1>3, PushWrites
  <2>2. <<m>> \in Seq(Msgs)
    OBVIOUS
  <2>3. "ack" \notin Ops(<<m>>)
    BY <2>1, ElemsShort DEF Ops
  <2>4. \A w \in Ws : w = ws => Sorted(Coming(w)', "ack") /\ Acks(w)' = Acks(w)
    BY <1>0, <1>s, <2>1, <2>2, <2>3, StreamReply
  <2>5. UNCHANGED <<wsState, c2s, accepted>>
    BY <1>0, <1>3, PushWrites
  <2>6. \A w \in Ws : Publishes(w)' = Publishes(w)
    BY <2>5 DEF Publishes
  <2> QED  BY <1>k, <1>s, <2>4, <2>5, <2>6
<1>4. CASE ServerPublish
  <2>1. CASE \E w \in Ws : w = ws /\ srvWs = w /\ wsState[w] = "open"
    BY <1>4, <2>1, StreamAnswered DEF StreamInv
  <2>2. CASE \A w \in Ws : w = ws => srvWs # w \/ wsState[w] # "open"
    <3>1. UNCHANGED wsState /\ accepted \subseteq accepted'
      BY <1>4 DEF ServerPublish, ServerReads
    <3>2. PICK v \in Ws : v = srvWs /\ c2s[v] # <<>> /\ c2s' = [c2s EXCEPT ![v] = Tail(@)]
      BY <1>0, <1>4, AnswerWrites DEF ServerAnswer
    <3>3. PICK ms \in Seq(Msgs) : s2c' = Written(s2c, srvWs, ms)
      BY <1>0, <1>4, AnswerWrites DEF ServerAnswer
    <3>4. ASSUME NEW w \in Ws, w = ws
          PROVE  /\ Coming(w)' = Coming(w) /\ Acks(w)' = Acks(w)
                 /\ Sorted(c2s'[w], "publish") /\ Publishes(w)' \subseteq Publishes(w)
                 /\ wsState[w] = "open" => Publishes(w)' = Publishes(w)
      <4>1. Coming(w)' = Coming(w)
        BY <1>0, <2>2, <3>3, <3>4, ComingServer
      <4>2. Acks(w)' = Acks(w)
        BY <4>1 DEF Acks
      <4>3. c2s'[w] = IF w = v THEN Tail(c2s[w]) ELSE c2s[w]
        BY <1>0, <3>2
      <4>4. CASE w = v
        <5>1. c2s[w] \in Seq(Msgs) /\ c2s[w] # <<>>
          BY <1>0, <3>2, <4>4
        <5>2. Sorted(c2s'[w], "publish")
          BY <1>s, <3>4, <4>3, <4>4, <5>1, SortedTail
        <5>3. Publishes(w)' \subseteq Publishes(w)
          BY <4>3, <4>4, <5>1, ElemsTail DEF Publishes
        <5> QED  BY <2>2, <3>2, <3>4, <4>1, <4>2, <4>4, <5>2, <5>3
      <4>5. CASE w # v
        <5>1. Publishes(w)' = Publishes(w)
          BY <4>3, <4>5 DEF Publishes
        <5> QED  BY <1>s, <3>4, <4>1, <4>2, <4>3, <4>5, <5>1
      <4> QED  BY <4>4, <4>5
    <3> QED  BY <1>k, <1>s, <3>1, <3>4
  <2> QED  BY <2>1, <2>2
<1> QED  BY <1>1, <1>2, <1>3, <1>4 DEF ServerReply, ServerAnswer

LEMMA StreamNext ==
    ASSUME PublishesSurvive, Inv, ListenInv, SessionInv, PendingInv, ResumeInv, StreamInv,
           [Next]_vars
    PROVE  StreamInv'
<1>0. TypeInv /\ c2s \in [Ws -> Seq(Msgs)] /\ wsState \in [Ws -> WsStates]
  BY DEF Inv, TypeInv, TypeOK, NetTypeOK
<1>1. CASE ClientNext
  BY <1>1, StreamThread, StreamQuiet, StreamAck DEF ClientNext
<1>2. CASE EnvNext
  BY <1>2, StreamServer DEF EnvNext
<1>3. CASE BreakNext
  <2>1. PICK v \in Ws : Break(v)
    BY <1>3 DEF BreakNext
  <2>2. /\ UNCHANGED <<ws, pubSeqNum, connected, dpc, cur, s2c, pubs, accepted>>
        /\ \A w \in Ws : IF w = v THEN wsState'[w] = "broken" /\ c2s'[w] = <<>>
                         ELSE wsState'[w] = wsState[w] /\ c2s'[w] = c2s[w]
    BY <1>0, <1>3, <2>1 DEF BreakNext, Break, cliVars, connVars, dispVars, srvVars
  <2>3. ASSUME NEW w \in Ws, w = ws
        PROVE  /\ Sorted(c2s'[w], "publish")
               /\ Sorted(Coming(w)', "ack")
               /\ Publishes(w)' \subseteq Publishes(w)
               /\ Acks(w)' = Acks(w) \/ Acks(w)' = {}
               /\ (connected' /\ wsState'[w] = "open") =>
                      /\ connected /\ wsState[w] = "open"
                      /\ Publishes(w)' = Publishes(w) /\ Acks(w)' = Acks(w)
    <3>1. Sorted(c2s[w], "publish") /\ Sorted(Coming(w), "ack")
      BY <2>3 DEF StreamInv, StreamAt
    <3>2. Coming(w)' = Coming(w) /\ Acks(w)' = Acks(w)
      BY <2>2 DEF Coming, Acks
    <3>3. CASE w = v
      <4>1. Sorted(c2s'[w], "publish") /\ Publishes(w)' = {}
        BY <2>2, <3>3, ElemsShort, SortedNone DEF Publishes
      <4> QED  BY <2>2, <3>1, <3>2, <3>3, <4>1
    <3>4. CASE w # v
      <4>1. Sorted(c2s'[w], "publish") /\ Publishes(w)' = Publishes(w)
        BY <2>2, <3>1, <3>4 DEF Publishes
      <4> QED  BY <2>2, <3>1, <3>2, <3>4, <4>1
    <3> QED  BY <3>3, <3>4
  <2> QED  BY <2>2, <2>3, StreamKeep
<1>4. CASE UNCHANGED vars
  <2>1. \A w \in Ws : Coming(w)' = Coming(w) /\ Acks(w)' = Acks(w) /\ Publishes(w)' = Publishes(w)
    BY <1>4 DEF vars, cliVars, dispVars, netVars, Coming, Acks, Publishes
  <2>2. UNCHANGED <<ws, pubSeqNum, connected, pubs, accepted, c2s, wsState>>
    BY <1>4 DEF vars, cliVars, connVars, netVars, srvVars
  <2>3. \A w \in Ws : w = ws => Sorted(c2s[w], "publish") /\ Sorted(Coming(w), "ack")
    BY DEF StreamInv, StreamAt
  <2> QED  BY <2>1, <2>2, <2>3, StreamKeep
<1> QED  BY <1>1, <1>2, <1>3, <1>4 DEF Next

LEMMA StreamInit == Init => PendingInv /\ ResumeInv /\ StreamInv
<1> SUFFICES ASSUME Init PROVE PendingInv /\ ResumeInv /\ StreamInv
  OBVIOUS
<1>1. \A w \in Ws : Elems(c2s[w]) = {}
  BY ElemsShort DEF Init, NetInit
<1>2. PendingInv
  BY ChargeInit DEF Init, CliInit, PendingInv
<1>3. ResumeInv
  BY <1>1 DEF Init, CliInit, ResumeInv
<1>4. StreamInv
  BY DEF Init, CliInit, StreamInv, Ws
<1> QED  BY <1>2, <1>3, <1>4

\* A dispatcher that completes publishes without an error completes those the
\* server accepted.
OutcomeInv ==
    /\ \A k \in Dispatchers : dpc[k] = "complete" /\ cur[k].ok => todo[k] \subseteq accepted
    /\ CompletionTruthful

LEMMA OutcomeKeep ==
    ASSUME OutcomeInv, UNCHANGED comp, accepted \subseteq accepted',
           \A k \in Dispatchers : dpc'[k] = "complete" =>
                dpc[k] = "complete" /\ cur'[k] = cur[k] /\ todo'[k] \subseteq todo[k]
    PROVE  OutcomeInv'
<1>1. \A k \in Dispatchers : dpc'[k] = "complete" /\ cur'[k].ok => todo'[k] \subseteq accepted'
  BY DEF OutcomeInv
<1>2. CompletionTruthful'
  BY DEF OutcomeInv, CompletionTruthful
<1> QED  BY <1>1, <1>2 DEF OutcomeInv

\* What an acknowledgement without an error covers was accepted.
LEMMA AckCoversAccepted ==
    ASSUME Inv, ListenInv, SessionInv, StreamInv,
           NEW k \in Dispatchers, Handles(k, "ack"), cur[k].ok,
           NEW n \in pubs, n <= cur[k].n
    PROVE  n \in accepted
<1>0. TypeInv
  BY DEF Inv
<1>1. PICK w \in Ws : w = k /\ w = ws
  BY HandledSession DEF Handles, Dispatchers
<1>2. PICK h \in Msgs : h = cur[k] /\ h.op = "ack" /\ h.ok /\ n <= h.n
  BY <1>0 DEF Handles, TypeInv, TypeOK, CliTypeOK, DispTypeOK
<1>3. s2c[w] \in Seq(Msgs)
  BY <1>0 DEF TypeInv, TypeOK, NetTypeOK
<1>4. Coming(w) = <<h>> \o s2c[w]
  BY <1>1, <1>2 DEF Coming, Handles
<1>5. /\ Coming(w) \in Seq(Msgs) /\ Coming(w) # <<>>
      /\ Head(Coming(w)) = h /\ Tail(Coming(w)) = s2c[w]
  BY ONLY <1>2, <1>3, <1>4, PushedFront
<1>6. Elems(Coming(w)) = {h} \cup Elems(s2c[w])
  BY <1>5, ElemsTail
<1>7. StreamAt(w)
  BY <1>1 DEF StreamInv
<1>8. h \in Acks(w) /\ \A m \in Acks(w) : m.n \in 1..pubSeqNum
  BY <1>2, <1>6, <1>7 DEF Acks, StreamAt
<1>9. pubSeqNum \in Nat
  BY <1>0 DEF TypeInv, TypeOK, CliTypeOK, ConnTypeOK
<1>10. \A r \in Acks(w) : r # h => h.n < r.n
  <2>1. \A m \in Elems(s2c[w]) : m.op = "ack" /\ m.n # 0 /\ h.n # 0 => h.n < m.n
    BY <1>2, <1>5, <1>7, SortedTail DEF StreamAt
  <2>2. \A m \in Acks(w) : m.n # 0
    BY <1>8
  <2> QED  BY <1>6, <1>8, <2>1, <2>2 DEF Acks
<1>11. \A r \in Acks(w) : ~(r.n < h.n)
  BY <1>8, <1>9, <1>10
<1> QED  BY <1>2, <1>7, <1>8, <1>11 DEF StreamAt

LEMMA OutcomeThread ==
    ASSUME Inv, OutcomeInv, UNCHANGED srvVars,
           NEW t \in Threads, CallStep(t) \/ DrainStep(t) \/ MethodStep(t)
    PROVE  OutcomeInv'
<1> USE DEF dispVars, chanVars
<1>0. accepted' = accepted
  BY DEF srvVars
<1>1. CASE UNCHANGED <<comp, dpc, cur, todo>>
  BY <1>0, <1>1, OutcomeKeep
<1>2. CASE Publishing(t)
  <2>1. PICK chan, l : Register(t, chan, l)
    BY <1>2 DEF Publishing
  <2>2. PICK c : comp' = [comp EXCEPT ![pubSeqNum'] = c] /\ c.sent = <<>>
    <3>1. PICK enc : comp' = [comp EXCEPT ![pubSeqNum'] = Completion(chan, enc)]
      BY <2>1 DEF Register
    <3>2. Completion(chan, enc).sent = <<>>
      BY DEF Completion
    <3> QED  BY <3>1, <3>2
  <2>3. \A n \in Pubs : comp'[n] = comp[n] \/ comp'[n].sent = <<>>
    BY <2>2 DEF Inv, TypeInv, TypeOK, CliTypeOK, ChanTypeOK
  <2>4. DOMAIN <<>> = {}
    OBVIOUS
  <2>5. CompletionTruthful'
    BY <1>0, <2>3, <2>4 DEF OutcomeInv, CompletionTruthful
  <2>6. UNCHANGED <<dpc, cur, todo>>
    BY <2>1 DEF Register
  <2> QED  BY <1>0, <2>5, <2>6 DEF OutcomeInv
<1>3. CASE Welcome(t)
  <2>1. UNCHANGED <<comp, cur, todo>> /\ dpc' = [dpc EXCEPT ![ws] = "top"]
    BY <1>3 DEF Welcome
  <2>2. \A k \in Dispatchers : dpc'[k] = "complete" => dpc[k] = "complete"
    BY <2>1 DEF Inv, TypeInv, TypeOK, CliTypeOK, DispTypeOK
  <2> QED  BY <1>0, <2>1, <2>2, OutcomeKeep
<1> QED  BY <1>1, <1>2, <1>3, ThreadCases DEF Calm, Dial, LoginFail, Disconnect, Subscribes,
    AddSubscription, Unsubscribe, UnsubscribeAll

LEMMA OutcomeDispatch ==
    ASSUME Inv, ListenInv, SessionInv, StreamInv, OutcomeInv, UNCHANGED srvVars,
           NEW k \in Dispatchers, DispatchStep(k)
    PROVE  OutcomeInv'
<1> USE DEF chanVars
<1>0. DispTypeOK /\ comp \in [Pubs -> Completions] /\ accepted' = accepted
  BY DEF Inv, TypeInv, TypeOK, CliTypeOK, ChanTypeOK, srvVars
<1>1. \A l : Step(k, l) => \A j \in Dispatchers : dpc'[j] = IF j = k THEN l ELSE dpc[j]
  BY <1>0 DEF Step, DispTypeOK
<1>2. CASE HandleAck(k)
  <2>1. /\ \A j \in Dispatchers : dpc'[j] = IF j = k THEN "complete" ELSE dpc[j]
        /\ \A j \in Dispatchers : j # k => todo'[j] = todo[j]
        /\ todo'[k] = {n \in pubs : n <= cur[k].n}
        /\ UNCHANGED <<cur, comp>> /\ Handles(k, "ack")
    BY <1>0, <1>1, <1>2 DEF HandleAck, DispTypeOK
  <2>2. cur[k].ok => todo'[k] \subseteq accepted
    BY <2>1, AckCoversAccepted
  <2>3. \A j \in Dispatchers : dpc'[j] = "complete" /\ cur'[j].ok => todo'[j] \subseteq accepted'
    BY <1>0, <2>1, <2>2 DEF OutcomeInv
  <2>4. CompletionTruthful'
    BY <1>0, <2>1 DEF OutcomeInv, CompletionTruthful
  <2> QED  BY <2>3, <2>4 DEF OutcomeInv
<1>3. CASE Complete(k)
  <2>1. PICK n \in todo[k] : /\ comp' = [comp EXCEPT ![n].sent = Append(@, Outcome(k))]
                             /\ todo' = [todo EXCEPT ![k] = @ \ {n}]
    BY <1>3 DEF Complete
  <2>2. n \in Pubs /\ UNCHANGED <<dpc, cur>> /\ \A j \in Dispatchers : todo'[j] \subseteq todo[j]
    BY <1>0, <1>3, <2>1 DEF Complete, DispTypeOK
  <2>3. comp[n].sent \in Seq({"ok", "err"}) /\ Outcome(k) \in {"ok", "err"}
    BY <1>0, <2>2 DEF Completions, Outcome
  <2>4. /\ \A p \in Pubs : p # n => comp'[p] = comp[p]
        /\ comp'[n].sent = Append(comp[n].sent, Outcome(k))
    BY <1>0, <2>1, <2>2 DEF Completions
  <2>5. \A i \in DOMAIN comp'[n].sent :
          \/ i \in DOMAIN comp[n].sent /\ comp'[n].sent[i] = comp[n].sent[i]
          \/ comp'[n].sent[i] = Outcome(k)
    BY <2>3, <2>4
  <2>6. Outcome(k) = "ok" => n \in accepted
    BY <2>1 DEF Outcome, OutcomeInv
  <2>7. CompletionTruthful'
    BY <1>0, <2>2, <2>4, <2>5, <2>6 DEF OutcomeInv, CompletionTruthful
  <2>8. \A j \in Dispatchers : dpc'[j] = "complete" /\ cur'[j].ok => todo'[j] \subseteq accepted'
    BY <1>0, <2>2 DEF OutcomeInv
  <2> QED  BY <2>7, <2>8 DEF OutcomeInv
<1>4. ASSUME UNCHANGED comp, NEW l, l # "complete", Step(k, l),
             \A j \in Dispatchers : j # k => cur'[j] = cur[j] /\ todo'[j] = todo[j]
      PROVE  OutcomeInv'
  <2>1. \A j \in Dispatchers : dpc'[j] = "complete" =>
          dpc[j] = "complete" /\ cur'[j] = cur[j] /\ todo'[j] \subseteq todo[j]
    BY <1>1, <1>4
  <2> QED  BY <1>0, <1>4, <2>1, OutcomeKeep
<1>5. \A j \in Dispatchers : j # k =>
        /\ (\E m : cur' = [cur EXCEPT ![k] = m]) => cur'[j] = cur[j]
        /\ (\E S : todo' = [todo EXCEPT ![k] = S]) => todo'[j] = todo[j]
  BY <1>0 DEF DispTypeOK
<1>6. CASE Unlock(k) /\ UNCHANGED comp
  <2>1. Step(k, "top") /\ UNCHANGED todo /\ \A j \in Dispatchers : j # k => cur'[j] = cur[j]
    BY <1>5, <1>6 DEF Unlock
  <2> QED  BY <1>4, <1>6, <2>1
<1>7. CASE ReadMsg(k)
  <2>1. UNCHANGED <<comp, todo>> /\ \A j \in Dispatchers : j # k => cur'[j] = cur[j]
    BY <1>5, <1>7 DEF ReadMsg
  <2>2. Step(k, "msg") \/ Step(k, "top")
    BY <1>7 DEF ReadMsg
  <2> QED  BY <1>4, <2>1, <2>2
<1>8. CASE SendError(k)
  <2>1. Step(k, "fail") /\ UNCHANGED <<comp, cur>>
          /\ \A j \in Dispatchers : j # k => todo'[j] = todo[j]
    BY <1>5, <1>8 DEF SendError
  <2> QED  BY <1>4, <2>1
<1>9. CASE ReadTop(k) \/ ReadErr(k) \/ Lock(k) \/ HandleDisconnect(k) \/ FailDone(k) \/ Exit(k)
  <2>1. UNCHANGED <<comp, cur, todo>>
    BY <1>9 DEF ReadTop, ReadErr, Lock, HandleDisconnect, FailDone, Exit
  <2>2. \E l \in {"reading", "err", "handle", "errchan", "exit", "done"} : Step(k, l)
    BY <1>9 DEF ReadTop, ReadErr, Lock, HandleDisconnect, FailDone, Exit
  <2> QED  BY <1>4, <2>1, <2>2
<1>10. CASE HandleHeartbeat(k) \/ HandleMessage(k) \/ HandleSubscribed(k)
              \/ HandleUnsubscribed(k) \/ AckDone(k)
  <2>1. Unlock(k) /\ UNCHANGED comp
    BY <1>10 DEF HandleHeartbeat, HandleMessage, HandleSubscribed, HandleUnsubscribed, AckDone
  <2> QED  BY <1>6, <2>1
<1> QED  BY <1>2, <1>3, <1>7, <1>8, <1>9, <1>10 DEF DispatchStep

LEMMA OutcomeNext ==
    ASSUME Inv, ListenInv, SessionInv, StreamInv, OutcomeInv, [Next]_vars
    PROVE  OutcomeInv'
<1>1. CASE ClientNext
  BY <1>1, OutcomeThread, OutcomeDispatch DEF ClientNext
<1>2. ASSUME UNCHANGED <<comp, dpc, cur, todo>>, accepted \subseteq accepted'
      PROVE  OutcomeInv'
  BY <1>2, OutcomeKeep
<1>3. CASE EnvNext
  <2>1. accepted \subseteq accepted'
    BY <1>3 DEF EnvNext, ServerReply, ServerLogin, ServerPublish, ServerSubscribe,
      ServerUnsubscribe, ServerAck, ServerIgnore, ServerPushes, ServerEvent, ServerPush
  <2> QED  BY <1>2, <1>3, <2>1 DEF EnvNext, cliVars, dispVars, chanVars
<1>4. CASE BreakNext \/ UNCHANGED vars
  BY <1>2, <1>4 DEF BreakNext, vars, cliVars, dispVars, chanVars, srvVars
<1> QED  BY <1>1, <1>3, <1>4 DEF Next

\* A publish that completes without an error was accepted by the server, when
\* every message can be encoded and, if the server may refuse to resume a
\* session, nobody disconnects: its acknowledgement, which is cumulative, covers
\* what was sent before it on the connection, and whatever of that the server
\* refused is completed by the answer to it, which comes first.
THEOREM TruthCorrect ==
    DisconnectAlone /\ PublishesSurvive => (Spec => []CompletionTruthful)
<1> SUFFICES ASSUME DisconnectAlone, PublishesSurvive PROVE Spec => []CompletionTruthful
  OBVIOUS
<1>1. Init => PendingInv /\ ResumeInv /\ StreamInv /\ OutcomeInv
  <2>1. Init => OutcomeInv
    BY DEF Init, CliInit, OutcomeInv, CompletionTruthful, Completion
  <2> QED  BY <2>1, StreamInit
<1>2. Inv /\ ListenInv /\ SessionInv /\ PendingInv /\ [Next]_vars => PendingInv'
  BY PendingNext
<1>3. Inv /\ ListenInv /\ SessionInv /\ ResumeInv /\ [Next]_vars => ResumeInv'
  BY ResumeNext
<1>4. Inv /\ ListenInv /\ SessionInv /\ PendingInv /\ ResumeInv /\ StreamInv /\ [Next]_vars
        => StreamInv'
  BY StreamNext
<1>5. Inv /\ ListenInv /\ SessionInv /\ StreamInv /\ OutcomeInv /\ [Next]_vars => OutcomeInv'
  BY OutcomeNext
<1>6. OutcomeInv => CompletionTruthful
  BY DEF OutcomeInv
<1> QED  BY <1>1, <1>2, <1>3, <1>4, <1>5, <1>6, SessionCorrect, PTL DEF Spec
=============================================================================
