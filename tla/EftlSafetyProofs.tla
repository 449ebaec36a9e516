-------------------------- MODULE EftlSafetyProofs --------------------------
(***************************************************************************)
(* The safety properties of the eFTL client library, and that it implements *)
(* EftlPublishContract, proved for every number of goroutines, connections,  *)
(* publishes and subscriptions.                                             *)
(***************************************************************************)
EXTENDS EftlSystem, SequenceTheorems, FiniteSetTheorems, TLAPS

-----------------------------------------------------------------------------
(* The types. *)

LEMMA FunIsSeq ==
    ASSUME NEW S, NEW n \in Nat, NEW f \in [1..n -> S]
    PROVE  f \in Seq(S) /\ DOMAIN f = 1..n
  OBVIOUS

LEMMA WrittenType ==
    ASSUME NEW dir \in [Ws -> Seq(Msgs)], NEW w, NEW ms \in Seq(Msgs)
    PROVE  Written(dir, w, ms) \in [Ws -> Seq(Msgs)]
  BY ConcatProperties DEF Written

LEMMA MsgType ==
    ASSUME NEW op \in OpCodes, NEW n \in Nat, NEW i \in Nat, NEW b \in BOOLEAN
    PROVE  Msg(op, n, i, b) \in Msgs /\ <<Msg(op, n, i, b)>> \in Seq(Msgs)
  BY DEF Msg, Msgs

LEMMA NoMsgType == NoMsg \in Msgs
  BY DEF NoMsg, Msg, Msgs, OpCodes

LEMMA SubMsgsType ==
    ASSUME NEW n \in Nat, NEW S \in SUBSET Nat, NEW q \in [1..n -> S],
           NEW op \in OpCodes
    PROVE  SubMsgs(op, q) \in Seq(Msgs)
<1>1. SubMsgs(op, q) \in [1..n -> Msgs]
  BY DEF SubMsgs, Msg, Msgs
<1> QED  BY <1>1, FunIsSeq

LEMMA PubMsgsType ==
    ASSUME NEW n \in Nat, NEW S \in SUBSET Nat, NEW q \in [1..n -> S]
    PROVE  PubMsgs(q) \in Seq(Msgs)
<1>1. PubMsgs(q) \in [1..n -> Msgs]
  BY DEF PubMsgs, Msg, Msgs, OpCodes
<1> QED  BY <1>1, FunIsSeq

-----------------------------------------------------------------------------
(* Type correctness. *)

\* A step that leaves a component's variables alone preserves their types.
LEMMA TypeFrame ==
    /\ NetTypeOK /\ UNCHANGED netVars => NetTypeOK'
    /\ SrvTypeOK /\ UNCHANGED srvVars => SrvTypeOK'
    /\ ConnTypeOK /\ UNCHANGED connVars => ConnTypeOK'
    /\ LockTypeOK /\ UNCHANGED mu => LockTypeOK'
    /\ ThreadTypeOK /\ UNCHANGED threadVars => ThreadTypeOK'
    /\ DispTypeOK /\ UNCHANGED dispVars => DispTypeOK'
    /\ ChanTypeOK /\ UNCHANGED chanVars => ChanTypeOK'
    /\ HistTypeOK /\ UNCHANGED histVars => HistTypeOK'
    /\ HasSocket /\ UNCHANGED <<connVars, threadVars, dispVars>> => HasSocket'
<1>1. NetTypeOK /\ UNCHANGED netVars => NetTypeOK'
  BY DEF NetTypeOK, netVars
<1>2. SrvTypeOK /\ UNCHANGED srvVars => SrvTypeOK'
  BY DEF SrvTypeOK, srvVars
<1>3. ConnTypeOK /\ UNCHANGED connVars => ConnTypeOK'
  BY DEF ConnTypeOK, connVars
<1>4. LockTypeOK /\ UNCHANGED mu => LockTypeOK'
  BY DEF LockTypeOK
<1>5. ThreadTypeOK /\ UNCHANGED threadVars => ThreadTypeOK'
  BY DEF ThreadTypeOK, threadVars
<1>6. DispTypeOK /\ UNCHANGED dispVars => DispTypeOK'
  BY DEF DispTypeOK, dispVars
<1>7. ChanTypeOK /\ UNCHANGED chanVars => ChanTypeOK'
  BY DEF ChanTypeOK, chanVars
<1>8. HistTypeOK /\ UNCHANGED histVars => HistTypeOK'
  BY DEF HistTypeOK, histVars
<1>9. HasSocket /\ UNCHANGED <<connVars, threadVars, dispVars>> => HasSocket'
  BY DEF HasSocket, connVars, threadVars, dispVars
<1> QED  BY <1>1, <1>2, <1>3, <1>4, <1>5, <1>6, <1>7, <1>8, <1>9

LEMMA TypeInit == Init => TypeInv
<1> SUFFICES ASSUME Init PROVE TypeInv
  OBVIOUS
<1> USE MaxConnAssumption, BoundsAssumption
    DEF Init, NetInit, SrvInit, CliInit, Ws, Dispatchers, Pubs, Sids
<1>1. NetTypeOK
  BY EmptySeq DEF NetTypeOK, WsStates
<1>2. SrvTypeOK
  BY FS_EmptySet DEF SrvTypeOK
<1>3. ConnTypeOK
  <2>1. pubs \subseteq Pubs /\ subs \subseteq Sids /\ connected \in BOOLEAN
    OBVIOUS
  <2>2. ws \in 0..MaxConn /\ reconnectID \in Nat /\ lastSeqNum \in Nat
    OBVIOUS
  <2>3. pubSeqNum \in 0..MaxPub /\ subSeqNum \in 0..MaxSub
    OBVIOUS
  <2> QED  BY ONLY <2>1, <2>2, <2>3 DEF ConnTypeOK
<1>4. LockTypeOK /\ ThreadTypeOK
  BY DEF LockTypeOK, ThreadTypeOK, ThreadStates, Free
<1>5. DispTypeOK
  BY NoMsgType DEF DispTypeOK, DispStates
<1>6. ChanTypeOK
  BY EmptySeq DEF ChanTypeOK, Completion, Completions, Subscription, Subscriptions
<1>7. HistTypeOK
  BY EmptySeq DEF HistTypeOK
<1>8. HasSocket
  BY DEF HasSocket
<1> QED  BY <1>1, <1>2, <1>3, <1>4, <1>5, <1>6, <1>7, <1>8
  DEF TypeInv, TypeOK, CliTypeOK

\* What a step that only sends does to the network.
LEMMA SendType ==
    ASSUME NetTypeOK, NEW w, NEW ms \in Seq(Msgs),
           c2s' = Written(c2s, w, ms), UNCHANGED s2c,
           wsState' \in [Ws -> WsStates]
    PROVE  NetTypeOK'
  BY WrittenType DEF NetTypeOK

LEMMA AwaitType ==
    ASSUME ThreadTypeOK, NEW t \in Threads, NEW l \in ThreadStates, NEW x \in Nat,
           Await(t, l, x) \/ Return(t)
    PROVE  /\ ThreadTypeOK'
           /\ \A u \in Threads : pc'[u] = IF u = t /\ Await(t, l, x) THEN l
                                         ELSE IF u = t THEN "idle" ELSE pc[u]
  BY DEF ThreadTypeOK, ThreadStates, Await, Goto, Return

LEMMA RegisterType ==
    ASSUME TypeInv, UNCHANGED srvVars, NEW t \in Threads,
           NEW chan \in {"none", "own", "app"}, NEW l \in {"idle", "pubwait"},
           Register(t, chan, l)
    PROVE  TypeInv'
<1> USE BoundsAssumption DEF TypeInv, TypeOK, CliTypeOK
<1>1. pubSeqNum' = pubSeqNum + 1 /\ pubSeqNum' \in Pubs
  BY DEF Register, ConnTypeOK, Pubs
<1>2. ConnTypeOK'
  BY <1>1 DEF Register, ConnTypeOK, Pubs
<1>3. PICK enc \in BOOLEAN :
        /\ comp' = [comp EXCEPT ![pubSeqNum'] = Completion(chan, enc)]
        /\ c2s' = IF enc THEN Written(c2s, ws, <<Msg("publish", pubSeqNum', 0, TRUE)>>)
                  ELSE c2s
        /\ Await(t, l, pubSeqNum') \/ Return(t)
  BY DEF Register
<1>4. ThreadTypeOK' /\ (\A u \in Threads : pc'[u] = "login" => pc[u] = "login")
  BY <1>1, <1>3, AwaitType DEF ThreadStates, Pubs
<1>5. ChanTypeOK'
  <2>1. Completion(chan, enc) \in Completions
    BY EmptySeq DEF Completion, Completions
  <2> QED  BY <1>1, <1>3, <2>1 DEF ChanTypeOK, Register
<1>6. NetTypeOK'
  <2>1. <<Msg("publish", pubSeqNum', 0, TRUE)>> \in Seq(Msgs)
    <3>1. pubSeqNum' \in Nat /\ 0 \in Nat /\ TRUE \in BOOLEAN
      BY <1>1 DEF Pubs
    <3>2. "publish" \in OpCodes
      BY DEF OpCodes
    <3> QED  BY ONLY <3>1, <3>2, MsgType
  <2> QED  BY <1>3, <2>1, WrittenType DEF NetTypeOK, Register
<1>7. HasSocket'
  BY <1>4 DEF HasSocket, Register, dispVars
<1> QED  BY <1>2, <1>4, <1>5, <1>6, <1>7, TypeFrame DEF Register, LockTypeOK

LEMMA AddSubscriptionType ==
    ASSUME TypeInv, UNCHANGED srvVars, NEW t \in Threads,
           NEW chan \in {"none", "own"}, NEW l \in {"idle", "subwait"},
           AddSubscription(t, chan, l)
    PROVE  TypeInv'
<1> USE BoundsAssumption DEF TypeInv, TypeOK, CliTypeOK
<1>1. subSeqNum' = subSeqNum + 1 /\ subSeqNum' \in Sids
  BY DEF AddSubscription, ConnTypeOK, Sids
<1>2. ConnTypeOK'
  BY <1>1 DEF AddSubscription, ConnTypeOK, Sids
<1>3. Await(t, l, subSeqNum') \/ Return(t)
  BY DEF AddSubscription
<1>4. ThreadTypeOK' /\ (\A u \in Threads : pc'[u] = "login" => pc[u] = "login")
  BY <1>1, <1>3, AwaitType DEF ThreadStates, Sids
<1>5. ChanTypeOK'
  BY <1>1 DEF ChanTypeOK, AddSubscription, Subscription, Subscriptions
<1>6. NetTypeOK'
  <2>1. <<Msg("subscribe", 0, subSeqNum', TRUE)>> \in Seq(Msgs)
    <3>1. subSeqNum' \in Nat /\ 0 \in Nat /\ TRUE \in BOOLEAN
      BY <1>1 DEF Sids
    <3>2. "subscribe" \in OpCodes
      BY DEF OpCodes
    <3> QED  BY ONLY <3>1, <3>2, MsgType
  <2> QED  BY <2>1, WrittenType DEF NetTypeOK, AddSubscription
<1>7. HasSocket'
  BY <1>4 DEF HasSocket, AddSubscription, dispVars
<1> QED  BY <1>2, <1>4, <1>5, <1>6, <1>7, TypeFrame DEF AddSubscription, LockTypeOK

\* The messages that UnsubscribeAll and connect() send.
LEMMA SubsListing ==
    ASSUME ConnTypeOK, NEW order \in Listings(subs), NEW op \in OpCodes
    PROVE  SubMsgs(op, order) \in Seq(Msgs)
<1>1. subs \in SUBSET Nat /\ subs \in SUBSET (1..MaxSub)
  BY BoundsAssumption DEF ConnTypeOK, Sids
<1>2. IsFiniteSet(1..MaxSub)
  BY BoundsAssumption, FS_Interval
<1>3. Cardinality(subs) \in Nat
  BY ONLY <1>1, <1>2, FS_Subset, FS_CardinalityType
<1> QED  BY <1>1, <1>3, SubMsgsType DEF Listings

LEMMA ResendableListing ==
    ASSUME ConnTypeOK, NEW S \in SUBSET Resendable, NEW again \in Ascending(S)
    PROVE  PubMsgs(again) \in Seq(Msgs)
<1>1. S \in SUBSET pubs /\ pubs \in SUBSET (1..MaxPub)
  BY DEF ConnTypeOK, Pubs, Resendable
<1>2. IsFiniteSet(1..MaxPub)
  BY BoundsAssumption, FS_Interval
<1>3. Cardinality(S) \in Nat
  BY ONLY <1>1, <1>2, FS_Subset, FS_CardinalityType
<1>4. S \in SUBSET Nat
  BY <1>1, BoundsAssumption
<1> QED  BY <1>3, <1>4, PubMsgsType DEF Ascending

LEMMA NotifyType ==
    ASSUME ConnTypeOK, sub \in [Sids -> Subscriptions], NEW i, Notify(i)
    PROVE  sub' \in [Sids -> Subscriptions]
<1>1. CASE i \in subs /\ sub[i].chan = "own"
  <2>1. i \in Sids
    BY <1>1 DEF ConnTypeOK
  <2>2. [sub[i] EXCEPT !.queued = 1] \in Subscriptions
    BY <2>1 DEF Subscriptions
  <2>3. sub' = [sub EXCEPT ![i] = [sub[i] EXCEPT !.queued = 1]]
    BY <1>1 DEF Notify
  <2> QED  BY <2>2, <2>3
<1>2. CASE ~(i \in subs /\ sub[i].chan = "own")
  BY <1>2 DEF Notify
<1> QED  BY <1>1, <1>2

LEMMA TypeThread ==
    ASSUME TypeInv, NEW t \in Threads, UNCHANGED srvVars,
           CallStep(t) \/ DrainStep(t) \/ MethodStep(t)
    PROVE  TypeInv'
<1> USE MaxConnAssumption, BoundsAssumption, ThreadsAssumption
    DEF TypeInv, TypeOK, CliTypeOK
<1>1. CASE \E op \in Methods : Call(t, op)
  <2>1. ThreadTypeOK'
    BY <1>1 DEF Call, Goto, Return, ThreadTypeOK, ThreadStates, Methods, NeedConnection, PublishOps, SubscribeOps
  <2>2. HasSocket'
    BY <1>1 DEF Call, Goto, HasSocket, connVars, dispVars, ThreadTypeOK, Methods,
      NeedConnection, PublishOps, SubscribeOps
  <2> QED  BY <1>1, <2>1, <2>2, TypeFrame DEF Call, Goto, Return
<1>2. CASE \E i \in Sids : CallUnsubscribe(t, i)
  <2> PICK i \in Sids : CallUnsubscribe(t, i)
    BY <1>2
  <2>1. ThreadTypeOK'
    BY DEF CallUnsubscribe, Goto, ThreadTypeOK, ThreadStates, Methods,
      NeedConnection, Sids
  <2>2. ChanTypeOK'
    <3>1. [sub[i] EXCEPT !.held = FALSE] \in Subscriptions
      BY DEF ChanTypeOK, Subscriptions
    <3> QED  BY <3>1 DEF CallUnsubscribe, ChanTypeOK
  <2>3. HasSocket'
    BY DEF CallUnsubscribe, Goto, HasSocket, ThreadTypeOK, connVars, dispVars
  <2> QED  BY <2>1, <2>2, <2>3, TypeFrame DEF CallUnsubscribe
<1>3. CASE NotConnected(t)
  <2>1. ThreadTypeOK'
    BY <1>3 DEF NotConnected, Goto, Return, ThreadTypeOK, ThreadStates, Methods, NeedConnection, PublishOps, SubscribeOps
  <2>2. HasSocket'
    BY <1>3 DEF NotConnected, Goto, Return, HasSocket, Ws, Dispatchers, ConnTypeOK, ThreadTypeOK, DispTypeOK, connVars, threadVars, dispVars
  <2> QED  BY <1>3, <2>1, <2>2, TypeFrame DEF NotConnected, Goto, Return
<1>4. CASE IsConnected(t)
  <2>1. ThreadTypeOK'
    BY <1>4 DEF IsConnected, Goto, Return, ThreadTypeOK, ThreadStates, Methods, NeedConnection, PublishOps, SubscribeOps
  <2>2. HasSocket'
    BY <1>4 DEF IsConnected, Goto, Return, HasSocket, Ws, Dispatchers, ConnTypeOK, ThreadTypeOK, DispTypeOK, connVars, threadVars, dispVars
  <2> QED  BY <1>4, <2>1, <2>2, TypeFrame DEF IsConnected, Goto, Return
<1>5. CASE Publish(t)
  BY <1>5, RegisterType DEF Publish
<1>6. CASE PublishAsync(t)
  BY <1>6, RegisterType DEF PublishAsync
<1>7. CASE PublishDone(t)
  <2>1. ThreadTypeOK'
    BY <1>7 DEF PublishDone, Goto, Return, ThreadTypeOK, ThreadStates, Methods, NeedConnection, PublishOps, SubscribeOps
  <2>2. HasSocket'
    BY <1>7 DEF PublishDone, Goto, Return, HasSocket, Ws, Dispatchers, ConnTypeOK, ThreadTypeOK, DispTypeOK, connVars, threadVars, dispVars
  <2> QED  BY <1>7, <2>1, <2>2, TypeFrame DEF PublishDone, Goto, Return
<1>8. CASE PublishTimeout(t)
  <2>1. ThreadTypeOK'
    BY <1>8 DEF PublishTimeout, Goto, Return, ThreadTypeOK, ThreadStates, Methods, NeedConnection, PublishOps, SubscribeOps
  <2>2. HasSocket'
    BY <1>8 DEF PublishTimeout, Goto, Return, HasSocket, Ws, Dispatchers, ConnTypeOK, ThreadTypeOK, DispTypeOK, connVars, threadVars, dispVars
  <2> QED  BY <1>8, <2>1, <2>2, TypeFrame DEF PublishTimeout, Goto, Return
<1>9. CASE Subscribe(t)
  BY <1>9, AddSubscriptionType DEF Subscribe
<1>10. CASE SubscribeAsync(t)
  BY <1>10, AddSubscriptionType DEF SubscribeAsync
<1>11. CASE SubscribeDone(t)
  <2>1. ThreadTypeOK'
    BY <1>11 DEF SubscribeDone, Goto, Return, ThreadTypeOK, ThreadStates, Methods, NeedConnection, PublishOps, SubscribeOps
  <2>2. ChanTypeOK'
    <3> DEFINE i == arg[t]
               s == [sub[i] EXCEPT !.queued = 0, !.held = TRUE]
    <3>1. CASE i \in Sids
      <4>1. s \in Subscriptions
        <5>1. sub[i] \in Subscriptions
          BY <3>1 DEF ChanTypeOK
        <5>2. [sub[i] EXCEPT !.queued = 0] \in Subscriptions
          BY <5>1 DEF Subscriptions
        <5>3. \A r \in Subscriptions : [r EXCEPT !.held = TRUE] \in Subscriptions
          BY DEF Subscriptions
        <5> QED  BY ONLY <5>2, <5>3
      <4>2. sub' = [sub EXCEPT ![i] = s]
        BY <1>11 DEF SubscribeDone
      <4> QED  BY <1>11, <4>1, <4>2 DEF SubscribeDone, ChanTypeOK
    <3>2. CASE i \notin Sids
      <4>1. sub' = sub
        BY <1>11, <3>2 DEF SubscribeDone, ChanTypeOK
      <4> QED  BY <1>11, <4>1 DEF SubscribeDone, ChanTypeOK
    <3> QED  BY <3>1, <3>2
  <2>3. HasSocket'
    BY <1>11 DEF SubscribeDone, Goto, Return, HasSocket, Ws, Dispatchers, ConnTypeOK, ThreadTypeOK, DispTypeOK, connVars, threadVars, dispVars
  <2> QED  BY <1>11, <2>1, <2>2, <2>3, TypeFrame DEF SubscribeDone, Goto, Return
<1>12. CASE SubscribeTimeout(t)
  <2>1. ThreadTypeOK'
    BY <1>12 DEF SubscribeTimeout, Goto, Return, ThreadTypeOK, ThreadStates, Methods, NeedConnection, PublishOps, SubscribeOps
  <2>2. HasSocket'
    BY <1>12 DEF SubscribeTimeout, Goto, Return, HasSocket, Ws, Dispatchers, ConnTypeOK, ThreadTypeOK, DispTypeOK, connVars, threadVars, dispVars
  <2> QED  BY <1>12, <2>1, <2>2, TypeFrame DEF SubscribeTimeout, Goto, Return
<1>13. CASE Unsubscribe(t)
  <2>1. ConnTypeOK'
    BY <1>13 DEF Unsubscribe, Goto, Return, ConnTypeOK, Pubs, Sids, Ws
  <2>2. ThreadTypeOK'
    BY <1>13 DEF Unsubscribe, Goto, Return, ThreadTypeOK, ThreadStates, Methods, NeedConnection, PublishOps, SubscribeOps
  <2>3. NetTypeOK'
    <3>1. <<Msg("unsubscribe", 0, arg[t], TRUE)>> \in Seq(Msgs)
      BY MsgType DEF OpCodes, ThreadTypeOK
    <3> QED  BY <1>13, <3>1, SendType DEF Unsubscribe, NetTypeOK
  <2>4. HasSocket'
    BY <1>13 DEF Unsubscribe, Goto, Return, HasSocket, Ws, Dispatchers, ConnTypeOK, ThreadTypeOK, DispTypeOK, connVars, threadVars, dispVars
  <2> QED  BY <1>13, <2>1, <2>2, <2>3, <2>4, TypeFrame DEF Unsubscribe, Goto, Return
<1>14. CASE UnsubscribeAll(t)
  <2>1. ConnTypeOK'
    BY <1>14 DEF UnsubscribeAll, Goto, Return, ConnTypeOK, Pubs, Sids, Ws
  <2>2. ThreadTypeOK'
    BY <1>14 DEF UnsubscribeAll, Goto, Return, ThreadTypeOK, ThreadStates, Methods, NeedConnection, PublishOps, SubscribeOps
  <2>3. NetTypeOK'
    <3>1. PICK order \in Listings(subs) :
            c2s' = Written(c2s, ws, SubMsgs("unsubscribe", order))
      BY <1>14 DEF UnsubscribeAll
    <3>2. SubMsgs("unsubscribe", order) \in Seq(Msgs)
      BY SubsListing DEF OpCodes
    <3> QED  BY <1>14, <3>1, <3>2, SendType DEF UnsubscribeAll, NetTypeOK
  <2>4. HasSocket'
    BY <1>14 DEF UnsubscribeAll, Goto, Return, HasSocket, Ws, Dispatchers, ConnTypeOK, ThreadTypeOK, DispTypeOK, connVars, threadVars, dispVars
  <2> QED  BY <1>14, <2>1, <2>2, <2>3, <2>4, TypeFrame DEF UnsubscribeAll, Goto, Return
<1>15. CASE ReconnectNoop(t)
  <2>1. ThreadTypeOK'
    BY <1>15 DEF ReconnectNoop, Goto, Return, ThreadTypeOK, ThreadStates, Methods, NeedConnection, PublishOps, SubscribeOps
  <2>2. HasSocket'
    BY <1>15 DEF ReconnectNoop, Goto, Return, HasSocket, Ws, Dispatchers, ConnTypeOK, ThreadTypeOK, DispTypeOK, connVars, threadVars, dispVars
  <2> QED  BY <1>15, <2>1, <2>2, TypeFrame DEF ReconnectNoop, Goto, Return
<1>16. CASE DialFail(t)
  <2>1. ThreadTypeOK'
    BY <1>16 DEF DialFail, Goto, Return, ThreadTypeOK, ThreadStates, Methods, NeedConnection, PublishOps, SubscribeOps
  <2>2. HasSocket'
    BY <1>16 DEF DialFail, Goto, Return, HasSocket, Ws, Dispatchers, ConnTypeOK, ThreadTypeOK, DispTypeOK, connVars, threadVars, dispVars
  <2> QED  BY <1>16, <2>1, <2>2, TypeFrame DEF DialFail, Goto, Return
<1>17. CASE Dial(t)
  <2>1. ConnTypeOK'
    BY <1>17 DEF Dial, Goto, Return, ConnTypeOK, Pubs, Sids, Ws
  <2>2. LockTypeOK'
    BY <1>17 DEF Dial, Goto, Return, LockTypeOK, Ws, Dispatchers, Free
  <2>3. ThreadTypeOK'
    BY <1>17 DEF Dial, Goto, Return, ThreadTypeOK, ThreadStates, Methods, NeedConnection, PublishOps, SubscribeOps
  <2>4. NetTypeOK'
    <3>1. <<Msg("login", reconnectID, 0, TRUE)>> \in Seq(Msgs)
      BY MsgType DEF OpCodes, ConnTypeOK
    <3> QED  BY <1>17, <3>1 DEF Dial, NetTypeOK, WsStates
  <2>5. HasSocket'
    BY <1>17 DEF Dial, Goto, Return, HasSocket, Ws, Dispatchers, ConnTypeOK, ThreadTypeOK, DispTypeOK, connVars, threadVars, dispVars
  <2> QED  BY <1>17, <2>1, <2>2, <2>3, <2>4, <2>5, TypeFrame DEF Dial, Goto, Return
<1>18. CASE LoginFail(t)
  <2>1. LockTypeOK'
    BY <1>18 DEF LoginFail, Goto, Return, LockTypeOK, Ws, Dispatchers, Free
  <2>2. ThreadTypeOK'
    BY <1>18 DEF LoginFail, Goto, Return, ThreadTypeOK, ThreadStates, Methods, NeedConnection, PublishOps, SubscribeOps
  <2>3. NetTypeOK'
    BY <1>18 DEF LoginFail, Goto, Return, NetTypeOK, Ws, WsStates, Dispatchers
  <2>4. HasSocket'
    BY <1>18 DEF LoginFail, Goto, Return, HasSocket, Ws, Dispatchers, ConnTypeOK, ThreadTypeOK, DispTypeOK, connVars, threadVars, dispVars
  <2> QED  BY <1>18, <2>1, <2>2, <2>3, <2>4, TypeFrame DEF LoginFail, Goto, Return
<1>19. CASE Welcome(t)
  <2> DEFINE m == Head(s2c[ws])
  <2>1. ws \in Ws /\ m \in Msgs /\ Tail(s2c[ws]) \in Seq(Msgs)
    BY <1>19, HeadTailProperties DEF Welcome, HasSocket, NetTypeOK
  <2>2. PICK order \in Listings(subs) :
          \E again \in Ascending(IF m.ok THEN Resendable ELSE {}) :
              c2s' = Written(c2s, ws, SubMsgs("subscribe", order) \o PubMsgs(again))
    BY <1>19 DEF Welcome
  <2>3. ConnTypeOK'
    BY <1>19, <2>1, <2>2 DEF Welcome, LastSeqFor, ConnTypeOK, Msgs
  <2>4. LockTypeOK' /\ ThreadTypeOK'
    BY <1>19 DEF Welcome, Return, Goto, LockTypeOK, Free, ThreadTypeOK, ThreadStates
  <2>5. DispTypeOK'
    BY <1>19 DEF Welcome, DispTypeOK, DispStates
  <2>6. NetTypeOK'
    <3>1. SubMsgs("subscribe", order) \in Seq(Msgs)
      BY SubsListing DEF OpCodes
    <3>2. c2s' \in [Ws -> Seq(Msgs)]
      <4>1. PICK again \in Ascending(IF m.ok THEN Resendable ELSE {}) :
              c2s' = Written(c2s, ws, SubMsgs("subscribe", order) \o PubMsgs(again))
        BY <2>2
      <4>2. PubMsgs(again) \in Seq(Msgs)
        BY ResendableListing
      <4>3. SubMsgs("subscribe", order) \o PubMsgs(again) \in Seq(Msgs)
        BY <3>1, <4>2, ConcatProperties
      <4> QED  BY <4>1, <4>3, WrittenType DEF NetTypeOK
    <3> QED  BY <1>19, <2>1, <3>2 DEF Welcome, NetTypeOK
  <2>7. HasSocket'
    BY <1>19, <2>1 DEF Welcome, Return, Goto, HasSocket, ThreadTypeOK, DispTypeOK
  <2> QED  BY <1>19, <2>3, <2>4, <2>5, <2>6, <2>7, TypeFrame DEF Welcome
<1>20. CASE Disconnect(t)
  <2>1. ConnTypeOK'
    BY <1>20 DEF Disconnect, Goto, Return, ConnTypeOK, Pubs, Sids, Ws
  <2>2. ThreadTypeOK'
    BY <1>20 DEF Disconnect, Goto, Return, ThreadTypeOK, ThreadStates, Methods, NeedConnection, PublishOps, SubscribeOps
  <2>3. NetTypeOK'
    <3>1. <<Msg("disconnect", 0, 0, TRUE)>> \in Seq(Msgs)
      BY MsgType DEF OpCodes
    <3>2. wsState' \in [Ws -> WsStates]
      BY <1>20 DEF Disconnect, NetTypeOK, WsStates
    <3> QED  BY <1>20, <3>1, <3>2, SendType DEF Disconnect, NetTypeOK
  <2>4. HasSocket'
    BY <1>20 DEF Disconnect, Goto, Return, HasSocket, Ws, Dispatchers, ConnTypeOK, ThreadTypeOK, DispTypeOK, connVars, threadVars, dispVars
  <2> QED  BY <1>20, <2>1, <2>2, <2>3, <2>4, TypeFrame DEF Disconnect, Goto, Return
<1>21. CASE WaitStart(t)
  <2>1. ThreadTypeOK'
    BY <1>21 DEF WaitStart, Goto, Return, ThreadTypeOK, ThreadStates, Methods, NeedConnection, PublishOps, SubscribeOps
  <2>2. HasSocket'
    BY <1>21 DEF WaitStart, Goto, Return, HasSocket, Ws, Dispatchers, ConnTypeOK, ThreadTypeOK, DispTypeOK, connVars, threadVars, dispVars
  <2> QED  BY <1>21, <2>1, <2>2, TypeFrame DEF WaitStart, Goto, Return
<1>25. CASE WaitEnd(t)
  <2>1. ThreadTypeOK'
    BY <1>25 DEF WaitEnd, Goto, Return, ThreadTypeOK, ThreadStates, Methods, NeedConnection, PublishOps, SubscribeOps
  <2>2. HasSocket'
    BY <1>25 DEF WaitEnd, Goto, Return, HasSocket, Ws, Dispatchers, ConnTypeOK, ThreadTypeOK, DispTypeOK, connVars, threadVars, dispVars
  <2> QED  BY <1>25, <2>1, <2>2, TypeFrame DEF WaitEnd, Goto, Return
<1>22. CASE RecvError(t)
  <2>1. ChanTypeOK'
    BY <1>22 DEF RecvError, Recv, Goto, Return, ChanTypeOK, Pubs, Sids, Completions, Subscriptions
  <2> QED  BY <1>22, <2>1, TypeFrame DEF RecvError, Recv, Goto, Return
<1>23. CASE RecvMessage(t)
  <2>1. ChanTypeOK'
    BY <1>23 DEF RecvMessage, Recv, Goto, Return, ChanTypeOK, Pubs, Sids, Completions, Subscriptions
  <2> QED  BY <1>23, <2>1, TypeFrame DEF RecvMessage, Recv, Goto, Return
<1>24. CASE RecvCompletion(t)
  <2>1. ChanTypeOK'
    BY <1>24 DEF RecvCompletion, Recv, Goto, Return, ChanTypeOK, Pubs, Sids, Completions, Subscriptions
  <2> QED  BY <1>24, <2>1, TypeFrame DEF RecvCompletion, Recv, Goto, Return
<1> QED  BY <1>1, <1>2, <1>3, <1>4, <1>5, <1>6, <1>7, <1>8, <1>9, <1>10, <1>11, <1>12, <1>13, <1>14, <1>15, <1>16, <1>17, <1>18, <1>19, <1>20, <1>21, <1>22, <1>23, <1>24, <1>25
  DEF CallStep, DrainStep, MethodStep

LEMMA TypeDispatch ==
    ASSUME TypeInv, NEW k \in Dispatchers, UNCHANGED srvVars, DispatchStep(k)
    PROVE  TypeInv'
<1> USE MaxConnAssumption, BoundsAssumption, ThreadsAssumption
    DEF TypeInv, TypeOK, CliTypeOK
<1>1. CASE ReadTop(k)
  <2>1. DispTypeOK'
    BY <1>1 DEF ReadTop, Step, DispTypeOK, DispStates, Dispatchers, Ws, ConnTypeOK
  <2>2. HasSocket'
    BY <1>1 DEF ReadTop, Step, HasSocket, Ws, Dispatchers, ConnTypeOK, ThreadTypeOK, DispTypeOK, connVars, threadVars, dispVars
  <2> QED  BY <1>1, <2>1, <2>2, TypeFrame DEF ReadTop, Step
<1>2. CASE ReadMsg(k)
  <2>1. /\ rd[k] \in Ws
        /\ Head(s2c[rd[k]]) \in Msgs
        /\ Tail(s2c[rd[k]]) \in Seq(Msgs)
    BY <1>2, HeadTailProperties DEF ReadMsg, HasSocket, NetTypeOK
  <2>2. DispTypeOK'
    <3>1. CASE Head(s2c[rd[k]]).op \in Handled
      BY <1>2, <2>1, <3>1 DEF ReadMsg, Step, DispTypeOK, DispStates
    <3>2. CASE Head(s2c[rd[k]]).op \notin Handled
      <4>1. /\ dpc' = [dpc EXCEPT ![k] = "top"]
            /\ rd' = [rd EXCEPT ![k] = 0]
            /\ UNCHANGED <<cur, todo>>
        BY <1>2, <3>2 DEF ReadMsg, Step
      <4>2. 0 \in 0..MaxConn /\ "top" \in DispStates
        BY DEF DispStates
      <4> QED  BY ONLY <4>1, <4>2, DispTypeOK, k \in Dispatchers DEF DispTypeOK
    <3> QED  BY <3>1, <3>2
  <2>3. NetTypeOK'
    BY <1>2, <2>1 DEF ReadMsg, NetTypeOK
  <2>4. HasSocket'
    BY <1>2, <2>1 DEF ReadMsg, Step, HasSocket, DispTypeOK, connVars, threadVars
  <2> QED  BY <1>2, <2>2, <2>3, <2>4, TypeFrame DEF ReadMsg
<1>3. CASE ReadErr(k)
  <2>1. DispTypeOK'
    BY <1>3 DEF ReadErr, Step, DispTypeOK, DispStates, Dispatchers, Ws
  <2>2. NetTypeOK'
    BY <1>3 DEF ReadErr, Step, NetTypeOK, Ws, WsStates, Dispatchers, HasSocket
  <2>3. HasSocket'
    BY <1>3 DEF ReadErr, Step, HasSocket, Ws, Dispatchers, ConnTypeOK, ThreadTypeOK, DispTypeOK, connVars, threadVars, dispVars
  <2> QED  BY <1>3, <2>1, <2>2, <2>3, TypeFrame DEF ReadErr, Step
<1>4. CASE Lock(k)
  <2>1. LockTypeOK'
    BY <1>4 DEF Lock, Step, LockTypeOK, Ws, Dispatchers, Free
  <2>2. DispTypeOK'
    BY <1>4 DEF Lock, Step, DispTypeOK, DispStates, Dispatchers, Ws
  <2>3. HasSocket'
    BY <1>4 DEF Lock, Step, HasSocket, Ws, Dispatchers, ConnTypeOK, ThreadTypeOK, DispTypeOK, connVars, threadVars, dispVars
  <2> QED  BY <1>4, <2>1, <2>2, <2>3, TypeFrame DEF Lock, Step
<1>5. CASE HandleHeartbeat(k)
  <2>1. LockTypeOK'
    BY <1>5 DEF HandleHeartbeat, Handles, Unlock, Step, LockTypeOK, Ws, Dispatchers, Free
  <2>2. DispTypeOK'
    BY <1>5, NoMsgType DEF HandleHeartbeat, Handles, Unlock, Step, DispTypeOK, DispStates, Dispatchers, Ws
  <2>3. NetTypeOK'
    <3>1. <<cur[k]>> \in Seq(Msgs)
      BY DEF DispTypeOK
    <3> QED  BY <1>5, <3>1, SendType DEF HandleHeartbeat, NetTypeOK
  <2>4. HasSocket'
    BY <1>5 DEF HandleHeartbeat, Handles, Unlock, Step, HasSocket, Ws, Dispatchers, ConnTypeOK, ThreadTypeOK, DispTypeOK, connVars, threadVars, dispVars
  <2> QED  BY <1>5, <2>1, <2>2, <2>3, <2>4, TypeFrame DEF HandleHeartbeat, Handles, Unlock, Step
<1>6. CASE HandleMessage(k)
  <2>1. ConnTypeOK'
    BY <1>6 DEF HandleMessage, Handles, Unlock, IsNew, Sends, Step, ConnTypeOK, Pubs, Sids, Ws, DispTypeOK, Dispatchers, Msgs
  <2>2. LockTypeOK'
    BY <1>6 DEF HandleMessage, Handles, Unlock, IsNew, Sends, Step, LockTypeOK, Ws, Dispatchers, Free
  <2>3. DispTypeOK'
    BY <1>6, NoMsgType DEF HandleMessage, Handles, Unlock, IsNew, Sends, Step, DispTypeOK, DispStates, Dispatchers, Ws
  <2>4. ChanTypeOK'
    BY <1>6 DEF HandleMessage, Handles, Unlock, IsNew, Sends, Step, ChanTypeOK, Pubs, Sids, Completions, Subscriptions
  <2>5. HistTypeOK'
    <3>1. <<sessOf[rd[k]], cur[k].n>> \in Nat \X Nat
      BY <1>6 DEF HandleMessage, Handles, HasSocket, SrvTypeOK, DispTypeOK, Msgs
    <3>2. Append(delivered, <<sessOf[rd[k]], cur[k].n>>) \in Seq(Nat \X Nat)
      BY <3>1, AppendProperties DEF HistTypeOK
    <3> QED  BY <1>6, <3>1, <3>2 DEF HandleMessage, HistTypeOK
  <2>6. NetTypeOK'
    BY <1>6, WrittenType, MsgType DEF HandleMessage, Handles, Unlock, IsNew, Sends, Step, NetTypeOK, Ws, WsStates, Dispatchers, ConnTypeOK, DispTypeOK, Msgs, OpCodes
  <2>7. HasSocket'
    BY <1>6 DEF HandleMessage, Handles, Unlock, IsNew, Sends, Step, HasSocket, Ws, Dispatchers, ConnTypeOK, ThreadTypeOK, DispTypeOK, connVars, threadVars, dispVars
  <2> QED  BY <1>6, <2>1, <2>2, <2>3, <2>4, <2>5, <2>6, <2>7, TypeFrame DEF HandleMessage, Handles, Unlock, IsNew, Sends, Step
<1>7. CASE HandleSubscribed(k)
  <2>1. LockTypeOK'
    BY <1>7 DEF HandleSubscribed, Handles, Unlock, Notify, Step, LockTypeOK, Ws, Dispatchers, Free
  <2>2. DispTypeOK'
    BY <1>7, NoMsgType DEF HandleSubscribed, Handles, Unlock, Notify, Step, DispTypeOK, DispStates, Dispatchers, Ws
  <2>3. ChanTypeOK'
    BY <1>7, NotifyType DEF HandleSubscribed, ChanTypeOK
  <2>4. HasSocket'
    BY <1>7 DEF HandleSubscribed, Handles, Unlock, Notify, Step, HasSocket, Ws, Dispatchers, ConnTypeOK, ThreadTypeOK, DispTypeOK, connVars, threadVars, dispVars
  <2> QED  BY <1>7, <2>1, <2>2, <2>3, <2>4, TypeFrame DEF HandleSubscribed, Handles, Unlock, Notify, Step
<1>8. CASE HandleUnsubscribed(k)
  <2>1. ConnTypeOK'
    BY <1>8 DEF HandleUnsubscribed, Handles, Unlock, Notify, Step, ConnTypeOK, Pubs, Sids, Ws
  <2>2. LockTypeOK'
    BY <1>8 DEF HandleUnsubscribed, Handles, Unlock, Notify, Step, LockTypeOK, Ws, Dispatchers, Free
  <2>3. DispTypeOK'
    BY <1>8, NoMsgType DEF HandleUnsubscribed, Handles, Unlock, Notify, Step, DispTypeOK, DispStates, Dispatchers, Ws
  <2>4. ChanTypeOK'
    BY <1>8, NotifyType DEF HandleUnsubscribed, ChanTypeOK
  <2>5. HasSocket'
    BY <1>8 DEF HandleUnsubscribed, Handles, Unlock, Notify, Step, HasSocket, Ws, Dispatchers, ConnTypeOK, ThreadTypeOK, DispTypeOK, connVars, threadVars, dispVars
  <2> QED  BY <1>8, <2>1, <2>2, <2>3, <2>4, <2>5, TypeFrame DEF HandleUnsubscribed, Handles, Unlock, Notify, Step
<1>9. CASE HandleAck(k)
  <2>1. ConnTypeOK'
    BY <1>9 DEF HandleAck, Handles, Step, ConnTypeOK, Pubs, Sids, Ws
  <2>2. DispTypeOK'
    BY <1>9 DEF HandleAck, Handles, Step, DispTypeOK, DispStates, Dispatchers, Ws, ConnTypeOK
  <2>3. HasSocket'
    BY <1>9 DEF HandleAck, Handles, Step, HasSocket, Ws, Dispatchers, ConnTypeOK, ThreadTypeOK, DispTypeOK, connVars, threadVars, dispVars
  <2> QED  BY <1>9, <2>1, <2>2, <2>3, TypeFrame DEF HandleAck, Handles, Step
<1>10. CASE HandleDisconnect(k)
  <2>1. ConnTypeOK'
    BY <1>10 DEF HandleDisconnect, Step, ConnTypeOK, Pubs, Sids, Ws
  <2>2. LockTypeOK'
    BY <1>10 DEF HandleDisconnect, Step, LockTypeOK, Ws, Dispatchers, Free
  <2>3. DispTypeOK'
    BY <1>10 DEF HandleDisconnect, Step, DispTypeOK, DispStates, Dispatchers, Ws
  <2>4. NetTypeOK'
    BY <1>10 DEF HandleDisconnect, Step, NetTypeOK, Ws, WsStates, Dispatchers
  <2>5. HasSocket'
    BY <1>10 DEF HandleDisconnect, Step, HasSocket, Ws, Dispatchers, ConnTypeOK, ThreadTypeOK, DispTypeOK, connVars, threadVars, dispVars
  <2> QED  BY <1>10, <2>1, <2>2, <2>3, <2>4, <2>5, TypeFrame DEF HandleDisconnect, Step
<1>11. CASE SendError(k)
  <2>1. ConnTypeOK'
    BY <1>11 DEF SendError, Step, ConnTypeOK, Pubs, Sids, Ws
  <2>2. DispTypeOK'
    BY <1>11 DEF SendError, Step, DispTypeOK, DispStates, Dispatchers, Ws, ConnTypeOK
  <2>3. ChanTypeOK'
    BY <1>11 DEF SendError, Step, ChanTypeOK, Pubs, Sids, Completions, Subscriptions
  <2>4. HasSocket'
    BY <1>11 DEF SendError, Step, HasSocket, Ws, Dispatchers, ConnTypeOK, ThreadTypeOK, DispTypeOK, connVars, threadVars, dispVars
  <2> QED  BY <1>11, <2>1, <2>2, <2>3, <2>4, TypeFrame DEF SendError, Step
<1>12. CASE Complete(k)
  <2>1. DispTypeOK'
    BY <1>12 DEF Complete, Step, DispTypeOK, DispStates, Dispatchers, Ws
  <2>2. ChanTypeOK'
    <3>1. PICK n \in todo[k] :
            /\ comp[n].chan = "app" => compLen < CompCap
            /\ compLen' = IF comp[n].chan = "app" THEN compLen + 1 ELSE compLen
            /\ comp' = [comp EXCEPT ![n].sent = Append(@, Outcome(k))]
      BY <1>12 DEF Complete
    <3>2. n \in Pubs /\ comp[n] \in Completions
      BY DEF DispTypeOK, ChanTypeOK
    <3>3. Append(comp[n].sent, Outcome(k)) \in Seq({"ok", "err"})
      BY <3>2, AppendProperties DEF Completions, Outcome
    <3>4. [comp[n] EXCEPT !.sent = Append(@, Outcome(k))] \in Completions
      BY <3>2, <3>3 DEF Completions
    <3>5. comp' \in [Pubs -> Completions]
      BY <3>1, <3>4 DEF ChanTypeOK
    <3>6. compLen' \in 0..CompCap
      BY <3>1 DEF ChanTypeOK
    <3>7. UNCHANGED <<errLen, msgLen, sub>>
      BY <1>12 DEF Complete
    <3> QED  BY <3>5, <3>6, <3>7 DEF ChanTypeOK
  <2>3. HasSocket'
    BY <1>12 DEF Complete, HasSocket, connVars, threadVars
  <2> QED  BY <1>12, <2>1, <2>2, <2>3, TypeFrame DEF Complete
<1>13. CASE AckDone(k)
  <2>1. LockTypeOK'
    BY <1>13 DEF AckDone, Unlock, Step, LockTypeOK, Ws, Dispatchers, Free
  <2>2. DispTypeOK'
    BY <1>13, NoMsgType DEF AckDone, Unlock, Step, DispTypeOK, DispStates, Dispatchers, Ws
  <2>3. HasSocket'
    BY <1>13 DEF AckDone, Unlock, Step, HasSocket, Ws, Dispatchers, ConnTypeOK, ThreadTypeOK, DispTypeOK, connVars, threadVars, dispVars
  <2> QED  BY <1>13, <2>1, <2>2, <2>3, TypeFrame DEF AckDone, Unlock, Step
<1>14. CASE FailDone(k)
  <2>1. LockTypeOK'
    BY <1>14 DEF FailDone, Step, LockTypeOK, Ws, Dispatchers, Free
  <2>2. DispTypeOK'
    BY <1>14 DEF FailDone, Step, DispTypeOK, DispStates, Dispatchers, Ws
  <2>3. HasSocket'
    BY <1>14 DEF FailDone, Step, HasSocket, Ws, Dispatchers, ConnTypeOK, ThreadTypeOK, DispTypeOK, connVars, threadVars, dispVars
  <2> QED  BY <1>14, <2>1, <2>2, <2>3, TypeFrame DEF FailDone, Step
<1>15. CASE Exit(k)
  <2>1. ThreadTypeOK'
    BY <1>15 DEF Exit, Step, ThreadTypeOK, ThreadStates, Methods, NeedConnection, PublishOps, SubscribeOps
  <2>2. DispTypeOK'
    BY <1>15 DEF Exit, Step, DispTypeOK, DispStates, Dispatchers, Ws
  <2>3. HasSocket'
    BY <1>15 DEF Exit, Step, HasSocket, Ws, Dispatchers, ConnTypeOK, ThreadTypeOK, DispTypeOK, connVars, threadVars, dispVars
  <2> QED  BY <1>15, <2>1, <2>2, <2>3, TypeFrame DEF Exit, Step
<1> QED  BY <1>1, <1>2, <1>3, <1>4, <1>5, <1>6, <1>7, <1>8, <1>9, <1>10, <1>11, <1>12, <1>13, <1>14, <1>15
  DEF DispatchStep

\* What a resumed session re-delivers.
LEMMA RedeliveryType ==
    ASSUME NEW S \in SUBSET Msgs, IsFiniteSet(S), NEW again \in InSeqOrder(S)
    PROVE  again \in Seq(Msgs)
<1>1. Cardinality(S) \in Nat
  BY FS_CardinalityType
<1>2. again \in [1..Cardinality(S) -> Msgs]
  BY DEF InSeqOrder
<1> QED  BY <1>1, <1>2, FunIsSeq

LEMMA TypeLogin ==
    ASSUME NetTypeOK, SrvTypeOK, NEW w \in Ws, ServerLogin(w)
    PROVE  NetTypeOK' /\ SrvTypeOK'
<1>1. Head(c2s[w]) \in Msgs /\ Tail(c2s[w]) \in Seq(Msgs)
  BY HeadTailProperties DEF ServerLogin, NetTypeOK
<1>2. PICK resume \in BOOLEAN :
        LET s == IF resume THEN sess ELSE sess + 1
        IN  /\ sess' = s
            /\ sessOf' = [sessOf EXCEPT ![w] = s]
            /\ srvSubs' = IF resume THEN srvSubs ELSE {}
            /\ srvSeq' = IF resume THEN srvSeq ELSE 0
            /\ unacked' = IF resume THEN unacked ELSE {}
            /\ \E again \in InSeqOrder(unacked') :
                 s2c' = Written(s2c, w, <<Msg("welcome", s, 0, resume)>> \o again)
  BY DEF ServerLogin
<1>3. sess' \in Nat /\ sessOf' \in [Ws -> Nat] /\ srvSubs' \subseteq Nat /\ srvSeq' \in Nat
  BY <1>2 DEF SrvTypeOK
<1>4. unacked' \subseteq Msgs /\ IsFiniteSet(unacked')
  BY <1>2, FS_EmptySet DEF SrvTypeOK
<1>5. SrvTypeOK'
  BY <1>3, <1>4, MaxConnAssumption DEF ServerLogin, SrvTypeOK, Ws
<1>6. s2c' \in [Ws -> Seq(Msgs)]
  <2>1. PICK again \in InSeqOrder(unacked') :
          s2c' = Written(s2c, w, <<Msg("welcome", sess', 0, resume)>> \o again)
    BY <1>2
  <2>2. again \in Seq(Msgs)
    BY <1>4, RedeliveryType
  <2>3. <<Msg("welcome", sess', 0, resume)>> \in Seq(Msgs)
    BY <1>3, MsgType DEF OpCodes
  <2>4. <<Msg("welcome", sess', 0, resume)>> \o again \in Seq(Msgs)
    BY <2>2, <2>3, ConcatProperties
  <2> QED  BY <2>1, <2>4, WrittenType DEF NetTypeOK
<1>7. c2s' \in [Ws -> Seq(Msgs)]
  BY <1>1, EmptySeq DEF ServerLogin, NetTypeOK
<1> QED  BY <1>5, <1>6, <1>7 DEF ServerLogin, NetTypeOK

LEMMA ServerReadsType ==
    ASSUME NetTypeOK, NEW op, ServerReads(op)
    PROVE  /\ srvWs \in Ws
           /\ SrvHead \in Msgs
           /\ c2s' \in [Ws -> Seq(Msgs)]
  BY HeadTailProperties DEF ServerReads, SrvHead, NetTypeOK

LEMMA TypeEnv ==
    ASSUME NetTypeOK, SrvTypeOK, EnvNext
    PROVE  NetTypeOK' /\ SrvTypeOK'
<1> USE MaxConnAssumption, MaxPushAssumption
<1>1. CASE \E w \in Ws : ServerLogin(w)
  BY <1>1, TypeLogin
<1>2. CASE ServerPublish
  <2>1. srvWs \in Ws /\ SrvHead \in Msgs /\ c2s' \in [Ws -> Seq(Msgs)]
    BY <1>2, ServerReadsType DEF ServerPublish
  <2>2. PICK ok \in BOOLEAN :
          /\ accepted' = IF ok THEN accepted \cup {SrvHead.n} ELSE accepted
          /\ s2c' = Written(s2c, srvWs, <<Msg("ack", SrvHead.n, 0, ok)>>)
    BY <1>2 DEF ServerPublish
  <2>3. SrvHead.n \in Nat
    BY <2>1 DEF Msgs
  <2>4. <<Msg("ack", SrvHead.n, 0, ok)>> \in Seq(Msgs)
    BY <2>3, MsgType DEF OpCodes
  <2>5. NetTypeOK'
    BY <1>2, <2>1, <2>2, <2>4, WrittenType DEF ServerPublish, ServerReads, NetTypeOK
  <2> QED  BY <1>2, <2>2, <2>3, <2>5 DEF ServerPublish, ServerReads, SrvTypeOK
<1>3. CASE ServerSubscribe
  <2>1. srvWs \in Ws /\ SrvHead \in Msgs /\ c2s' \in [Ws -> Seq(Msgs)]
    BY <1>3, ServerReadsType DEF ServerSubscribe
  <2>2. SrvHead.sid \in Nat
    BY <2>1 DEF Msgs
  <2>3. /\ <<Msg("subscribed", 0, SrvHead.sid, TRUE)>> \in Seq(Msgs)
        /\ <<Msg("unsubscribed", 0, SrvHead.sid, FALSE)>> \in Seq(Msgs)
    BY <2>2, MsgType DEF OpCodes
  <2>4. srvSubs' \subseteq Nat
    BY <1>3, <2>2 DEF ServerSubscribe, SrvTypeOK
  <2>5. s2c' \in [Ws -> Seq(Msgs)]
    <3>1. PICK ms \in Seq(Msgs) : s2c' = Written(s2c, srvWs, ms)
      BY <1>3, <2>3 DEF ServerSubscribe
    <3> QED  BY <3>1, WrittenType DEF NetTypeOK
  <2> QED  BY <1>3, <2>1, <2>4, <2>5 DEF ServerSubscribe, ServerReads, NetTypeOK, SrvTypeOK
<1>4. CASE ServerUnsubscribe
  BY <1>4, ServerReadsType
  DEF ServerUnsubscribe, ServerReads, NetTypeOK, SrvTypeOK
<1>5. CASE ServerAck
  <2>1. SrvHead \in Msgs /\ c2s' \in [Ws -> Seq(Msgs)]
    BY <1>5, ServerReadsType DEF ServerAck
  <2>2. unacked' \in SUBSET unacked
    BY <1>5 DEF ServerAck
  <2>3. IsFiniteSet(unacked')
    BY <2>2, FS_Subset DEF SrvTypeOK
  <2>4. acked' \subseteq Nat \X Nat
    BY <1>5, <2>1 DEF ServerAck, SrvTypeOK, Msgs
  <2> QED  BY <1>5, <2>1, <2>2, <2>3, <2>4
    DEF ServerAck, ServerReads, NetTypeOK, SrvTypeOK
<1>6. CASE ServerIgnore
  BY <1>6, ServerReadsType
  DEF ServerIgnore, ServerReads, NetTypeOK, SrvTypeOK
<1>7. CASE \E sid \in srvSubs \cup {0} : ServerEvent(sid)
  <2>1. PICK sid \in srvSubs : ServerEvent(sid)
    BY <1>7 DEF ServerEvent
  <2> DEFINE m == Msg("event", srvSeq + 1, sid, TRUE)
  <2>2. sid \in Nat /\ srvSeq + 1 \in Nat
    BY DEF SrvTypeOK
  <2>3. m \in Msgs /\ <<m>> \in Seq(Msgs)
    BY <2>2, MsgType DEF OpCodes
  <2>4. unacked' = unacked \cup {m} /\ s2c' = Written(s2c, srvWs, <<m>>)
    BY <2>1 DEF ServerEvent
  <2> HIDE DEF m
  <2>5. unacked' \subseteq Msgs /\ IsFiniteSet(unacked')
    BY <2>3, <2>4, FS_AddElement DEF SrvTypeOK
  <2>6. /\ srvSeq' = srvSeq + 1
        /\ pushed' = pushed + 1
        /\ UNCHANGED <<wsState, c2s, srvWs, sess, sessOf, srvSubs, accepted, acked>>
    BY <2>1 DEF ServerEvent, CanPush
  <2>7. NetTypeOK'
    BY <2>3, <2>4, <2>6, WrittenType DEF NetTypeOK
  <2>8. SrvTypeOK'
    BY <2>2, <2>5, <2>6 DEF SrvTypeOK
  <2> QED  BY <2>7, <2>8
<1>8. CASE \E sid \in srvSubs \cup {0} :
             \E op \in {"event", "unsubscribed", "heartbeat", "error"} :
                ServerPush(op, sid)
  <2>1. PICK sid \in srvSubs \cup {0},
             op \in {"event", "unsubscribed", "heartbeat", "error"} :
                ServerPush(op, sid)
    BY <1>8
  <2>2. sid \in Nat /\ op \in OpCodes
    BY DEF SrvTypeOK, OpCodes
  <2>3. <<Msg(op, 0, sid, op # "unsubscribed")>> \in Seq(Msgs)
    BY <2>2, MsgType
  <2>4. NetTypeOK'
    BY <2>1, <2>3, WrittenType DEF ServerPush, NetTypeOK
  <2> QED  BY <2>1, <2>4 DEF ServerPush, CanPush, SrvTypeOK
<1> QED  BY <1>1, <1>2, <1>3, <1>4, <1>5, <1>6, <1>7, <1>8
  DEF EnvNext, ServerReply, ServerPushes

LEMMA TypeNext == TypeInv /\ [Next]_vars => TypeInv'
<1> SUFFICES ASSUME TypeInv, [Next]_vars PROVE TypeInv'
  OBVIOUS
<1>1. CASE ClientNext
  BY <1>1, TypeThread, TypeDispatch DEF ClientNext
<1>2. CASE EnvNext
  <2>1. NetTypeOK' /\ SrvTypeOK'
    BY <1>2, TypeEnv DEF TypeInv, TypeOK
  <2>2. UNCHANGED cliVars
    BY <1>2 DEF EnvNext
  <2> QED  BY <2>1, <2>2, TypeFrame DEF TypeInv, TypeOK, CliTypeOK, cliVars
<1>3. CASE BreakNext
  <2>1. NetTypeOK'
    BY <1>3, EmptySeq DEF BreakNext, Break, TypeInv, TypeOK, NetTypeOK, WsStates
  <2>2. UNCHANGED <<cliVars, srvVars>>
    BY <1>3 DEF BreakNext
  <2> QED  BY <2>1, <2>2, TypeFrame DEF TypeInv, TypeOK, CliTypeOK, cliVars
<1>4. CASE UNCHANGED vars
  BY <1>4, TypeFrame DEF TypeInv, TypeOK, CliTypeOK, vars, cliVars
<1> QED  BY <1>1, <1>2, <1>3, <1>4 DEF Next

\* Every variable of the client, the network and the server keeps its type,
\* and a connection is used only after it was dialed.
THEOREM TypeCorrect == Spec => []TypeInv
  BY TypeInit, TypeNext, PTL DEF Spec

-----------------------------------------------------------------------------
(* The properties. *)

ClientStep ==
    \/ \E t \in Threads : CallStep(t) \/ DrainStep(t) \/ MethodStep(t)
    \/ \E k \in Dispatchers : DispatchStep(k)

-----------------------------------------------------------------------------
(* The lock. *)

\* A step that leaves the lock and the dispatchers alone, and neither begins
\* nor ends a login.
LEMMA LockFrame ==
    ASSUME LockDiscipline, UNCHANGED <<mu, dpc>>,
           \A t \in Threads : pc'[t] = "login" <=> pc[t] = "login"
    PROVE  LockDiscipline'
  BY DEF LockDiscipline

\* The holder of the lock gives it up.
LEMMA ReleaseDiscipline ==
    ASSUME DispTypeOK, LockDiscipline, NEW k \in Dispatchers,
           dpc[k] \in Holding, mu' = Free,
           NEW l, l \notin Holding, Step(k, l), UNCHANGED pc
    PROVE  LockDiscipline'
<1> USE MaxConnAssumption DEF Dispatchers, Ws
<1>1. mu = k
  BY DEF LockDiscipline
<1>2. \A t \in Threads : t # Free /\ t # k
  BY ThreadsAssumption DEF Free
<1>3. \A t \in Threads : pc'[t] # "login"
  BY <1>1, <1>2 DEF LockDiscipline
<1>4. \A j \in Dispatchers : dpc'[j] \notin Holding
  BY <1>1 DEF LockDiscipline, Step, DispTypeOK
<1>5. \A j \in Dispatchers : Free # j
  BY DEF Free
<1> QED  BY <1>2, <1>3, <1>4, <1>5 DEF LockDiscipline

LEMMA LockThread ==
    ASSUME TypeInv, LockDiscipline, NEW t \in Threads,
           CallStep(t) \/ DrainStep(t) \/ MethodStep(t)
    PROVE  LockDiscipline'
<1> USE ThreadsAssumption, MaxConnAssumption
    DEF TypeInv, TypeOK, CliTypeOK, ThreadTypeOK, LockTypeOK, threadVars, dispVars
<1>1. CASE \E op \in Methods : Call(t, op)
  BY <1>1, LockFrame DEF Call, Goto, Methods, NeedConnection, PublishOps,
    SubscribeOps
<1>2. CASE \E i \in Sids : CallUnsubscribe(t, i)
  BY <1>2, LockFrame DEF CallUnsubscribe, Goto
<1>3. CASE NotConnected(t)
  BY <1>3, LockFrame DEF NotConnected, Goto, Return, NeedConnection, PublishOps, SubscribeOps
<1>4. CASE IsConnected(t)
  BY <1>4, LockFrame DEF IsConnected, Goto, Return
<1>5. CASE Publish(t)
  BY <1>5, LockFrame DEF Publish, Register, Await, Goto, Return
<1>6. CASE PublishAsync(t)
  BY <1>6, LockFrame DEF PublishAsync, Register, Await, Goto, Return
<1>7. CASE PublishDone(t)
  BY <1>7, LockFrame DEF PublishDone, Goto, Return
<1>8. CASE PublishTimeout(t)
  BY <1>8, LockFrame DEF PublishTimeout, Goto, Return
<1>9. CASE Subscribe(t)
  BY <1>9, LockFrame DEF Subscribe, AddSubscription, Await, Goto, Return
<1>10. CASE SubscribeAsync(t)
  BY <1>10, LockFrame DEF SubscribeAsync, AddSubscription, Await, Goto, Return
<1>11. CASE SubscribeDone(t)
  BY <1>11, LockFrame DEF SubscribeDone, Goto, Return
<1>12. CASE SubscribeTimeout(t)
  BY <1>12, LockFrame DEF SubscribeTimeout, Goto, Return
<1>13. CASE Unsubscribe(t)
  BY <1>13, LockFrame DEF Unsubscribe, Goto, Return
<1>14. CASE UnsubscribeAll(t)
  BY <1>14, LockFrame DEF UnsubscribeAll, Goto, Return
<1>15. CASE ReconnectNoop(t)
  BY <1>15, LockFrame DEF ReconnectNoop, Goto, Return
<1>16. CASE DialFail(t)
  BY <1>16, LockFrame DEF DialFail, Goto, Return
<1>17. CASE Dial(t)
  BY <1>17 DEF Dial, Goto, Return, LockDiscipline, Holding, Dispatchers, Ws, Free
<1>18. CASE LoginFail(t)
  BY <1>18 DEF LoginFail, Goto, Return, LockDiscipline, Holding, Dispatchers, Ws, Free
<1>19. CASE Welcome(t)
  <2>1. mu = t /\ ws \in Ws
    BY <1>19 DEF Welcome, LockDiscipline, HasSocket
  <2>2. \A u \in Threads : pc'[u] # "login" /\ u # Free
    BY <1>19, <2>1 DEF Welcome, Goto, Return, LockDiscipline, Free
  <2>3. \A j \in Dispatchers : dpc'[j] \notin Holding /\ j # Free
    <3>1. \A j \in Dispatchers : j # Free /\ j # t
      BY DEF Dispatchers, Ws, Free
    <3>2. \A j \in Dispatchers : dpc[j] \notin Holding
      BY <2>1, <3>1 DEF LockDiscipline
    <3>3. dpc' = [dpc EXCEPT ![ws] = "top"]
      BY <1>19 DEF Welcome
    <3>4. \A j \in Dispatchers : dpc'[j] \in {dpc[j], "top"}
      BY <3>3 DEF DispTypeOK
    <3> QED  BY <3>1, <3>2, <3>4 DEF Holding
  <2> QED  BY <1>19, <2>2, <2>3 DEF Welcome, LockDiscipline
<1>20. CASE Disconnect(t)
  BY <1>20, LockFrame DEF Disconnect, Goto, Return
<1>21. CASE WaitStart(t)
  BY <1>21, LockFrame DEF WaitStart, Goto, Return
<1>25. CASE WaitEnd(t)
  BY <1>25, LockFrame DEF WaitEnd, Goto, Return
<1>22. CASE RecvError(t)
  BY <1>22, LockFrame DEF RecvError, Recv, Goto, Return
<1>23. CASE RecvMessage(t)
  BY <1>23, LockFrame DEF RecvMessage, Recv, Goto, Return
<1>24. CASE RecvCompletion(t)
  BY <1>24, LockFrame DEF RecvCompletion, Recv, Goto, Return
<1> QED  BY <1>1, <1>2, <1>3, <1>4, <1>5, <1>6, <1>7, <1>8, <1>9, <1>10, <1>11, <1>12, <1>13, <1>14, <1>15, <1>16, <1>17, <1>18, <1>19, <1>20, <1>21, <1>22, <1>23, <1>24, <1>25
  DEF CallStep, DrainStep, MethodStep

LEMMA LockDispatch ==
    ASSUME TypeInv, LockDiscipline, NEW k \in Dispatchers, DispatchStep(k)
    PROVE  LockDiscipline'
<1> USE ThreadsAssumption, MaxConnAssumption
    DEF TypeInv, TypeOK, CliTypeOK, ThreadTypeOK, LockTypeOK, DispTypeOK, threadVars, dispVars,
        LockDiscipline, Holding, Dispatchers, Ws, Free, Step
<1>1. CASE ReadTop(k)
  BY <1>1 DEF ReadTop
<1>2. CASE ReadMsg(k)
  BY <1>2 DEF ReadMsg
<1>3. CASE ReadErr(k)
  BY <1>3 DEF ReadErr
<1>4. CASE Lock(k)
  BY <1>4 DEF Lock
<1>5. CASE HandleHeartbeat(k)
  <2>1. dpc[k] \in Holding /\ mu' = Free /\ Step(k, "top") /\ UNCHANGED pc
    BY ONLY <1>5 DEF HandleHeartbeat, Handles, Unlock, Holding, threadVars
  <2> QED  BY ONLY <2>1, ReleaseDiscipline, TypeInv, LockDiscipline, k \in Dispatchers
    DEF TypeInv, TypeOK, CliTypeOK, Holding
<1>6. CASE HandleMessage(k)
  <2>1. dpc[k] \in Holding /\ mu' = Free /\ Step(k, "top") /\ UNCHANGED pc
    BY ONLY <1>6 DEF HandleMessage, Handles, Unlock, Holding, threadVars
  <2> QED  BY ONLY <2>1, ReleaseDiscipline, TypeInv, LockDiscipline, k \in Dispatchers
    DEF TypeInv, TypeOK, CliTypeOK, Holding
<1>7. CASE HandleSubscribed(k)
  <2>1. dpc[k] \in Holding /\ mu' = Free /\ Step(k, "top") /\ UNCHANGED pc
    BY ONLY <1>7 DEF HandleSubscribed, Handles, Unlock, Holding, threadVars
  <2> QED  BY ONLY <2>1, ReleaseDiscipline, TypeInv, LockDiscipline, k \in Dispatchers
    DEF TypeInv, TypeOK, CliTypeOK, Holding
<1>8. CASE HandleUnsubscribed(k)
  <2>1. dpc[k] \in Holding /\ mu' = Free /\ Step(k, "top") /\ UNCHANGED pc
    BY ONLY <1>8 DEF HandleUnsubscribed, Handles, Unlock, Holding, threadVars
  <2> QED  BY ONLY <2>1, ReleaseDiscipline, TypeInv, LockDiscipline, k \in Dispatchers
    DEF TypeInv, TypeOK, CliTypeOK, Holding
<1>9. CASE HandleAck(k)
  BY <1>9 DEF HandleAck, Handles
<1>10. CASE HandleDisconnect(k)
  BY <1>10 DEF HandleDisconnect
<1>11. CASE SendError(k)
  BY <1>11 DEF SendError
<1>12. CASE Complete(k)
  BY <1>12 DEF Complete
<1>13. CASE AckDone(k)
  <2>1. dpc[k] \in Holding /\ mu' = Free /\ Step(k, "top") /\ UNCHANGED pc
    BY ONLY <1>13 DEF AckDone, Unlock, Holding, threadVars
  <2> QED  BY ONLY <2>1, ReleaseDiscipline, TypeInv, LockDiscipline, k \in Dispatchers
    DEF TypeInv, TypeOK, CliTypeOK, Holding
<1>14. CASE FailDone(k)
  <2>1. dpc[k] \in Holding /\ mu' = Free /\ Step(k, "exit") /\ UNCHANGED pc
    BY ONLY <1>14 DEF FailDone, Holding, threadVars
  <2> QED  BY ONLY <2>1, ReleaseDiscipline, TypeInv, LockDiscipline, k \in Dispatchers
    DEF TypeInv, TypeOK, CliTypeOK, Holding
<1>15. CASE Exit(k)
  BY <1>15 DEF Exit
<1> QED  BY <1>1, <1>2, <1>3, <1>4, <1>5, <1>6, <1>7, <1>8, <1>9, <1>10, <1>11, <1>12, <1>13, <1>14, <1>15
  DEF DispatchStep

LEMMA LockInit == Init => LockDiscipline
<1> SUFFICES ASSUME Init PROVE LockDiscipline
  OBVIOUS
<1>1. \A t \in Threads : mu # t /\ pc[t] # "login"
  BY ThreadsAssumption DEF Init, CliInit, Free
<1>2. \A k \in Dispatchers : mu # k /\ dpc[k] \notin Holding
  BY MaxConnAssumption DEF Init, CliInit, Free, Dispatchers, Ws, Holding
<1> QED  BY <1>1, <1>2 DEF LockDiscipline

LEMMA LockNext == TypeInv /\ LockDiscipline /\ [Next]_vars => LockDiscipline'
<1> SUFFICES ASSUME TypeInv, LockDiscipline, [Next]_vars PROVE LockDiscipline'
  OBVIOUS
<1>1. CASE ClientNext
  BY <1>1, LockThread, LockDispatch DEF ClientNext
<1>2. CASE EnvNext \/ BreakNext \/ UNCHANGED vars
  BY <1>2 DEF EnvNext, BreakNext, vars, cliVars, threadVars, dispVars, LockDiscipline
<1> QED  BY <1>1, <1>2 DEF Next

\* Mutual exclusion on conn.mu: whoever blocks inside a critical section holds
\* the lock, and nobody else does.
THEOREM LockCorrect == Spec => []LockDiscipline
<1>1. Spec => [](TypeInv /\ LockDiscipline)
  BY TypeInit, TypeNext, LockInit, LockNext, PTL DEF Spec
<1> QED  BY <1>1, PTL

-----------------------------------------------------------------------------
(* The connections and their dispatchers. *)

\* A step that leaves the connections alone, and neither begins nor ends a
\* login.
LEMMA SocketFrame ==
    ASSUME SocketInv, UNCHANGED <<wsState, ws, connected, mu, dpc>>,
           \A t \in Threads : pc'[t] = "login" => pc[t] = "login"
    PROVE  SocketInv'
  BY DEF SocketInv, NoLeakedSocket, ConnectedHasDispatcher

\* A step of a dispatcher that leaves the connections alone.
LEMMA SocketQuiet ==
    ASSUME TypeInv, SocketInv, NEW k \in Dispatchers,
           NEW l, l # "none", Step(k, l), dpc[k] # "none",
           l \in Ending => dpc[k] \in Ending \/ ~connected,
           UNCHANGED <<wsState, ws, connected>>,
           \A t \in Threads : pc'[t] = "login" => pc[t] = "login",
           mu \in Threads => mu' \in Threads
    PROVE  SocketInv'
<1> USE DEF TypeInv, TypeOK, CliTypeOK, DispTypeOK, Dispatchers, SocketInv
<1>1. \A j \in Ws : dpc'[j] = IF j = k THEN l ELSE dpc[j]
  BY DEF Step
<1>2. NoLeakedSocket'
  BY DEF NoLeakedSocket
<1>3. ConnectedHasDispatcher'
  BY <1>1 DEF ConnectedHasDispatcher
<1>4. \A t \in Threads : pc'[t] = "login" =>
        ~connected' /\ dpc'[ws'] = "none" /\ wsState'[ws'] \in {"open", "broken"}
  BY <1>1 DEF HasSocket
<1>5. \A w \in Ws : wsState'[w] = "unused" => dpc'[w] = "none"
  BY <1>1
<1> QED  BY <1>2, <1>3, <1>4, <1>5

\* A connection is closed: whoever is not logging in is not connected.
LEMMA SocketClose ==
    ASSUME TypeInv, SocketInv, connected, mu = Free, LockDiscipline,
           wsState' = [wsState EXCEPT ![ws] = "closed"], connected' = FALSE,
           UNCHANGED ws,
           \A t \in Threads : pc'[t] = "login" => pc[t] = "login",
           \A w \in Ws : dpc[w] = "none" => dpc'[w] = "none"
    PROVE  SocketInv'
<1> USE DEF SocketInv
<1>1. ws \in Ws
  BY DEF ConnectedHasDispatcher
<1>2. \A t \in Threads : pc'[t] # "login"
  BY ThreadsAssumption DEF LockDiscipline, Free
<1>3. \A w \in Ws : wsState'[w] = IF w = ws THEN "closed" ELSE wsState[w]
  BY <1>1 DEF TypeInv, TypeOK, NetTypeOK
<1>4. NoLeakedSocket'
  BY <1>3 DEF NoLeakedSocket
<1>5. ConnectedHasDispatcher'
  BY DEF ConnectedHasDispatcher
<1> QED  BY <1>2, <1>3, <1>4, <1>5

LEMMA SocketThread ==
    ASSUME TypeInv, LockDiscipline, SocketInv, NEW t \in Threads,
           CallStep(t) \/ DrainStep(t) \/ MethodStep(t)
    PROVE  SocketInv'
<1> USE DEF connVars, threadVars, dispVars, netVars
<1>0. ThreadTypeOK
  BY DEF TypeInv, TypeOK, CliTypeOK
<1>1. CASE \E op \in Methods : Call(t, op)
  BY <1>0, <1>1, SocketFrame DEF Call, Goto, Methods, NeedConnection, PublishOps,
    SubscribeOps, ThreadTypeOK
<1>2. CASE \E i \in Sids : CallUnsubscribe(t, i)
  BY <1>0, <1>2, SocketFrame DEF CallUnsubscribe, Goto, ThreadTypeOK
<1>3. CASE NotConnected(t)
  BY <1>0, <1>3, SocketFrame DEF NotConnected, Goto, Return, ThreadTypeOK
<1>4. CASE IsConnected(t)
  BY <1>0, <1>4, SocketFrame DEF IsConnected, Goto, Return, ThreadTypeOK
<1>5. CASE Publish(t)
  BY <1>0, <1>5, SocketFrame DEF Publish, Register, Await, Goto, Return, ThreadTypeOK
<1>6. CASE PublishAsync(t)
  BY <1>0, <1>6, SocketFrame DEF PublishAsync, Register, Await, Goto, Return, ThreadTypeOK
<1>7. CASE PublishDone(t)
  BY <1>0, <1>7, SocketFrame DEF PublishDone, Goto, Return, ThreadTypeOK
<1>8. CASE PublishTimeout(t)
  BY <1>0, <1>8, SocketFrame DEF PublishTimeout, Goto, Return, ThreadTypeOK
<1>9. CASE Subscribe(t)
  BY <1>0, <1>9, SocketFrame DEF Subscribe, AddSubscription, Await, Goto, Return, ThreadTypeOK
<1>10. CASE SubscribeAsync(t)
  BY <1>0, <1>10, SocketFrame DEF SubscribeAsync, AddSubscription, Await, Goto, Return, ThreadTypeOK
<1>11. CASE SubscribeDone(t)
  BY <1>0, <1>11, SocketFrame DEF SubscribeDone, Goto, Return, ThreadTypeOK
<1>12. CASE SubscribeTimeout(t)
  BY <1>0, <1>12, SocketFrame DEF SubscribeTimeout, Goto, Return, ThreadTypeOK
<1>13. CASE Unsubscribe(t)
  BY <1>0, <1>13, SocketFrame DEF Unsubscribe, Goto, Return, ThreadTypeOK
<1>14. CASE UnsubscribeAll(t)
  BY <1>0, <1>14, SocketFrame DEF UnsubscribeAll, Goto, Return, ThreadTypeOK
<1>15. CASE ReconnectNoop(t)
  BY <1>0, <1>15, SocketFrame DEF ReconnectNoop, Goto, Return, ThreadTypeOK
<1>16. CASE DialFail(t)
  BY <1>0, <1>16, SocketFrame DEF DialFail, Goto, Return, ThreadTypeOK
<1>17. CASE Dial(t)
  <2>1. PICK w \in Ws : /\ wsState[w] = "unused"
                        /\ ws' = w
                        /\ wsState' = [wsState EXCEPT ![w] = "open"]
    BY <1>17 DEF Dial
  <2>2. mu = Free /\ ~connected /\ ~connected' /\ mu' = t /\ UNCHANGED dpc
    BY <1>17 DEF Dial
  <2>3. \A v \in Ws : wsState'[v] = IF v = w THEN "open" ELSE wsState[v]
    BY <2>1 DEF TypeInv, TypeOK, NetTypeOK
  <2>4. NoLeakedSocket'
    BY <2>1, <2>2, <2>3, ThreadsAssumption DEF SocketInv, NoLeakedSocket, Free
  <2>5. ConnectedHasDispatcher'
    BY <2>2 DEF ConnectedHasDispatcher
  <2>6. dpc'[w] = "none"
    BY <2>1, <2>2 DEF SocketInv
  <2> QED  BY <2>1, <2>2, <2>3, <2>4, <2>5, <2>6 DEF SocketInv
<1>18. CASE LoginFail(t)
  <2>1. mu = t /\ ws \in Ws /\ ~connected
    BY <1>18 DEF LoginFail, LockDiscipline, TypeInv, HasSocket, SocketInv
  <2>2. \A u \in Threads : pc'[u] # "login"
    BY <1>0, <1>18, <2>1 DEF LoginFail, Return, Goto, LockDiscipline, ThreadTypeOK
  <2>3. \A w \in Ws : wsState'[w] = IF w = ws THEN "closed" ELSE wsState[w]
    BY <1>18, <2>1 DEF LoginFail, TypeInv, TypeOK, NetTypeOK
  <2>4. NoLeakedSocket'
    BY <1>18, <2>1, <2>3 DEF LoginFail, SocketInv, NoLeakedSocket
  <2> QED  BY <1>18, <2>1, <2>2, <2>3, <2>4 DEF LoginFail, SocketInv, ConnectedHasDispatcher
<1>19. CASE Welcome(t)
  <2>1. mu = t /\ ws \in Ws /\ wsState[ws] \in {"open", "broken"}
    BY <1>19 DEF Welcome, LockDiscipline, TypeInv, HasSocket, SocketInv
  <2>2. \A u \in Threads : pc'[u] # "login"
    BY <1>0, <1>19, <2>1 DEF Welcome, Return, Goto, LockDiscipline, ThreadTypeOK
  <2>3. \A w \in Ws : dpc'[w] = IF w = ws THEN "top" ELSE dpc[w]
    BY <1>19, <2>1 DEF Welcome, TypeInv, TypeOK, CliTypeOK, DispTypeOK, Dispatchers
  <2>4. connected' /\ UNCHANGED <<ws, wsState>>
    BY <1>19 DEF Welcome
  <2>5. NoLeakedSocket'
    BY <2>4 DEF SocketInv, NoLeakedSocket
  <2>6. ConnectedHasDispatcher'
    BY <2>1, <2>3, <2>4 DEF ConnectedHasDispatcher, Ending
  <2>7. \A w \in Ws : wsState'[w] = "unused" => dpc'[w] = "none"
    BY <2>1, <2>3, <2>4 DEF SocketInv
  <2> QED  BY <2>2, <2>5, <2>6, <2>7 DEF SocketInv
<1>20. CASE Disconnect(t)
  <2>1. \A u \in Threads : pc'[u] = "login" => pc[u] = "login"
    BY <1>0, <1>20 DEF Disconnect, Goto, ThreadTypeOK
  <2>2. CASE connected
    BY <1>20, <2>1, <2>2, SocketClose DEF Disconnect
  <2>3. CASE ~connected
    BY <1>20, <2>1, <2>3, SocketFrame DEF Disconnect
  <2> QED  BY <2>2, <2>3
<1>21. CASE WaitStart(t)
  BY <1>0, <1>21, SocketFrame DEF WaitStart, Goto, Return, ThreadTypeOK
<1>25. CASE WaitEnd(t)
  BY <1>0, <1>25, SocketFrame DEF WaitEnd, Goto, Return, ThreadTypeOK
<1>22. CASE RecvError(t)
  BY <1>0, <1>22, SocketFrame DEF RecvError, Recv, Goto, Return, ThreadTypeOK
<1>23. CASE RecvMessage(t)
  BY <1>0, <1>23, SocketFrame DEF RecvMessage, Recv, Goto, Return, ThreadTypeOK
<1>24. CASE RecvCompletion(t)
  BY <1>0, <1>24, SocketFrame DEF RecvCompletion, Recv, Goto, Return, ThreadTypeOK
<1> QED  BY <1>1, <1>2, <1>3, <1>4, <1>5, <1>6, <1>7, <1>8, <1>9, <1>10, <1>11, <1>12, <1>13, <1>14, <1>15, <1>16, <1>17, <1>18, <1>19, <1>20, <1>21, <1>22, <1>23, <1>24, <1>25
  DEF CallStep, DrainStep, MethodStep

LEMMA SocketDispatch ==
    ASSUME TypeInv, LockDiscipline, SocketInv, NEW k \in Dispatchers,
           DispatchStep(k)
    PROVE  SocketInv'
<1> USE ThreadsAssumption DEF connVars, threadVars, dispVars, netVars
<1>0. k \notin Threads /\ Free \notin Threads
  BY MaxConnAssumption DEF Dispatchers, Ws, Free
<1>h. dpc[k] \in Holding => mu \notin Threads
  BY <1>0 DEF LockDiscipline
<1>1. CASE ReadTop(k)
  <2>1. /\ dpc[k] # "none"
        /\ \E l \in {"reading"} : Step(k, l)
        /\ UNCHANGED <<wsState, ws, connected>>
    BY <1>1 DEF ReadTop
  <2>2. mu \in Threads => mu' \in Threads
    BY <1>0, <1>h, <1>1 DEF ReadTop, Holding
  <2>3. \A t \in Threads : pc'[t] = "login" => pc[t] = "login"
    BY <1>1 DEF ReadTop
  <2> QED  BY <2>1, <2>2, <2>3, SocketQuiet DEF Ending
<1>2. CASE ReadMsg(k)
  <2>1. /\ dpc[k] # "none"
        /\ \E l \in {"msg", "top"} : Step(k, l)
        /\ UNCHANGED <<wsState, ws, connected>>
    BY <1>2 DEF ReadMsg
  <2>2. mu \in Threads => mu' \in Threads
    BY <1>0, <1>h, <1>2 DEF ReadMsg, Holding
  <2>3. \A t \in Threads : pc'[t] = "login" => pc[t] = "login"
    BY <1>2 DEF ReadMsg
  <2> QED  BY <2>1, <2>2, <2>3, SocketQuiet DEF Ending
<1>3. CASE ReadErr(k)
  <2>1. /\ dpc[k] # "none"
        /\ \E l \in {"err"} : Step(k, l)
        /\ UNCHANGED <<wsState, ws, connected>>
    BY <1>3 DEF ReadErr
  <2>2. mu \in Threads => mu' \in Threads
    BY <1>0, <1>h, <1>3 DEF ReadErr, Holding
  <2>3. \A t \in Threads : pc'[t] = "login" => pc[t] = "login"
    BY <1>3 DEF ReadErr
  <2> QED  BY <2>1, <2>2, <2>3, SocketQuiet DEF Ending
<1>4. CASE Lock(k)
  <2>1. /\ dpc[k] # "none"
        /\ \E l \in {"handle"} : Step(k, l)
        /\ UNCHANGED <<wsState, ws, connected>>
    BY <1>4 DEF Lock
  <2>2. mu \in Threads => mu' \in Threads
    BY <1>0, <1>h, <1>4 DEF Lock, Holding
  <2>3. \A t \in Threads : pc'[t] = "login" => pc[t] = "login"
    BY <1>4 DEF Lock
  <2> QED  BY <2>1, <2>2, <2>3, SocketQuiet DEF Ending
<1>5. CASE HandleHeartbeat(k)
  <2>1. /\ dpc[k] # "none"
        /\ \E l \in {"top"} : Step(k, l)
        /\ UNCHANGED <<wsState, ws, connected>>
    BY <1>5 DEF HandleHeartbeat, Handles, Unlock
  <2>2. mu \in Threads => mu' \in Threads
    BY <1>0, <1>h, <1>5 DEF HandleHeartbeat, Handles, Unlock, Holding
  <2>3. \A t \in Threads : pc'[t] = "login" => pc[t] = "login"
    BY <1>5 DEF HandleHeartbeat, Handles, Unlock
  <2> QED  BY <2>1, <2>2, <2>3, SocketQuiet DEF Ending
<1>6. CASE HandleMessage(k)
  <2>1. /\ dpc[k] # "none"
        /\ \E l \in {"top"} : Step(k, l)
        /\ UNCHANGED <<wsState, ws, connected>>
    BY <1>6 DEF HandleMessage, Handles, Unlock
  <2>2. mu \in Threads => mu' \in Threads
    BY <1>0, <1>h, <1>6 DEF HandleMessage, Handles, Unlock, Holding
  <2>3. \A t \in Threads : pc'[t] = "login" => pc[t] = "login"
    BY <1>6 DEF HandleMessage, Handles, Unlock
  <2> QED  BY <2>1, <2>2, <2>3, SocketQuiet DEF Ending
<1>7. CASE HandleSubscribed(k)
  <2>1. /\ dpc[k] # "none"
        /\ \E l \in {"top"} : Step(k, l)
        /\ UNCHANGED <<wsState, ws, connected>>
    BY <1>7 DEF HandleSubscribed, Handles, Unlock
  <2>2. mu \in Threads => mu' \in Threads
    BY <1>0, <1>h, <1>7 DEF HandleSubscribed, Handles, Unlock, Holding
  <2>3. \A t \in Threads : pc'[t] = "login" => pc[t] = "login"
    BY <1>7 DEF HandleSubscribed, Handles, Unlock
  <2> QED  BY <2>1, <2>2, <2>3, SocketQuiet DEF Ending
<1>8. CASE HandleUnsubscribed(k)
  <2>1. /\ dpc[k] # "none"
        /\ \E l \in {"top"} : Step(k, l)
        /\ UNCHANGED <<wsState, ws, connected>>
    BY <1>8 DEF HandleUnsubscribed, Handles, Unlock
  <2>2. mu \in Threads => mu' \in Threads
    BY <1>0, <1>h, <1>8 DEF HandleUnsubscribed, Handles, Unlock, Holding
  <2>3. \A t \in Threads : pc'[t] = "login" => pc[t] = "login"
    BY <1>8 DEF HandleUnsubscribed, Handles, Unlock
  <2> QED  BY <2>1, <2>2, <2>3, SocketQuiet DEF Ending
<1>9. CASE HandleAck(k)
  <2>1. /\ dpc[k] # "none"
        /\ \E l \in {"complete"} : Step(k, l)
        /\ UNCHANGED <<wsState, ws, connected>>
    BY <1>9 DEF HandleAck, Handles
  <2>2. mu \in Threads => mu' \in Threads
    BY <1>0, <1>h, <1>9 DEF HandleAck, Handles, Holding
  <2>3. \A t \in Threads : pc'[t] = "login" => pc[t] = "login"
    BY <1>9 DEF HandleAck, Handles
  <2> QED  BY <2>1, <2>2, <2>3, SocketQuiet DEF Ending
<1>10. CASE HandleDisconnect(k)
  <2>1. CASE connected
    <3>1. \A w \in Ws : dpc[w] = "none" => dpc'[w] = "none"
      BY <1>10, <2>1 DEF HandleDisconnect, Step, TypeInv, TypeOK, CliTypeOK,
        DispTypeOK, Dispatchers
    <3> QED  BY <1>10, <2>1, <3>1, SocketClose DEF HandleDisconnect
  <2>2. CASE ~connected
    BY <1>10, <2>2, SocketQuiet DEF HandleDisconnect, Ending
  <2> QED  BY <2>1, <2>2
<1>11. CASE SendError(k)
  <2>1. /\ dpc[k] # "none"
        /\ \E l \in {"fail"} : Step(k, l)
        /\ UNCHANGED <<wsState, ws, connected>>
    BY <1>11 DEF SendError
  <2>2. mu \in Threads => mu' \in Threads
    BY <1>0, <1>h, <1>11 DEF SendError, Holding
  <2>3. \A t \in Threads : pc'[t] = "login" => pc[t] = "login"
    BY <1>11 DEF SendError
  <2>4. dpc[k] \in Ending
    BY <1>11 DEF SendError, Ending
  <2> QED  BY <2>1, <2>2, <2>3, <2>4, SocketQuiet
<1>12. CASE Complete(k)
  BY <1>12, SocketFrame DEF Complete
<1>13. CASE AckDone(k)
  <2>1. /\ dpc[k] # "none"
        /\ \E l \in {"top"} : Step(k, l)
        /\ UNCHANGED <<wsState, ws, connected>>
    BY <1>13 DEF AckDone, Unlock
  <2>2. mu \in Threads => mu' \in Threads
    BY <1>0, <1>h, <1>13 DEF AckDone, Unlock, Holding
  <2>3. \A t \in Threads : pc'[t] = "login" => pc[t] = "login"
    BY <1>13 DEF AckDone, Unlock
  <2> QED  BY <2>1, <2>2, <2>3, SocketQuiet DEF Ending
<1>14. CASE FailDone(k)
  <2>1. /\ dpc[k] # "none"
        /\ \E l \in {"exit"} : Step(k, l)
        /\ UNCHANGED <<wsState, ws, connected>>
    BY <1>14 DEF FailDone
  <2>2. mu \in Threads => mu' \in Threads
    BY <1>0, <1>h, <1>14 DEF FailDone, Holding
  <2>3. \A t \in Threads : pc'[t] = "login" => pc[t] = "login"
    BY <1>14 DEF FailDone
  <2>4. dpc[k] \in Ending
    BY <1>14 DEF FailDone, Ending
  <2> QED  BY <2>1, <2>2, <2>3, <2>4, SocketQuiet
<1>15. CASE Exit(k)
  <2>1. /\ dpc[k] # "none"
        /\ \E l \in {"done"} : Step(k, l)
        /\ UNCHANGED <<wsState, ws, connected>>
    BY <1>15 DEF Exit
  <2>2. mu \in Threads => mu' \in Threads
    BY <1>0, <1>h, <1>15 DEF Exit, Holding
  <2>3. \A t \in Threads : pc'[t] = "login" => pc[t] = "login"
    BY <1>15 DEF Exit, TypeInv, TypeOK, CliTypeOK, ThreadTypeOK
  <2>4. dpc[k] \in Ending
    BY <1>15 DEF Exit, Ending
  <2> QED  BY <2>1, <2>2, <2>3, <2>4, SocketQuiet
<1> QED  BY <1>1, <1>2, <1>3, <1>4, <1>5, <1>6, <1>7, <1>8, <1>9, <1>10, <1>11, <1>12, <1>13, <1>14, <1>15
  DEF DispatchStep

LEMMA SocketInit == Init => SocketInv
  BY DEF Init, NetInit, CliInit, SocketInv, NoLeakedSocket, ConnectedHasDispatcher,
     Dispatchers

LEMMA SocketNext ==
    TypeInv /\ LockDiscipline /\ SocketInv /\ [Next]_vars => SocketInv'
<1> SUFFICES ASSUME TypeInv, LockDiscipline, SocketInv, [Next]_vars
             PROVE  SocketInv'
  OBVIOUS
<1>1. CASE ClientNext
  BY <1>1, SocketThread, SocketDispatch DEF ClientNext
<1>2. CASE EnvNext
  <2>1. UNCHANGED wsState
    BY <1>2 DEF EnvNext, ServerReply, ServerPushes, ServerLogin, ServerPublish,
      ServerSubscribe, ServerUnsubscribe, ServerAck, ServerIgnore, ServerReads,
      ServerEvent, ServerPush
  <2> QED  BY <1>2, <2>1, SocketFrame DEF EnvNext, cliVars, connVars, threadVars, dispVars
<1>3. CASE BreakNext
  <2>1. PICK w \in Ws : wsState[w] = "open" /\ wsState' = [wsState EXCEPT ![w] = "broken"]
    BY <1>3 DEF BreakNext, Break
  <2>2. \A v \in Ws : wsState'[v] = IF v = w THEN "broken" ELSE wsState[v]
    BY <2>1 DEF TypeInv, TypeOK, NetTypeOK
  <2>3. UNCHANGED <<ws, connected, mu, pc, dpc>>
    BY <1>3 DEF BreakNext, cliVars, connVars, threadVars, dispVars
  <2>4. \A t \in Threads : pc[t] = "login" => ws \in Ws
    BY DEF TypeInv, HasSocket
  <2> QED  BY <2>1, <2>2, <2>3, <2>4 DEF SocketInv, NoLeakedSocket, ConnectedHasDispatcher
<1>4. CASE UNCHANGED vars
  BY <1>4, SocketFrame DEF vars, cliVars, connVars, threadVars, dispVars, netVars
<1> QED  BY <1>1, <1>2, <1>3, <1>4 DEF Next

\* No connection is left open behind the current one, and while the Connection
\* is connected a dispatcher listens that will notice a loss.
THEOREM SocketCorrect == Spec => []SocketInv
<1>1. Spec => [](TypeInv /\ LockDiscipline /\ SocketInv)
  BY TypeInit, TypeNext, LockInit, LockNext, SocketInit, SocketNext, PTL DEF Spec
<1> QED  BY <1>1, PTL

-----------------------------------------------------------------------------
(* Publishes and their completions. *)

\* What a step leaves alone when it neither registers nor completes anything.
CompletionsKept ==
    /\ UNCHANGED <<pubs, pubSeqNum, todo, comp>>
    /\ \A j \in Dispatchers : todo[j] # {} => dpc'[j] = dpc[j]

\* Every step either leaves the completions alone or is one of four.
LEMMA ClientCases ==
    ASSUME TypeInv, SocketInv, CompletionInv, ClientStep
    PROVE  \/ CompletionsKept
           \/ \E t \in Threads, chan \in {"none", "own", "app"}, l \in {"idle", "pubwait"} :
                 Register(t, chan, l)
           \/ \E k \in Dispatchers : HandleAck(k) \/ SendError(k) \/ Complete(k)
<1> USE DEF CompletionsKept, connVars, dispVars, chanVars
<1>1. ASSUME NEW t \in Threads, CallStep(t) \/ DrainStep(t) \/ MethodStep(t)
      PROVE  \/ CompletionsKept
             \/ \E chan \in {"none", "own", "app"}, l \in {"idle", "pubwait"} :
                   Register(t, chan, l)
  <2>1. CASE \E op \in Methods : Call(t, op)
    BY <2>1 DEF Call
  <2>2. CASE \E i \in Sids : CallUnsubscribe(t, i)
    BY <2>2 DEF CallUnsubscribe
  <2>3. CASE NotConnected(t)
    BY <2>3 DEF NotConnected
  <2>4. CASE IsConnected(t)
    BY <2>4 DEF IsConnected
  <2>5. CASE Publish(t)
    BY <2>5 DEF Publish
  <2>6. CASE PublishAsync(t)
    BY <2>6 DEF PublishAsync
  <2>7. CASE PublishDone(t)
    BY <2>7 DEF PublishDone
  <2>8. CASE PublishTimeout(t)
    BY <2>8 DEF PublishTimeout
  <2>9. CASE Subscribe(t)
    BY <2>9 DEF Subscribe, AddSubscription
  <2>10. CASE SubscribeAsync(t)
    BY <2>10 DEF SubscribeAsync, AddSubscription
  <2>11. CASE SubscribeDone(t)
    BY <2>11 DEF SubscribeDone
  <2>12. CASE SubscribeTimeout(t)
    BY <2>12 DEF SubscribeTimeout
  <2>13. CASE Unsubscribe(t)
    BY <2>13 DEF Unsubscribe
  <2>14. CASE UnsubscribeAll(t)
    BY <2>14 DEF UnsubscribeAll
  <2>15. CASE ReconnectNoop(t)
    BY <2>15 DEF ReconnectNoop
  <2>16. CASE DialFail(t)
    BY <2>16 DEF DialFail
  <2>17. CASE Dial(t)
    BY <2>17 DEF Dial
  <2>18. CASE LoginFail(t)
    BY <2>18 DEF LoginFail
  <2>19. CASE Welcome(t)
    <3>1. dpc[ws] = "none" => dpc' = [dpc EXCEPT ![ws] = "top"]
      BY <2>19 DEF Welcome
    <3>2. UNCHANGED <<pubs, pubSeqNum, todo, comp>>
      BY <2>19 DEF Welcome
    <3>3. dpc[ws] = "none"
      BY <2>19 DEF Welcome, SocketInv
    <3> QED  BY <3>1, <3>2, <3>3 DEF TypeInv, TypeOK, CliTypeOK, DispTypeOK, CompletionInv
  <2>20. CASE Disconnect(t)
    BY <2>20 DEF Disconnect
  <2>21. CASE WaitStart(t)
    BY <2>21 DEF WaitStart
  <2>25. CASE WaitEnd(t)
    BY <2>25 DEF WaitEnd
  <2>22. CASE RecvError(t)
    BY <2>22 DEF RecvError, Recv
  <2>23. CASE RecvMessage(t)
    BY <2>23 DEF RecvMessage, Recv
  <2>24. CASE RecvCompletion(t)
    BY <2>24 DEF RecvCompletion, Recv
  <2> QED  BY <1>1, <2>1, <2>2, <2>3, <2>4, <2>5, <2>6, <2>7, <2>8, <2>9, <2>10, <2>11, <2>12, <2>13, <2>14, <2>15, <2>16, <2>17, <2>18, <2>19, <2>20, <2>21, <2>22, <2>23, <2>24, <2>25
    DEF CallStep, DrainStep, MethodStep
<1>2. ASSUME NEW k \in Dispatchers, DispatchStep(k)
      PROVE  CompletionsKept \/ HandleAck(k) \/ SendError(k) \/ Complete(k)
  <2>0. ASSUME NEW l, Step(k, l), UNCHANGED <<pubs, pubSeqNum, todo, comp>>, todo[k] = {}
        PROVE  CompletionsKept
    BY <2>0 DEF Step, TypeInv, TypeOK, CliTypeOK, DispTypeOK
  <2>h. dpc[k] \notin {"complete", "fail"} => todo[k] = {}
    BY DEF CompletionInv
  <2>1. CASE ReadTop(k)
    BY <2>0, <2>h, <2>1 DEF ReadTop
  <2>2. CASE ReadMsg(k)
    BY <2>0, <2>h, <2>2 DEF ReadMsg
  <2>3. CASE ReadErr(k)
    BY <2>0, <2>h, <2>3 DEF ReadErr
  <2>4. CASE Lock(k)
    BY <2>0, <2>h, <2>4 DEF Lock
  <2>5. CASE HandleHeartbeat(k)
    BY <2>0, <2>h, <2>5 DEF HandleHeartbeat, Handles, Unlock
  <2>6. CASE HandleMessage(k)
    BY <2>0, <2>h, <2>6 DEF HandleMessage, Handles, Unlock
  <2>7. CASE HandleSubscribed(k)
    BY <2>0, <2>h, <2>7 DEF HandleSubscribed, Handles, Unlock, Notify
  <2>8. CASE HandleUnsubscribed(k)
    BY <2>0, <2>h, <2>8 DEF HandleUnsubscribed, Handles, Unlock, Notify
  <2>10. CASE HandleDisconnect(k)
    BY <2>0, <2>h, <2>10 DEF HandleDisconnect
  <2>13. CASE AckDone(k)
    BY <2>0, <2>h, <2>13 DEF AckDone, Unlock
  <2>14. CASE FailDone(k)
    BY <2>0, <2>h, <2>14 DEF FailDone
  <2>15. CASE Exit(k)
    BY <2>0, <2>h, <2>15 DEF Exit
  <2> QED  BY <1>2, <2>1, <2>2, <2>3, <2>4, <2>5, <2>6, <2>7, <2>8, <2>10, <2>13, <2>14, <2>15
    DEF DispatchStep
<1> QED  BY <1>1, <1>2 DEF ClientStep

\* While the lock is free nobody has completions in hand; while k holds it
\* nobody else has.
LEMMA InHand ==
    ASSUME LockDiscipline, CompletionInv
    PROVE  /\ mu = Free => \A j \in Dispatchers : todo[j] = {}
           /\ \A k \in Dispatchers : dpc[k] \in Holding =>
                 \A j \in Dispatchers : j # k => todo[j] = {}
  BY MaxConnAssumption
  DEF LockDiscipline, CompletionInv, Holding, Dispatchers, Ws, Free

LEMMA SentLength ==
    ASSUME TypeInv, NEW n \in Pubs
    PROVE  comp[n].sent \in Seq({"ok", "err"}) /\ (comp[n].sent # <<>> => Len(comp[n].sent) # 0)
<1>1. comp[n] \in Completions
  BY DEF TypeInv, TypeOK, CliTypeOK, ChanTypeOK
<1>2. comp[n].sent \in Seq({"ok", "err"})
  BY <1>1 DEF Completions
<1> QED  BY <1>2, EmptySeq

LEMMA CompletionFrame ==
    ASSUME CompletionInv, CompletionsKept
    PROVE  CompletionInv'
  BY DEF CompletionInv, CompletionsKept, CompletedOnce, CompletedInOrder, Pending

LEMMA CompletionRegister ==
    ASSUME TypeInv, LockDiscipline, CompletionInv, NEW t \in Threads,
           NEW chan, NEW l, Register(t, chan, l)
    PROVE  CompletionInv'
<1> DEFINE n == pubSeqNum + 1
<1>1. /\ mu = Free
      /\ pubSeqNum' = n
      /\ pubs' = pubs \cup {n}
      /\ UNCHANGED <<dpc, todo>>
      /\ \E enc : comp' = [comp EXCEPT ![n] = Completion(chan, enc)]
  BY DEF Register, dispVars
<1>2. pubSeqNum \in Nat /\ n \in Pubs /\ pubs \subseteq Nat
  BY BoundsAssumption DEF Register, TypeInv, TypeOK, CliTypeOK, ConnTypeOK, Pubs
<1>3. \A m \in Pubs : comp'[m].sent = IF m = n THEN <<>> ELSE comp[m].sent
  BY <1>1, <1>2 DEF TypeInv, TypeOK, CliTypeOK, ChanTypeOK, Completion
<1>4. \A j \in Dispatchers : todo[j] = {} /\ todo'[j] = {}
  BY <1>1, InHand
<1> HIDE DEF n
<1>5. \A m \in Pubs : Pending(m)' <=> Pending(m) \/ m = n
  BY <1>1, <1>4 DEF Pending
<1>6. \A m \in Pubs : m # n => (m <= pubSeqNum' <=> m <= pubSeqNum)
  BY <1>1, <1>2 DEF n, Pubs
<1>7. n <= pubSeqNum' /\ ~(n <= pubSeqNum)
  BY <1>1, <1>2 DEF n
<1>8. CompletedOnce'
  <2>1. ASSUME NEW m \in Pubs
        PROVE  /\ Len(comp'[m].sent) = IF m <= pubSeqNum' /\ ~Pending(m)' THEN 1 ELSE 0
               /\ m > pubSeqNum' => ~Pending(m)'
    <3>1. CASE m = n
      <4>1. Len(comp'[m].sent) = 0
        BY <1>3, <3>1, EmptySeq
      <4>2. Pending(m)'
        BY <1>5, <3>1
      <4>3. ~(m > pubSeqNum')
        <5>1. m = pubSeqNum' /\ m \in Int
          BY <1>1, <3>1 DEF Pubs
        <5> QED  BY <5>1
      <4> QED  BY <4>1, <4>2, <4>3
    <3>2. CASE m # n
      BY <1>1, <1>2, <1>3, <1>5, <1>6, <3>2 DEF CompletionInv, CompletedOnce, Pubs, n
    <3> QED  BY <3>1, <3>2
  <2> QED  BY <2>1 DEF CompletedOnce
<1>9. CompletedInOrder'
  <2>1. ASSUME NEW m \in Pubs, NEW p \in Pubs, m < p, comp'[p].sent # <<>>
        PROVE  comp'[m].sent # <<>>
    <3>1. p # n /\ comp[p].sent # <<>>
      BY <1>3, <2>1
    <3>2. p <= pubSeqNum
      BY <3>1, <1>2, SentLength DEF CompletionInv, CompletedOnce, Pubs
    <3>3. m # n
      BY <1>2, <2>1, <3>2 DEF n, Pubs
    <3> QED  BY <1>3, <2>1, <3>1, <3>3 DEF CompletionInv, CompletedInOrder
  <2> QED  BY <2>1 DEF CompletedInOrder
<1> QED  BY <1>1, <1>2, <1>4, <1>8, <1>9 DEF CompletionInv, n

\* The dispatcher takes the completions below a bound: they stay pending.
LEMMA CompletionTake ==
    ASSUME TypeInv, LockDiscipline, CompletionInv, NEW k \in Dispatchers,
           dpc[k] \in Holding, dpc[k] \notin {"complete", "fail"},
           NEW l \in {"complete", "fail"}, Step(k, l),
           NEW S \in SUBSET pubs,
           \A n \in S, p \in pubs \ S : n < p,
           todo' = [todo EXCEPT ![k] = S], pubs' = pubs \ S,
           UNCHANGED <<pubSeqNum, comp>>
    PROVE  CompletionInv'
<1>1. \A j \in Dispatchers : todo[j] = {}
  BY InHand DEF CompletionInv
<1>2. \A j \in Dispatchers : todo'[j] = IF j = k THEN S ELSE {}
  BY <1>1 DEF TypeInv, TypeOK, CliTypeOK, DispTypeOK
<1>3. dpc'[k] = l
  BY DEF Step, TypeInv, TypeOK, CliTypeOK, DispTypeOK
<1>4. \A n \in Pubs : Pending(n)' <=> Pending(n)
  BY <1>1, <1>2 DEF Pending
<1>5. CompletedOnce'
  BY <1>4 DEF CompletionInv, CompletedOnce
<1>6. CompletedInOrder'
  BY DEF CompletionInv, CompletedInOrder
<1> QED  BY <1>2, <1>3, <1>5, <1>6 DEF CompletionInv

LEMMA CompletionComplete ==
    ASSUME TypeInv, LockDiscipline, CompletionInv, NEW k \in Dispatchers,
           Complete(k)
    PROVE  CompletionInv'
<1>1. PICK n \in todo[k] :
        /\ \A p \in todo[k] : n <= p
        /\ comp' = [comp EXCEPT ![n].sent = Append(@, Outcome(k))]
        /\ todo' = [todo EXCEPT ![k] = @ \ {n}]
  BY DEF Complete
<1>2. dpc[k] \in {"complete", "fail"} /\ UNCHANGED <<dpc, pubs, pubSeqNum>>
  BY DEF Complete, connVars
<1>3. n \in Pubs /\ todo[k] \subseteq Pubs /\ pubs \subseteq Pubs /\ pubSeqNum \in Nat
  BY BoundsAssumption DEF TypeInv, TypeOK, CliTypeOK, DispTypeOK, ConnTypeOK
<1>4. \A j \in Dispatchers : todo'[j] = IF j = k THEN todo[k] \ {n} ELSE {}
  BY <1>1, <1>2, InHand DEF Holding, TypeInv, TypeOK, CliTypeOK, DispTypeOK
<1>5. \A j \in Dispatchers : j # k => todo[j] = {}
  BY <1>2, InHand DEF Holding
<1>6. n <= pubSeqNum /\ \A p \in pubs : n < p
  BY DEF CompletionInv
<1>7. n \notin pubs
  BY <1>3, <1>6 DEF Pubs
<1>8. \A m \in Pubs : Pending(m)' <=> Pending(m) /\ m # n
  BY <1>2, <1>4, <1>5, <1>7 DEF Pending
<1>9. \A m \in Pubs : m # n => comp'[m].sent = comp[m].sent
  BY <1>1, <1>3 DEF TypeInv, TypeOK, CliTypeOK, ChanTypeOK
<1>10. comp[n].sent = <<>> /\ Len(comp'[n].sent) = 1 /\ comp'[n].sent # <<>>
  <2>1. Pending(n)
    BY DEF Pending
  <2>2. comp[n] \in Completions /\ comp[n].sent \in Seq({"ok", "err"})
    BY <1>3 DEF TypeInv, TypeOK, CliTypeOK, ChanTypeOK, Completions
  <2>3. Len(comp[n].sent) = 0
    BY <1>3, <2>1 DEF CompletionInv, CompletedOnce
  <2>4. comp[n].sent = <<>>
    BY <2>2, <2>3, EmptySeq
  <2>5. comp'[n].sent = Append(<<>>, Outcome(k))
    BY <1>1, <1>3, <2>2, <2>4 DEF TypeInv, TypeOK, CliTypeOK, ChanTypeOK, Completions
  <2>6. Append(<<>>, Outcome(k)) = <<Outcome(k)>>
    OBVIOUS
  <2> QED  BY <2>4, <2>5, <2>6
<1>11. CompletedOnce'
  <2>1. ASSUME NEW m \in Pubs
        PROVE  /\ Len(comp'[m].sent) = IF m <= pubSeqNum' /\ ~Pending(m)' THEN 1 ELSE 0
               /\ m > pubSeqNum' => ~Pending(m)'
    <3>1. CASE m = n
      BY <1>2, <1>6, <1>8, <1>10, <3>1
    <3>2. CASE m # n
      BY <1>2, <1>8, <1>9, <3>2 DEF CompletionInv, CompletedOnce
    <3> QED  BY <3>1, <3>2
  <2> QED  BY <2>1 DEF CompletedOnce
<1>12. CompletedInOrder'
  <2>1. ASSUME NEW m \in Pubs, NEW p \in Pubs, m < p, comp'[p].sent # <<>>
        PROVE  comp'[m].sent # <<>>
    <3>1. CASE m = n
      BY <1>10, <3>1
    <3>2. CASE m # n /\ p # n
      BY <1>9, <2>1, <3>2 DEF CompletionInv, CompletedInOrder
    <3>3. CASE m # n /\ p = n
      <4>1. m \notin todo[k] /\ m \notin pubs
        BY <1>1, <1>3, <1>6, <2>1, <3>3 DEF Pubs
      <4>2. ~Pending(m)
        BY <1>5, <4>1 DEF Pending
      <4>3. m <= pubSeqNum
        BY <1>3, <1>6, <2>1, <3>3 DEF Pubs
      <4>4. Len(comp[m].sent) = 1
        BY <4>2, <4>3 DEF CompletionInv, CompletedOnce
      <4> QED  BY <1>9, <3>3, <4>4, EmptySeq
    <3> QED  BY <3>1, <3>2, <3>3
  <2> QED  BY <2>1 DEF CompletedInOrder
<1> QED  BY <1>2, <1>4, <1>11, <1>12 DEF CompletionInv

LEMMA CompletionInit == Init => CompletionInv
<1> SUFFICES ASSUME Init PROVE CompletionInv
  OBVIOUS
<1> USE DEF Init, CliInit
<1>1. \A n : ~Pending(n)
  BY DEF Pending
<1>2. \A n \in Pubs : comp[n].sent = <<>> /\ Len(comp[n].sent) = 0 /\ ~(n <= pubSeqNum)
  BY EmptySeq DEF Completion, Pubs
<1> QED  BY <1>1, <1>2 DEF CompletionInv, CompletedOnce, CompletedInOrder

LEMMA CompletionNext ==
    TypeInv /\ LockDiscipline /\ SocketInv /\ CompletionInv /\ [Next]_vars
        => CompletionInv'
<1> SUFFICES ASSUME TypeInv, LockDiscipline, SocketInv, CompletionInv, [Next]_vars
             PROVE  CompletionInv'
  OBVIOUS
<1>1. CASE ClientNext
  <2>1. ClientStep
    BY <1>1 DEF ClientNext, ClientStep
  <2>2. CASE CompletionsKept
    BY <2>2, CompletionFrame
  <2>3. CASE \E t \in Threads, chan \in {"none", "own", "app"}, l \in {"idle", "pubwait"} :
               Register(t, chan, l)
    BY <2>3, CompletionRegister
  <2>4. ASSUME NEW k \in Dispatchers, HandleAck(k) PROVE CompletionInv'
    <3> DEFINE S == {n \in pubs : n <= cur[k].n}
    <3>1. pubs' = pubs \ S
      <4>1. \A n \in pubs : n > cur[k].n <=> ~(n <= cur[k].n)
        BY BoundsAssumption DEF TypeInv, TypeOK, CliTypeOK, ConnTypeOK, DispTypeOK,
          Pubs, Msgs
      <4> QED  BY <2>4, <4>1 DEF HandleAck
    <3>2. \A n \in S, p \in pubs \ S : n < p
      BY BoundsAssumption DEF TypeInv, TypeOK, CliTypeOK, ConnTypeOK, DispTypeOK, Pubs,
        Msgs
    <3>3. /\ dpc[k] = "handle"
          /\ Step(k, "complete")
          /\ todo' = [todo EXCEPT ![k] = S]
          /\ UNCHANGED <<pubSeqNum, comp>>
      BY <2>4 DEF HandleAck, Handles, chanVars
    <3> HIDE DEF S
    <3>4. S \in SUBSET pubs
      BY DEF S
    <3> QED  BY <3>1, <3>2, <3>3, <3>4, CompletionTake DEF Holding
  <2>5. ASSUME NEW k \in Dispatchers, SendError(k) PROVE CompletionInv'
    <3>1. /\ dpc[k] = "errchan"
          /\ Step(k, "fail")
          /\ todo' = [todo EXCEPT ![k] = pubs]
          /\ pubs' = pubs \ pubs
          /\ UNCHANGED <<pubSeqNum, comp>>
      BY <2>5 DEF SendError
    <3> QED  BY <3>1, CompletionTake DEF Holding
  <2>6. ASSUME NEW k \in Dispatchers, Complete(k) PROVE CompletionInv'
    BY <2>6, CompletionComplete
  <2> QED  BY <2>1, <2>2, <2>3, <2>4, <2>5, <2>6, ClientCases
<1>2. CASE EnvNext \/ BreakNext \/ UNCHANGED vars
  BY <1>2, CompletionFrame
  DEF EnvNext, BreakNext, vars, cliVars, connVars, dispVars, chanVars, CompletionsKept
<1> QED  BY <1>1, <1>2 DEF Next

\* The invariants above hold together.
Inv == TypeInv /\ LockDiscipline /\ SocketInv /\ CompletionInv

LEMMA InvCorrect == Spec => []Inv
<1>1. Init => Inv
  BY TypeInit, LockInit, SocketInit, CompletionInit DEF Inv
<1>2. Inv /\ [Next]_vars => Inv'
  BY TypeNext, LockNext, SocketNext, CompletionNext DEF Inv
<1> QED  BY <1>1, <1>2, PTL DEF Spec

\* Whatever happens to the connections, each publish is completed once, in the
\* order of the publishes, and stays pending until then.
THEOREM CompletionCorrect == Spec => [](CompletedOnce /\ CompletedInOrder)
<1>1. Inv => CompletedOnce /\ CompletedInOrder
  BY DEF Inv, CompletionInv
<1> QED  BY <1>1, InvCorrect, PTL

-----------------------------------------------------------------------------
(***************************************************************************)
(* The client implements EftlPublishContract, for every value of the        *)
(* constants: a publish is pending from its registration until its one      *)
(* outcome is reported, in the order of the publishes.                      *)
(***************************************************************************)

LEMMA ContractInitImplemented == Init => Contract!ContractInit
<1> SUFFICES ASSUME Init PROVE Contract!ContractInit
  OBVIOUS
<1>1. \A n \in Pubs : n > pubSeqNum
  BY BoundsAssumption DEF Init, CliInit, Pubs
<1> QED  BY <1>1 DEF Contract!ContractInit, Contract!Messages, Pubs, PublishStatus

\* The status of a publish, by what has become of it.
LEMMA StatusCases ==
    ASSUME Inv, NEW n \in Pubs
    PROVE  /\ PublishStatus[n] = "new" <=> n > pubSeqNum
           /\ PublishStatus[n] = "pending" <=> Pending(n)
           /\ PublishStatus[n] \in {"ok", "err"} <=> n <= pubSeqNum /\ ~Pending(n)
<1>1. pubSeqNum \in Nat /\ n \in Nat
  BY BoundsAssumption DEF Inv, TypeInv, TypeOK, CliTypeOK, ConnTypeOK, Pubs
<1>2. comp[n].sent \in Seq({"ok", "err"})
  BY SentLength DEF Inv
<1>3. Pending(n) => n <= pubSeqNum /\ comp[n].sent = <<>>
  <2>1. Pending(n) => n <= pubSeqNum
    BY <1>1 DEF Inv, CompletionInv, CompletedOnce
  <2>2. Pending(n) => Len(comp[n].sent) = 0
    BY DEF Inv, CompletionInv, CompletedOnce
  <2> QED  BY <1>2, <2>1, <2>2, EmptySeq
<1>4. n <= pubSeqNum /\ ~Pending(n) =>
        comp[n].sent # <<>> /\ comp[n].sent[Len(comp[n].sent)] \in {"ok", "err"}
  <2>1. SUFFICES ASSUME n <= pubSeqNum, ~Pending(n)
                 PROVE  comp[n].sent # <<>> /\ comp[n].sent[Len(comp[n].sent)] \in {"ok", "err"}
    OBVIOUS
  <2>2. Len(comp[n].sent) = 1
    BY <2>1 DEF Inv, CompletionInv, CompletedOnce
  <2> QED  BY <1>2, <2>2, EmptySeq
<1> QED  BY <1>1, <1>3, <1>4 DEF PublishStatus

LEMMA StatusFrame ==
    ASSUME UNCHANGED <<pubSeqNum, comp>>
    PROVE  UNCHANGED PublishStatus
  BY DEF PublishStatus

LEMMA RegisterImplements ==
    ASSUME Inv, Inv', NEW t \in Threads, NEW chan, NEW l, Register(t, chan, l)
    PROVE  Contract!ContractNext
<1> DEFINE n == pubSeqNum + 1
<1>1. /\ pubSeqNum \in Nat
      /\ n \in Pubs
      /\ pubSeqNum' = n
      /\ \E enc : comp' = [comp EXCEPT ![n] = Completion(chan, enc)]
      /\ comp \in [Pubs -> Completions]
  <2>1. pubSeqNum \in Nat /\ comp \in [Pubs -> Completions]
    BY BoundsAssumption
    DEF Inv, TypeInv, TypeOK, CliTypeOK, ConnTypeOK, ChanTypeOK
  <2>2. n \in Pubs /\ pubSeqNum' = n
    BY <2>1, BoundsAssumption DEF Register, Pubs
  <2>3. \E enc : comp' = [comp EXCEPT ![n] = Completion(chan, enc)]
    BY <2>2 DEF Register
  <2> QED  BY <2>1, <2>2, <2>3
<1>2. PublishStatus[n] = "new"
  BY <1>1, StatusCases
<1>3. \A m \in Pubs : m < n => PublishStatus[m] # "new"
  BY <1>1, StatusCases DEF Pubs
<1>4. \A m \in Pubs : PublishStatus'[m] = IF m = n THEN "pending" ELSE PublishStatus[m]
  <2>1. ASSUME NEW m \in Pubs
        PROVE  PublishStatus'[m] = IF m = n THEN "pending" ELSE PublishStatus[m]
    <3>1. CASE m = n
      <4>1. comp'[m].sent = <<>>
        BY <1>1, <3>1 DEF Completion
      <4>2. ~(m > pubSeqNum')
        BY <1>1, <3>1 DEF Pubs
      <4> QED  BY <3>1, <4>1, <4>2 DEF PublishStatus
    <3>2. CASE m # n
      <4>1. comp'[m] = comp[m]
        BY <1>1, <3>2
      <4>2. m > pubSeqNum' <=> m > pubSeqNum
        BY <1>1, <3>2 DEF Pubs
      <4> QED  BY <3>2, <4>1, <4>2 DEF PublishStatus
    <3> QED  BY <3>1, <3>2
  <2> QED  BY <2>1
<1>5. PublishStatus' = [PublishStatus EXCEPT ![n] = "pending"]
  BY <1>1, <1>4 DEF PublishStatus
<1> QED  BY <1>1, <1>2, <1>3, <1>5
  DEF Contract!ContractNext, Contract!PublishNext, Contract!Messages, Pubs

LEMMA CompleteImplements ==
    ASSUME Inv, Inv', NEW k \in Dispatchers, Complete(k)
    PROVE  Contract!ContractNext
<1>1. PICK n \in todo[k] :
        /\ \A p \in todo[k] : n <= p
        /\ comp' = [comp EXCEPT ![n].sent = Append(@, Outcome(k))]
  BY DEF Complete
<1>2. /\ dpc[k] \in {"complete", "fail"}
      /\ pubSeqNum' = pubSeqNum
      /\ pubSeqNum \in Nat
      /\ n \in Pubs
      /\ pubs \subseteq Pubs
      /\ comp \in [Pubs -> Completions]
  BY BoundsAssumption DEF Complete, connVars, Inv, TypeInv, TypeOK, CliTypeOK,
     ConnTypeOK, DispTypeOK, ChanTypeOK
<1>3. Pending(n) /\ PublishStatus[n] = "pending"
  BY <1>2, StatusCases DEF Pending
<1>4. ASSUME NEW m \in Pubs, m < n
      PROVE  PublishStatus[m] \in {"ok", "err"}
  <2>1. m \notin todo[k] /\ m \notin pubs /\ m <= pubSeqNum
    BY <1>1, <1>2, <1>4 DEF Pubs, Inv, CompletionInv
  <2>2. \A j \in Dispatchers : j # k => todo[j] = {}
    BY <1>2, InHand DEF Inv, Holding
  <2>3. ~Pending(m)
    BY <2>1, <2>2 DEF Pending
  <2> QED  BY <2>1, <2>3, StatusCases
<1>5. PICK o \in {"ok", "err"} : o = Outcome(k)
  BY DEF Outcome
<1>6. comp'[n].sent = <<o>>
  <2>1. comp[n].sent = <<>>
    <3>1. comp[n].sent \in Seq({"ok", "err"})
      BY SentLength, <1>2 DEF Inv
    <3>2. Len(comp[n].sent) = 0
      BY <1>2, <1>3 DEF Inv, CompletionInv, CompletedOnce
    <3> QED  BY <3>1, <3>2, EmptySeq
  <2>2. comp'[n].sent = Append(<<>>, o)
    BY <1>1, <1>2, <1>5, <2>1 DEF Completions
  <2> QED  BY <2>2
<1>7. \A m \in Pubs : m # n => comp'[m] = comp[m]
  BY <1>1, <1>2
<1>8. ASSUME NEW m \in Pubs
      PROVE  PublishStatus'[m] = IF m = n THEN o ELSE PublishStatus[m]
  <2>1. CASE m = n
    <3>1. ~(m > pubSeqNum')
      BY <1>2, <1>3, <2>1, StatusCases
    <3>2. comp'[m].sent # <<>> /\ comp'[m].sent[Len(comp'[m].sent)] = o
      <4>1. <<o>> # <<>> /\ <<o>>[Len(<<o>>)] = o
        OBVIOUS
      <4> QED  BY <1>6, <2>1, <4>1
    <3> QED  BY <2>1, <3>1, <3>2 DEF PublishStatus
  <2>2. CASE m # n
    BY <1>2, <1>7, <2>2 DEF PublishStatus
  <2> QED  BY <2>1, <2>2
<1>9. PublishStatus' = [PublishStatus EXCEPT ![n] = o]
  BY <1>2, <1>8 DEF PublishStatus
<1> QED  BY <1>2, <1>3, <1>4, <1>5, <1>9
  DEF Contract!ContractNext, Contract!Report, Contract!Messages, Contract!Outcomes, Pubs

LEMMA StepImplements ==
    ASSUME Inv, Inv', [Next]_vars
    PROVE  [Contract!ContractNext]_PublishStatus
<1>1. CASE ClientNext
  <2>1. ClientStep
    BY <1>1 DEF ClientNext, ClientStep
  <2>2. CASE CompletionsKept
    BY <2>2, StatusFrame DEF CompletionsKept
  <2>3. CASE \E t \in Threads, chan \in {"none", "own", "app"}, l \in {"idle", "pubwait"} :
               Register(t, chan, l)
    BY <2>3, RegisterImplements
  <2>4. ASSUME NEW k \in Dispatchers, HandleAck(k) \/ SendError(k)
        PROVE  UNCHANGED PublishStatus
    BY <2>4, StatusFrame DEF HandleAck, SendError, chanVars
  <2>5. ASSUME NEW k \in Dispatchers, Complete(k)
        PROVE  Contract!ContractNext
    BY <2>5, CompleteImplements
  <2> QED  BY <2>1, <2>2, <2>3, <2>4, <2>5, ClientCases DEF Inv
<1>2. CASE EnvNext \/ BreakNext \/ UNCHANGED vars
  BY <1>2, StatusFrame
  DEF EnvNext, BreakNext, vars, cliVars, connVars, chanVars
<1> QED  BY <1>1, <1>2 DEF Next

\* Publish and PublishAsync keep their contract whatever happens to the
\* connections, and however many goroutines share the Connection.
THEOREM ContractCorrect == Spec => KeepsContract
<1>1. Inv /\ Inv' /\ [Next]_vars => [Contract!ContractNext]_PublishStatus
  BY StepImplements
<1> QED  BY <1>1, ContractInitImplemented, InvCorrect, PTL
  DEF Spec, KeepsContract, Contract!ContractSpec
=============================================================================
