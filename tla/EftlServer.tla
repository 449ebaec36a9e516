----------------------------- MODULE EftlServer -----------------------------
(***************************************************************************)
(* The eFTL server as the client library uses it.  The server is external:  *)
(* the repository holds only its peer, and what is stated here is what the  *)
(* client's handlers expect of it.  One client identifier is modelled, so   *)
(* there is one session at a time; a login with the token of that session   *)
(* may resume it and any other login starts a new one.                      *)
(***************************************************************************)
EXTENDS EftlNetwork

CONSTANTS
    ServerSends,    \* what the server sends unasked
    MaxPush         \* bound: how many times it does

AllServerSends == {"event", "plain", "heartbeat", "revoke", "error"}

ASSUME ServerSendsAssumption == ServerSends \subseteq AllServerSends
ASSUME MaxPushAssumption == MaxPush \in Nat

VARIABLES
    srvWs,      \* the connection of the session, 0 before the first login
    sess,       \* the session, which is also its token; 0 before the first
    srvSubs,    \* the subscriptions the server holds for the session
    srvSeq,     \* the last event sequence number of the session
    unacked,    \* the events of the session the client has not acknowledged
    accepted,   \* the publishes the server has accepted
    acked,      \* <<session, seq>> of the events the client acknowledged
    pushed      \* how many times the server sent something unasked

srvVars == <<srvWs, sess, sessOf, srvSubs, srvSeq, unacked, accepted, acked,
             pushed>>

SrvInit ==
    /\ srvWs = 0
    /\ sess = 0
    /\ sessOf = [w \in Ws |-> 0]
    /\ srvSubs = {}
    /\ srvSeq = 0
    /\ unacked = {}
    /\ accepted = {}
    /\ acked = {}
    /\ pushed = 0

(***************************************************************************)
(* A login takes the client identifier over: what the server has not read   *)
(* of any other connection is discarded.  A resumed session re-delivers     *)
(* what was not acknowledged.                                               *)
(***************************************************************************)
ServerLogin(w) ==
    /\ c2s[w] # <<>>
    /\ Head(c2s[w]).op = "login"
    /\ \E resume \in BOOLEAN :
        /\ resume => Head(c2s[w]).n = sess /\ sess # 0
        /\ ~resume => Head(c2s[w]).n # sess \/ sess = 0 \/ "noresume" \in Faults
        /\ LET s == IF resume THEN sess ELSE sess + 1
           IN  /\ sess' = s
               /\ sessOf' = [sessOf EXCEPT ![w] = s]
               /\ srvSubs' = IF resume THEN srvSubs ELSE {}
               /\ srvSeq' = IF resume THEN srvSeq ELSE 0
               /\ unacked' = IF resume THEN unacked ELSE {}
               /\ \E again \in InSeqOrder(unacked') :
                    s2c' = Written(s2c, w, <<Msg("welcome", s, 0, resume)>> \o again)
    /\ srvWs' = w
    /\ c2s' = [v \in Ws |-> IF v = w THEN Tail(c2s[v]) ELSE <<>>]
    /\ UNCHANGED <<wsState, accepted, acked, pushed>>

\* The server reads the next message of the session's connection.
ServerReads(op) ==
    /\ srvWs \in Ws
    /\ c2s[srvWs] # <<>>
    /\ Head(c2s[srvWs]).op = op
    /\ c2s' = [c2s EXCEPT ![srvWs] = Tail(@)]
    /\ UNCHANGED <<wsState, srvWs, sess, sessOf, srvSeq, pushed>>

SrvHead == Head(c2s[srvWs])

\* A publish is accepted, or refused with an error (opAck with "err"); a
\* publish that is sent again is acknowledged again.
ServerPublish ==
    /\ ServerReads("publish")
    /\ \E ok \in BOOLEAN :
        /\ ~ok => "reject" \in Faults /\ SrvHead.n \notin accepted
        /\ accepted' = IF ok THEN accepted \cup {SrvHead.n} ELSE accepted
        /\ s2c' = Written(s2c, srvWs, <<Msg("ack", SrvHead.n, 0, ok)>>)
    /\ UNCHANGED <<srvSubs, unacked, acked>>

ServerSubscribe ==
    /\ ServerReads("subscribe")
    /\ \/ /\ srvSubs' = srvSubs \cup {SrvHead.sid}
          /\ s2c' = Written(s2c, srvWs, <<Msg("subscribed", 0, SrvHead.sid, TRUE)>>)
       \/ /\ "reject" \in Faults
          /\ srvSubs' = srvSubs \ {SrvHead.sid}
          /\ s2c' = Written(s2c, srvWs, <<Msg("unsubscribed", 0, SrvHead.sid, FALSE)>>)
    /\ UNCHANGED <<unacked, accepted, acked>>

ServerUnsubscribe ==
    /\ ServerReads("unsubscribe")
    /\ srvSubs' = srvSubs \ {SrvHead.sid}
    /\ UNCHANGED <<s2c, unacked, accepted, acked>>

\* The client acknowledges an event of the session; an acknowledgement of
\* anything else is ignored.
ServerAck ==
    /\ ServerReads("ack")
    /\ unacked' = {m \in unacked : m.n # SrvHead.n}
    /\ acked' = acked \cup {<<sess, m.n>> : m \in unacked \ unacked'}
    /\ UNCHANGED <<s2c, srvSubs, accepted>>

\* Replies to heartbeats, and the client's disconnect, change nothing here.
ServerIgnore ==
    /\ \E op \in {"heartbeat", "disconnect"} : ServerReads(op)
    /\ UNCHANGED <<s2c, srvSubs, unacked, accepted, acked>>

CanPush == srvWs \in Ws /\ pushed < MaxPush /\ pushed' = pushed + 1

\* An event for a subscription of the session, kept until it is acknowledged.
ServerEvent(sid) ==
    /\ "event" \in ServerSends
    /\ CanPush
    /\ sid \in srvSubs
    /\ srvSeq' = srvSeq + 1
    /\ LET m == Msg("event", srvSeq + 1, sid, TRUE)
       IN  /\ unacked' = unacked \cup {m}
           /\ s2c' = Written(s2c, srvWs, <<m>>)
    /\ UNCHANGED <<wsState, c2s, srvWs, sess, sessOf, srvSubs, accepted, acked>>

\* What the server sends unasked and does not keep: an event without a
\* sequence number, a heartbeat, an error, the end of a subscription.
ServerPush(op, sid) ==
    /\ CanPush
    /\ \/ op = "event" /\ "plain" \in ServerSends /\ sid \in srvSubs
       \/ op = "unsubscribed" /\ "revoke" \in ServerSends /\ sid \in srvSubs
       \/ op \in {"heartbeat", "error"} \cap ServerSends /\ sid = 0
    /\ srvSubs' = IF op = "unsubscribed" THEN srvSubs \ {sid} ELSE srvSubs
    /\ s2c' = Written(s2c, srvWs, <<Msg(op, 0, sid, op # "unsubscribed")>>)
    /\ UNCHANGED <<wsState, c2s, srvWs, sess, sessOf, srvSeq, unacked, accepted,
                   acked>>

ServerReply ==
    \/ \E w \in Ws : ServerLogin(w)
    \/ ServerPublish
    \/ ServerSubscribe
    \/ ServerUnsubscribe
    \/ ServerAck
    \/ ServerIgnore

ServerPushes ==
    \E sid \in srvSubs \cup {0} :
        \/ ServerEvent(sid)
        \/ \E op \in {"event", "unsubscribed", "heartbeat", "error"} :
            ServerPush(op, sid)

SrvTypeOK ==
    /\ srvWs \in 0..MaxConn
    /\ sess \in Nat
    /\ sessOf \in [Ws -> Nat]
    /\ srvSubs \subseteq Nat
    /\ srvSeq \in Nat
    /\ unacked \subseteq Msgs
    /\ IsFiniteSet(unacked)
    /\ accepted \subseteq Nat
    /\ acked \subseteq Nat \X Nat
    /\ pushed \in Nat
=============================================================================
