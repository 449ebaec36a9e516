---------------------------- MODULE EftlNetwork ----------------------------
(***************************************************************************)
(* The websocket connections between the eFTL client library              *)
(* (recipes/eftl-consumer/client/main.go) and its server.  The websocket    *)
(* library and the network are not part of the repository: what is stated  *)
(* here is what the client relies on.  A connection delivers in order      *)
(* in both directions until it is closed by the client or breaks.           *)
(***************************************************************************)
EXTENDS Integers, Sequences, FiniteSets

CONSTANTS
    MaxConn,    \* bound: websocket connections dialed in a behaviour
    Faults      \* the faults a configuration admits

AllFaults == {"break", "noresume", "dialfail", "badmsg", "reject"}

ASSUME MaxConnAssumption == MaxConn \in Nat \ {0}
ASSUME FaultsAssumption == Faults \subseteq AllFaults

Ws == 1..MaxConn

VARIABLES
    wsState,    \* wsState[w]: the state of connection w
    c2s,        \* c2s[w]: what the client wrote and the server has not read
    s2c,        \* s2c[w]: what the server wrote and the client has not read
    sessOf      \* sessOf[w]: the server's session that w logged in to (the
                \* server sets it; the client's history refers to it)

netVars == <<wsState, c2s, s2c>>

WsStates == {"unused", "open", "closed", "broken"}

(***************************************************************************)
(* The op codes of the protocol.  An event without a "seq" field has n = 0. *)
(***************************************************************************)
OpCodes == {"none", "heartbeat", "login", "welcome", "subscribe", "subscribed",
            "unsubscribe", "unsubscribed", "event", "publish", "ack", "error",
            "disconnect"}

(***************************************************************************)
(* A protocol message: n is the field "seq" (or "id_token"), sid the field  *)
(* "id" (or "to"), ok is FALSE when "err" is present and, in a welcome,     *)
(* the field "_resume".                                                     *)
(***************************************************************************)
Msgs == [op : OpCodes, n : Nat, sid : Nat, ok : BOOLEAN]

Msg(op, n, sid, ok) == [op |-> op, n |-> n, sid |-> sid, ok |-> ok]

NoMsg == Msg("none", 0, 0, TRUE)

(***************************************************************************)
(* What a direction holds once ms is written to w: a write to a             *)
(* connection that is closed or broken is lost.                             *)
(***************************************************************************)
Written(dir, w, ms) ==
    IF w \in Ws /\ wsState[w] = "open" THEN [dir EXCEPT ![w] = @ \o ms] ELSE dir

NetInit ==
    /\ wsState = [w \in Ws |-> "unused"]
    /\ c2s = [w \in Ws |-> <<>>]
    /\ s2c = [w \in Ws |-> <<>>]

(***************************************************************************)
(* The connection is lost (network failure, close by the server): what is   *)
(* in flight to the server is lost, the client may still read a prefix of   *)
(* what was in flight to it before its read fails.                          *)
(***************************************************************************)
Break(w) ==
    /\ "break" \in Faults
    /\ wsState[w] = "open"
    /\ wsState' = [wsState EXCEPT ![w] = "broken"]
    /\ c2s' = [c2s EXCEPT ![w] = <<>>]
    /\ UNCHANGED s2c

NetTypeOK ==
    /\ wsState \in [Ws -> WsStates]
    /\ c2s \in [Ws -> Seq(Msgs)]
    /\ s2c \in [Ws -> Seq(Msgs)]

(***************************************************************************)
(* The sequences that list the elements of S once each: in any order (a Go  *)
(* map is ranged over in no particular one), a set of numbers upwards, and  *)
(* a set of messages by their sequence numbers.                             *)
(***************************************************************************)
Listings(S) ==
    {q \in [1..Cardinality(S) -> S] :
        \A i, j \in 1..Cardinality(S) : i # j => q[i] # q[j]}

Ascending(S) ==
    {q \in [1..Cardinality(S) -> S] :
        \A i, j \in 1..Cardinality(S) : i < j => q[i] < q[j]}

InSeqOrder(S) ==
    {q \in [1..Cardinality(S) -> S] :
        \A i, j \in 1..Cardinality(S) : i < j => q[i].n < q[j].n}
=============================================================================
