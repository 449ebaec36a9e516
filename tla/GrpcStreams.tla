---------------------------- MODULE GrpcStreams ----------------------------
(***************************************************************************)
(* The pet store of recipes/grpc-to-grpc-gateway/main.go: one server        *)
(* process (go run main.go -server) and client processes that call one      *)
(* method each (go run main.go -client -method ...).                        *)
(*                                                                         *)
(* gRPC is not part of the repository.  A call has a stream in each         *)
(* direction, with room for Window messages, and ends when the handler      *)
(* returns or the connection is cut.  The users sent are numbered, and a    *)
(* stream keeps their order, so numbers of users stand for the users.       *)
(***************************************************************************)
EXTENDS Integers

CONSTANTS
    Clients,        \* client processes
    Methods,        \* Methods[c]: the methods that c may call
    N,              \* users BulkUsers sends (10 in the code)
    Window,         \* messages a stream holds before Send blocks
    MaxUsers        \* bound: MaxUsers[c] users sent by ListUsers and StoreUsers

AllMethods == {"pet", "user", "listusers", "storeusers", "bulkusers"}

ASSUME MethodsAssumption == Methods \in [Clients -> SUBSET AllMethods]
ASSUME BoundsAssumption ==
    /\ N \in Nat
    /\ Window \in Nat \ {0}
    /\ MaxUsers \in [Clients -> Nat]

VARIABLES
    server,     \* the server process
    exit,       \* exit[c]: the exit channel of c's ListUsers handler
    h,          \* h[c]: where the handler of c's call is
    hg,         \* hg[c]: the handler's receiving goroutine; done: waits is closed
    hsent, hrc, \* users the handler of c sent and received (i and rc)
    method,     \* method[c]: the method c calls
    pc,         \* pc[c]: where c's main goroutine is
    cg,         \* cg[c]: c's second goroutine; done: waitc is closed
    sig,        \* sig[c]: an interrupt is in the channel of StoreUsers
    csent, crc, \* users c sent and received
    reply,      \* reply[c]: the number of users in the reply to StoreUsers
    st,         \* st[c]: the state of the call
    up, upEnd,  \* users on their way to the server; the end of them
    down        \* users on their way to c

serverVars == <<server, exit>>
handlerVars == <<h, hg, hsent, hrc, reply>>
clientVars == <<method, pc, cg, sig, csent, crc>>
streamVars == <<st, up, upEnd, down>>
vars == <<serverVars, handlerVars, clientVars, streamVars>>

NoReply == -1
Ended == {"done", "fatal", "exited", "panic", "killed"}
ClientPcs == {"idle", "pet", "user", "listusers", "listErr", "storeusers",
              "storeReply", "bulkusers", "bulkWait"} \cup Ended
HandlerPcs == {"none", "listusers", "listSend", "storeusers", "bulkusers",
               "bulkWait", "done"}
Goroutine == {"none", "run", "send", "done"}

\* The state of a call: "ok" and "error" are what the handler returned.
CallStates == {"none", "open", "ok", "error", "cut"}

Init ==
    /\ server = "up"
    /\ exit = [c \in Clients |-> "none"]
    /\ h = [c \in Clients |-> "none"]
    /\ hg = [c \in Clients |-> "none"]
    /\ hsent = [c \in Clients |-> 0]
    /\ hrc = [c \in Clients |-> 0]
    /\ reply = [c \in Clients |-> NoReply]
    /\ method = [c \in Clients |-> "none"]
    /\ pc = [c \in Clients |-> "idle"]
    /\ cg = [c \in Clients |-> "none"]
    /\ sig = [c \in Clients |-> FALSE]
    /\ csent = [c \in Clients |-> 0]
    /\ crc = [c \in Clients |-> 0]
    /\ st = [c \in Clients |-> "none"]
    /\ up = [c \in Clients |-> 0]
    /\ upEnd = [c \in Clients |-> FALSE]
    /\ down = [c \in Clients |-> 0]

Set(f, c, value) == f' = [f EXCEPT ![c] = value]
Incr(f, c) == f' = [f EXCEPT ![c] = @ + 1]
Decr(f, c) == f' = [f EXCEPT ![c] = @ - 1]

-----------------------------------------------------------------------------
(***************************************************************************)
(* Streams.  A Send blocks while the stream is full.  Once the call is      *)
(* over, a Send fails, or succeeds if its side has not heard of it yet.     *)
(***************************************************************************)
CanSend(c, stream) == st[c] = "open" /\ stream[c] < Window
Over(c) == st[c] \notin {"none", "open"}

Send(c, stream, count) ==
    /\ CanSend(c, stream)
    /\ Incr(stream, c)
    /\ Incr(count, c)
SendLost(c, stream, count) ==
    /\ Over(c)
    /\ UNCHANGED stream
    /\ Incr(count, c)

RecvOne(c, stream, count) ==
    /\ stream[c] > 0
    /\ Decr(stream, c)
    /\ Incr(count, c)

\* The calls of the clients in S are cut: what is on its way may be lost, and
\* is, to a process that has ended.
Remains(stream, S, ended) ==
    {r \in [Clients -> 0..Window] : \A c \in Clients :
        IF c \notin S \/ st[c] # "open" THEN r[c] = stream[c]
        ELSE r[c] <= stream[c] /\ (c \in ended => r[c] = 0)}
Cut(S, noServer, noClient) ==
    /\ st' = [c \in Clients |-> IF c \in S /\ st[c] = "open" THEN "cut" ELSE st[c]]
    /\ up' \in Remains(up, S, noServer)
    /\ down' \in Remains(down, S, noClient)
    /\ UNCHANGED upEnd

\* The handler of c returns.
Return(c, status) ==
    /\ Set(h, c, "done")
    /\ st' = [st EXCEPT ![c] = IF @ = "open" THEN status ELSE @]
    /\ UNCHANGED <<up, upEnd, down>>

-----------------------------------------------------------------------------
(***************************************************************************)
(* The server                                                              *)
(***************************************************************************)
\* The call of c reaches its handler.
Serve(c) ==
    /\ server = "up" /\ h[c] = "none" /\ st[c] \in {"open", "cut"}
    /\ method[c] \in {"listusers", "storeusers", "bulkusers"}
    /\ Set(h, c, method[c])
    /\ exit' = [exit EXCEPT ![c] = IF method[c] = "listusers" THEN "open" ELSE @]
    /\ hg' = [hg EXCEPT ![c] = IF method[c] = "bulkusers" THEN "run" ELSE @]
    /\ UNCHANGED <<server, hsent, hrc, reply, clientVars, streamVars>>

\* PetById and UserByName: the pet or user is in the map, or it is not.
PetById(c) ==
    /\ server = "up" /\ h[c] = "none" /\ st[c] \in {"open", "cut"}
    /\ method[c] \in {"pet", "user"}
    /\ \E status \in {"ok", "error"} : Return(c, status)
    /\ UNCHANGED <<serverVars, hg, hsent, hrc, reply, clientVars>>

\* The process ends, and with it every handler and connection.
ServerEnds(how) ==
    /\ server' = how
    /\ Cut(Clients, Clients, {})

\* default: the handler goes to send another user, whatever comes meanwhile.
ListUsersSelect(c) ==
    /\ server = "up" /\ h[c] = "listusers" /\ exit[c] = "open"
    /\ hsent[c] < MaxUsers[c] \/ Over(c)
    /\ Set(h, c, "listSend")
    /\ UNCHANGED <<serverVars, hg, hsent, hrc, reply, clientVars, streamVars>>
ListUsersSend(c) ==
    /\ server = "up" /\ h[c] = "listSend"
    /\ \/ /\ \/ Send(c, down, hsent)
             \/ hsent[c] < MaxUsers[c] /\ SendLost(c, down, hsent)
          /\ Set(h, c, "listusers")
          /\ UNCHANGED <<server, st, up, upEnd>>
       \/ /\ Over(c)
          /\ ServerEnds("exited")       \* os.Exit(0)
          /\ UNCHANGED <<h, hsent>>
    /\ UNCHANGED <<exit, hg, hrc, reply, clientVars>>

\* Mutant: the handler forgets to return.
ListUsersExitStays(c) ==
    /\ server = "up" /\ h[c] = "listusers" /\ exit[c] = "signalled"
    /\ Set(exit, c, "closed")
    /\ UNCHANGED <<server, handlerVars, clientVars, streamVars>>

\* case <-exit: close(exit); return nil.  The select prefers it to default.
ListUsersExit(c) ==
    /\ server = "up" /\ h[c] = "listusers" /\ exit[c] = "signalled"
    /\ Set(exit, c, "closed")
    /\ Return(c, "ok")
    /\ UNCHANGED <<server, hg, hsent, hrc, reply, clientVars>>

\* Mutant: the handler replies when it has read all there is so far.
StoreUsersEager(c) ==
    /\ server = "up" /\ h[c] = "storeusers"
    /\ \/ /\ RecvOne(c, up, hrc)
          /\ UNCHANGED <<st, upEnd, down, h, reply>>
       \/ /\ up[c] = 0 /\ (hrc[c] > 0 \/ upEnd[c]) /\ st[c] = "open"
          /\ Set(reply, c, hrc[c])
          /\ Return(c, "ok")
          /\ UNCHANGED hrc
       \/ /\ up[c] = 0 /\ Over(c)
          /\ Return(c, "error")
          /\ UNCHANGED <<hrc, reply>>
    /\ UNCHANGED <<serverVars, hg, hsent, clientVars>>

\* A user, the end of them, or an error.
StoreUsers(c) ==
    /\ server = "up" /\ h[c] = "storeusers"
    /\ \/ /\ RecvOne(c, up, hrc)
          /\ UNCHANGED <<st, upEnd, down, h, reply>>
       \/ /\ up[c] = 0 /\ upEnd[c] /\ st[c] = "open"    \* SendAndClose
          /\ Set(reply, c, hrc[c])
          /\ Return(c, "ok")
          /\ UNCHANGED hrc
       \/ /\ up[c] = 0 /\ Over(c)
          /\ Return(c, "error")
          /\ UNCHANGED <<hrc, reply>>
    /\ UNCHANGED <<serverVars, hg, hsent, clientVars>>

\* Mutant: one user too many.
BulkUsersSendOneMore(c) ==
    /\ server = "up" /\ h[c] = "bulkusers"
    /\ \/ /\ hsent[c] <= N
          /\ \/ Send(c, down, hsent) /\ UNCHANGED <<st, up, upEnd, h>>
             \/ SendLost(c, down, hsent) /\ UNCHANGED <<st, up, upEnd, h>>
             \/ Over(c) /\ Return(c, "error") /\ UNCHANGED hsent
       \/ /\ hsent[c] = N + 1
          /\ Set(h, c, "bulkWait")
          /\ UNCHANGED <<hsent, streamVars>>
    /\ UNCHANGED <<serverVars, hg, hrc, reply, clientVars>>

BulkUsersSend(c) ==
    /\ server = "up" /\ h[c] = "bulkusers"
    /\ \/ /\ hsent[c] < N
          /\ \/ Send(c, down, hsent) /\ UNCHANGED <<st, up, upEnd, h>>
             \/ SendLost(c, down, hsent) /\ UNCHANGED <<st, up, upEnd, h>>
             \/ Over(c) /\ Return(c, "error") /\ UNCHANGED hsent
       \/ /\ hsent[c] = N
          /\ Set(h, c, "bulkWait")
          /\ UNCHANGED <<hsent, streamVars>>
    /\ UNCHANGED <<serverVars, hg, hrc, reply, clientVars>>

\* Mutant: only the end of the stream ends the goroutine.
BulkUsersRecvToEnd(c) ==
    /\ server = "up" /\ hg[c] = "run"
    /\ \/ RecvOne(c, up, hrc) /\ UNCHANGED hg
       \/ /\ up[c] = 0 /\ upEnd[c]
          /\ Set(hg, c, "done")
          /\ UNCHANGED <<up, hrc>>
    /\ UNCHANGED <<serverVars, h, hsent, reply, clientVars, st, upEnd, down>>

\* The goroutine of BulkUsers: it closes waits at the end or an error.
BulkUsersRecv(c) ==
    /\ server = "up" /\ hg[c] = "run"
    /\ \/ RecvOne(c, up, hrc) /\ UNCHANGED hg
       \/ /\ up[c] = 0 /\ (upEnd[c] \/ Over(c))
          /\ Set(hg, c, "done")
          /\ UNCHANGED <<up, hrc>>
    /\ UNCHANGED <<serverVars, h, hsent, reply, clientVars, st, upEnd, down>>

\* Mutant: the handler does not wait for its goroutine.
BulkUsersReturnAtOnce(c) ==
    /\ server = "up" /\ h[c] = "bulkWait"
    /\ Return(c, "ok")
    /\ UNCHANGED <<serverVars, hg, hsent, hrc, reply, clientVars>>

BulkUsersReturn(c) ==
    /\ server = "up" /\ h[c] = "bulkWait" /\ hg[c] = "done"   \* <-waits
    /\ Return(c, "ok")
    /\ UNCHANGED <<serverVars, hg, hsent, hrc, reply, clientVars>>

(***************************************************************************)
(* An interrupt kills a process in which no handler has asked for it with   *)
(* signal.Notify.  Otherwise it is sent to every channel ever given: one    *)
(* that a handler has closed makes the send, and the process, panic.        *)
(***************************************************************************)
Interrupt ==
    /\ server = "up"
    /\ \/ /\ \A c \in Clients : exit[c] = "none"
          /\ ServerEnds("killed")
          /\ UNCHANGED exit
       \/ /\ \E c \in Clients : exit[c] = "closed"
          /\ ServerEnds("panic")
          /\ UNCHANGED exit
       \/ /\ \E c \in Clients : exit[c] # "none"
          /\ \A c \in Clients : exit[c] # "closed"
          /\ exit' = [c \in Clients |->
                        IF exit[c] = "open" THEN "signalled" ELSE exit[c]]
          /\ UNCHANGED <<server, streamVars>>
    /\ UNCHANGED <<handlerVars, clientVars>>

-----------------------------------------------------------------------------
(***************************************************************************)
(* The clients                                                             *)
(***************************************************************************)
\* callClient.  When the call fails at once there is no stream: a unary call
\* ends in log.Fatal, a streaming one prints the error and uses the nil stream.
Call(c, m) ==
    /\ pc[c] = "idle"
    /\ Set(method, c, m)
    /\ \/ /\ server = "up"
          /\ Set(st, c, "open")
          /\ Set(pc, c, m)
          /\ cg' = [cg EXCEPT ![c] = IF m \in {"storeusers", "bulkusers"}
                                     THEN "run" ELSE @]
       \/ /\ Set(pc, c, IF m \in {"pet", "user"} THEN "fatal" ELSE "panic")
          /\ UNCHANGED <<st, cg>>
    /\ UNCHANGED <<serverVars, handlerVars, sig, csent, crc, up, upEnd, down>>

\* PetById and UserByName of the client
Unary(c) ==
    /\ pc[c] \in {"pet", "user"} /\ Over(c)
    /\ Set(pc, c, IF st[c] = "ok" THEN "done" ELSE "fatal")
    /\ UNCHANGED <<serverVars, handlerVars, method, cg, sig, csent, crc, streamVars>>

\* After an error that is not io.EOF the loop goes on, for ever: "listErr".
ClientListUsers(c) ==
    /\ pc[c] \in {"listusers", "listErr"}
    /\ \/ down[c] > 0 /\ Decr(down, c) /\ UNCHANGED pc
       \/ /\ down[c] = 0 /\ Over(c)
          /\ Set(pc, c, IF st[c] = "ok" THEN "done" ELSE "listErr")
          /\ UNCHANGED down
    /\ UNCHANGED <<serverVars, handlerVars, method, cg, sig, csent, crc, st, up,
                   upEnd>>

\* The goroutine of StoreUsers: it closes waitc when interrupted or at an error.
ClientStoreSelect(c) ==
    /\ pc[c] = "storeusers" /\ cg[c] = "run"
    /\ \/ /\ ~sig[c]
          /\ csent[c] < MaxUsers[c] \/ Over(c)
          /\ Set(cg, c, "send")
          /\ UNCHANGED sig
       \/ /\ sig[c]
          /\ Set(cg, c, "done")
          /\ Set(sig, c, FALSE)
    /\ UNCHANGED <<serverVars, handlerVars, method, pc, csent, crc, streamVars>>
ClientStoreSend(c) ==
    /\ pc[c] = "storeusers" /\ cg[c] = "send"
    /\ \/ /\ \/ Send(c, up, csent)
             \/ csent[c] < MaxUsers[c] /\ SendLost(c, up, csent)
          /\ Set(cg, c, "run")
       \/ /\ Over(c)
          /\ Set(cg, c, "done")
          /\ UNCHANGED <<up, csent>>
    /\ UNCHANGED <<serverVars, handlerVars, method, pc, sig, crc, st, upEnd, down>>

\* CloseAndRecv: the end of the stream, and then the reply or an error.
ClientStoreClose(c) ==
    /\ pc[c] = "storeusers" /\ cg[c] = "done"           \* <-waitc
    /\ Set(pc, c, "storeReply")
    /\ Set(upEnd, c, TRUE)
    /\ UNCHANGED <<serverVars, handlerVars, method, cg, sig, csent, crc, st, up, down>>
ClientStoreReply(c) ==
    /\ pc[c] = "storeReply" /\ Over(c)
    /\ Set(pc, c, "done")
    /\ UNCHANGED <<serverVars, handlerVars, method, cg, sig, csent, crc, streamVars>>

\* Mutant: CloseSend is forgotten.
ClientBulkSendNoClose(c) ==
    /\ pc[c] = "bulkusers"
    /\ \/ /\ csent[c] < N
          /\ Send(c, up, csent) \/ SendLost(c, up, csent)
          /\ UNCHANGED <<pc, upEnd>>
       \/ /\ csent[c] < N /\ Over(c)
          /\ Set(pc, c, "exited")
          /\ UNCHANGED <<up, csent, upEnd>>
       \/ /\ csent[c] = N
          /\ Set(pc, c, "bulkWait")
          /\ UNCHANGED <<up, csent, upEnd>>
    /\ UNCHANGED <<serverVars, handlerVars, method, cg, sig, crc, st, down>>

\* The loop of BulkUsers and CloseSend.
ClientBulkSend(c) ==
    /\ pc[c] = "bulkusers"
    /\ \/ /\ csent[c] < N
          /\ Send(c, up, csent) \/ SendLost(c, up, csent)
          /\ UNCHANGED <<pc, upEnd>>
       \/ /\ csent[c] < N /\ Over(c)
          /\ Set(pc, c, "exited")                       \* os.Exit(0)
          /\ UNCHANGED <<up, csent, upEnd>>
       \/ /\ csent[c] = N
          /\ Set(pc, c, "bulkWait")
          /\ Set(upEnd, c, TRUE)
          /\ UNCHANGED <<up, csent>>
    /\ UNCHANGED <<serverVars, handlerVars, method, cg, sig, crc, st, down>>

\* Mutant: the goroutine closes waitc at an error too, and the process goes on.
ClientBulkRecvErrorEnds(c) ==
    /\ pc[c] \in {"bulkusers", "bulkWait"} /\ cg[c] = "run"
    /\ \/ RecvOne(c, down, crc) /\ UNCHANGED cg
       \/ /\ down[c] = 0 /\ Over(c)
          /\ Set(cg, c, "done")
          /\ UNCHANGED <<down, crc>>
    /\ UNCHANGED <<serverVars, handlerVars, method, pc, sig, csent, st, up, upEnd>>

\* The goroutine of BulkUsers: an error ends the process (log.Fatalf).
ClientBulkRecv(c) ==
    /\ pc[c] \in {"bulkusers", "bulkWait"} /\ cg[c] = "run"
    /\ \/ RecvOne(c, down, crc) /\ UNCHANGED <<cg, pc>>
       \/ /\ down[c] = 0 /\ Over(c)
          /\ IF st[c] = "ok" THEN Set(cg, c, "done") /\ UNCHANGED pc
             ELSE Set(pc, c, "fatal") /\ UNCHANGED cg
          /\ UNCHANGED <<down, crc>>
    /\ UNCHANGED <<serverVars, handlerVars, method, sig, csent, st, up, upEnd>>

ClientBulkDone(c) ==
    /\ pc[c] = "bulkWait" /\ cg[c] = "done"             \* <-waitc
    /\ Set(pc, c, "done")
    /\ UNCHANGED <<serverVars, handlerVars, method, cg, sig, csent, crc, streamVars>>

\* An interrupt of a client: StoreUsers has asked for it, the others are killed.
ClientInterrupt(c) ==
    /\ pc[c] \notin Ended \cup {"idle"}
    /\ \/ /\ pc[c] = "storeusers" /\ cg[c] \in {"run", "send"} /\ ~sig[c]
          /\ Set(sig, c, TRUE)
          /\ UNCHANGED <<pc, streamVars>>
       \/ /\ method[c] # "storeusers"
          /\ Set(pc, c, "killed")
          /\ Cut({c}, {}, {c})
          /\ UNCHANGED sig
    /\ UNCHANGED <<serverVars, handlerVars, method, cg, csent, crc>>

\* The network, or the gateway between client and server, fails.
ConnectionFails(c) ==
    /\ st[c] = "open"
    /\ Cut({c}, {}, {})
    /\ UNCHANGED <<serverVars, handlerVars, clientVars>>

-----------------------------------------------------------------------------
ServerStep(c) ==
    \/ Serve(c) \/ PetById(c) \/ ListUsersSelect(c) \/ ListUsersSend(c)
    \/ ListUsersExit(c) \/ StoreUsers(c) \/ BulkUsersSend(c) \/ BulkUsersReturn(c)
ClientStep(c) ==
    \/ Unary(c) \/ ClientListUsers(c) \/ ClientStoreClose(c) \/ ClientStoreReply(c)
    \/ ClientBulkSend(c) \/ ClientBulkDone(c)

Next ==
    \/ Interrupt
    \/ \E c \in Clients :
        \/ \E m \in Methods[c] : Call(c, m)
        \/ ServerStep(c) \/ BulkUsersRecv(c)
        \/ ClientStep(c) \/ ClientStoreSelect(c) \/ ClientStoreSend(c) \/ ClientBulkRecv(c)
        \/ ClientInterrupt(c) \/ ConnectionFails(c)

Spec == Init /\ [][Next]_vars

\* Every goroutine that can go on does, in the end.  Nothing makes anybody
\* call, interrupt a process or cut a connection.
FairSpec ==
    /\ Spec
    /\ \A c \in Clients :
        /\ WF_vars(ServerStep(c)) /\ WF_vars(BulkUsersRecv(c))
        /\ WF_vars(ClientStep(c))
        /\ WF_vars(ClientStoreSelect(c) \/ ClientStoreSend(c))
        /\ WF_vars(ClientBulkRecv(c))

-----------------------------------------------------------------------------
\* Every variable has its type, and BulkUsers sends at most N users.
TypeInv ==
    /\ server \in {"up", "exited", "killed", "panic"}
    /\ exit \in [Clients -> {"none", "open", "signalled", "closed"}]
    /\ h \in [Clients -> HandlerPcs]
    /\ hg \in [Clients -> Goroutine]
    /\ hsent \in [Clients -> Nat] /\ hrc \in [Clients -> Nat]
    /\ reply \in [Clients -> Nat \cup {NoReply}]
    /\ method \in [Clients -> AllMethods \cup {"none"}]
    /\ pc \in [Clients -> ClientPcs]
    /\ cg \in [Clients -> Goroutine]
    /\ sig \in [Clients -> BOOLEAN]
    /\ csent \in [Clients -> Nat] /\ crc \in [Clients -> Nat]
    /\ st \in [Clients -> CallStates]
    /\ up \in [Clients -> 0..Window]
    /\ upEnd \in [Clients -> BOOLEAN]
    /\ down \in [Clients -> 0..Window]
    /\ \A c \in Clients :
        method[c] = "bulkusers" => csent[c] <= N /\ hsent[c] <= N

\* When BulkUsers returns at the client, each side has sent N users and
\* received the N of the other: the handler returns only after its goroutine
\* has seen the end of the client's stream.
BulkComplete ==
    \A c \in Clients : method[c] = "bulkusers" /\ pc[c] = "done" =>
        /\ csent[c] = N /\ hrc[c] = N
        /\ hsent[c] = N /\ crc[c] = N

\* The reply to StoreUsers counts the users that the client sent, also when
\* the interrupt comes while users are on their way.
StoreCount ==
    \A c \in Clients : reply[c] # NoReply => reply[c] = csent[c]

\* The inductive invariant of the two counts.  Who is where decides the method
\* of a call.  What was sent and not received is on its way, as long as the
\* call is open; and users that are received late are received before the
\* handler returns, because its goroutine first meets the end of the stream.
WhereInv(c) ==
    /\ pc[c] \in AllMethods => method[c] = pc[c]
    /\ pc[c] = "listErr" => method[c] = "listusers"
    /\ pc[c] = "storeReply" => method[c] = "storeusers"
    /\ pc[c] = "bulkWait" => method[c] = "bulkusers"
    /\ pc[c] = "done" /\ method[c] = "bulkusers" => cg[c] = "done"
    /\ h[c] \in AllMethods => method[c] = h[c]
    /\ h[c] = "listSend" => method[c] = "listusers"
    /\ h[c] = "bulkWait" \/ hg[c] # "none" => method[c] = "bulkusers"
    /\ pc[c] \notin {"idle", "fatal", "panic"} => st[c] # "none"
NoCallInv(c) ==
    /\ pc[c] = "idle" => st[c] = "none"
    /\ st[c] = "none" =>
        /\ h[c] = "none" /\ hg[c] = "none" /\ cg[c] = "none"
        /\ ~upEnd[c] /\ up[c] = 0 /\ down[c] = 0 /\ reply[c] = NoReply
        /\ csent[c] = 0 /\ hrc[c] = 0 /\ hsent[c] = 0 /\ crc[c] = 0
FlowInv(c) ==
    /\ st[c] = "open" => csent[c] = hrc[c] + up[c]
    /\ st[c] \in {"open", "ok"} /\ method[c] # "listusers" =>
        hsent[c] = crc[c] + down[c]
    /\ upEnd[c] => pc[c] \notin {"storeusers", "bulkusers"}
    /\ upEnd[c] /\ method[c] = "bulkusers" => csent[c] = N
    /\ h[c] = "bulkWait" => hsent[c] = N
    /\ st[c] = "open" /\ hg[c] = "done" => up[c] = 0 /\ upEnd[c]
    /\ st[c] = "ok" /\ method[c] = "bulkusers" =>
        /\ upEnd[c] /\ h[c] = "done" /\ hg[c] = "done"
        /\ hsent[c] = N /\ hrc[c] = N
    /\ cg[c] = "done" /\ method[c] = "bulkusers" => st[c] = "ok" /\ down[c] = 0
    /\ reply[c] # NoReply => reply[c] = csent[c] /\ upEnd[c]
StreamInv == \A c \in Clients : WhereInv(c) /\ NoCallInv(c) /\ FlowInv(c)

\* BulkUsers does not hang, with both sides sending into full streams, one
\* side failing, or the other process ending; nor does a StoreUsers that was
\* interrupted.
CallReturns ==
    \A c \in Clients : pc[c] = "bulkusers" \/ sig[c] ~> pc[c] \in Ended

\* A handler that is told of an interrupt stops its client's ListUsers, unless
\* the server process ends first or the connection is cut.
InterruptStopsList ==
    \A c \in Clients : exit[c] = "signalled" ~>
        pc[c] \in Ended \/ server # "up" \/ st[c] = "cut"

\* A client that is gone leaves no handler and no goroutine behind at the
\* server, or ends the server.
NothingLeftBehind ==
    \A c \in Clients : pc[c] \in Ended /\ st[c] # "none" ~>
        server # "up" \/ (h[c] = "done" /\ hg[c] # "run")
=============================================================================
