------------------------- MODULE GrpcStreamsProofs -------------------------
(***************************************************************************)
(* The counts of the pet store's streaming calls, proved for every number   *)
(* of clients and users and every window.                                   *)
(***************************************************************************)
EXTENDS GrpcStreams, TLAPS

Inv == TypeInv /\ StreamInv

CInv(c) == WhereInv(c) /\ NoCallInv(c) /\ FlowInv(c)

\* What CInv(d) speaks of stays as it is.
SameCall(d) ==
    /\ method'[d] = method[d] /\ pc'[d] = pc[d] /\ cg'[d] = cg[d]
    /\ csent'[d] = csent[d] /\ crc'[d] = crc[d]
    /\ h'[d] = h[d] /\ hg'[d] = hg[d] /\ hsent'[d] = hsent[d] /\ hrc'[d] = hrc[d]
    /\ reply'[d] = reply[d] /\ upEnd'[d] = upEnd[d]
SameStream(d) == st'[d] = st[d] /\ up'[d] = up[d] /\ down'[d] = down[d]

\* A call nobody touches keeps its invariant.
LEMMA Frame ==
    ASSUME NEW d \in Clients, CInv(d), SameCall(d), SameStream(d)
    PROVE  CInv(d)'
  BY DEF CInv, WhereInv, NoCallInv, FlowInv, SameCall, SameStream

\* So does one that is cut, whatever is lost on the way.
LEMMA CutFrame ==
    ASSUME NEW d \in Clients, CInv(d), SameCall(d), st[d] = "open", st'[d] = "cut"
    PROVE  CInv(d)'
  BY DEF CInv, WhereInv, NoCallInv, FlowInv, SameCall

\* Cut leaves the streams alone, or cuts calls that are open.
LEMMA CutCalls ==
    ASSUME TypeInv, NEW S, NEW X, NEW Y, Cut(S, X, Y), NEW d \in Clients
    PROVE  \/ SameStream(d)
           \/ st[d] = "open" /\ st'[d] = "cut"
  BY DEF Cut, Remains, SameStream, TypeInv

LEMMA CutType ==
    ASSUME TypeInv, NEW S, NEW X, NEW Y, Cut(S, X, Y)
    PROVE  /\ st' \in [Clients -> CallStates]
           /\ up' \in [Clients -> 0..Window] /\ down' \in [Clients -> 0..Window]
           /\ upEnd' = upEnd
  BY DEF Cut, Remains, TypeInv, CallStates

-----------------------------------------------------------------------------
LEMMA TypeInit == Init => TypeInv
  BY BoundsAssumption
  DEF Init, TypeInv, HandlerPcs, Goroutine, ClientPcs, Ended, CallStates, NoReply

LEMMA StreamInit == Init => StreamInv
<1> SUFFICES ASSUME Init, NEW c \in Clients
             PROVE  CInv(c)
  BY DEF StreamInv, CInv
<1>1. WhereInv(c)
  BY DEF Init, WhereInv, AllMethods
<1>2. NoCallInv(c)
  BY DEF Init, NoCallInv
<1>3. FlowInv(c)
  <2>1. /\ h[c] = "none" /\ hg[c] = "none" /\ cg[c] = "none" /\ st[c] = "none"
        /\ reply[c] = NoReply /\ ~upEnd[c]
    BY DEF Init
  <2> QED  BY <2>1 DEF FlowInv
<1> QED  BY <1>1, <1>2, <1>3 DEF CInv

(***************************************************************************)
(* The steps of one call.  Each leaves the other calls alone.               *)
(***************************************************************************)
LEMMA OneCall ==
    ASSUME Inv, TypeInv', NEW c \in Clients, CInv(c)',
           \A d \in Clients \ {c} : SameCall(d) /\ SameStream(d)
    PROVE  Inv'
<1>1. ASSUME NEW d \in Clients, d # c  PROVE CInv(d)'
  <2>1. CInv(d) /\ SameCall(d) /\ SameStream(d)
    BY <1>1 DEF Inv, StreamInv, CInv
  <2> QED  BY <2>1, Frame
<1> QED  BY <1>1 DEF Inv, StreamInv, CInv

LEMMA ServeKeeps ==
    ASSUME Inv, NEW c \in Clients, Serve(c)
    PROVE  Inv'
<1> USE BoundsAssumption DEF Serve, Set, Incr, Decr, serverVars, handlerVars,
        clientVars, streamVars
<1>1. TypeInv'
  BY DEF Inv, TypeInv, HandlerPcs, Goroutine, ClientPcs, Ended,
         CallStates, NoReply, AllMethods
<1>2. \A d \in Clients \ {c} : SameCall(d) /\ SameStream(d)
  BY DEF Inv, TypeInv, SameCall, SameStream
<1>3. CInv(c)'
  BY DEF Inv, StreamInv, CInv, WhereInv, NoCallInv, FlowInv, TypeInv, HandlerPcs,
         Goroutine, ClientPcs, Ended, CallStates, NoReply, AllMethods
<1> QED  BY <1>1, <1>2, <1>3, OneCall

LEMMA PetByIdKeeps ==
    ASSUME Inv, NEW c \in Clients, PetById(c)
    PROVE  Inv'
<1> USE BoundsAssumption DEF PetById, Return, Set, Incr, Decr, serverVars,
        handlerVars, clientVars, streamVars
<1>1. TypeInv'
  BY DEF Inv, TypeInv, HandlerPcs, Goroutine, ClientPcs, Ended,
         CallStates, NoReply, AllMethods
<1>2. \A d \in Clients \ {c} : SameCall(d) /\ SameStream(d)
  BY DEF Inv, TypeInv, SameCall, SameStream
<1>3. CInv(c)'
  BY DEF Inv, StreamInv, CInv, WhereInv, NoCallInv, FlowInv, TypeInv, HandlerPcs,
         Goroutine, ClientPcs, Ended, CallStates, NoReply, AllMethods
<1> QED  BY <1>1, <1>2, <1>3, OneCall

LEMMA ListUsersSelectKeeps ==
    ASSUME Inv, NEW c \in Clients, ListUsersSelect(c)
    PROVE  Inv'
<1> USE BoundsAssumption DEF ListUsersSelect, Over, Set, Incr, Decr,
        serverVars, handlerVars, clientVars, streamVars
<1>1. TypeInv'
  BY DEF Inv, TypeInv, HandlerPcs, Goroutine, ClientPcs, Ended,
         CallStates, NoReply, AllMethods
<1>2. \A d \in Clients \ {c} : SameCall(d) /\ SameStream(d)
  BY DEF Inv, TypeInv, SameCall, SameStream
<1>3. CInv(c)'
  BY DEF Inv, StreamInv, CInv, WhereInv, NoCallInv, FlowInv, TypeInv, HandlerPcs,
         Goroutine, ClientPcs, Ended, CallStates, NoReply, AllMethods
<1> QED  BY <1>1, <1>2, <1>3, OneCall

LEMMA ListUsersExitKeeps ==
    ASSUME Inv, NEW c \in Clients, ListUsersExit(c)
    PROVE  Inv'
<1> USE BoundsAssumption DEF ListUsersExit, Return, Set, Incr, Decr,
        serverVars, handlerVars, clientVars, streamVars
<1>1. TypeInv'
  BY DEF Inv, TypeInv, HandlerPcs, Goroutine, ClientPcs, Ended,
         CallStates, NoReply, AllMethods
<1>2. \A d \in Clients \ {c} : SameCall(d) /\ SameStream(d)
  BY DEF Inv, TypeInv, SameCall, SameStream
<1>3. CInv(c)'
  BY DEF Inv, StreamInv, CInv, WhereInv, NoCallInv, FlowInv, TypeInv, HandlerPcs,
         Goroutine, ClientPcs, Ended, CallStates, NoReply, AllMethods
<1> QED  BY <1>1, <1>2, <1>3, OneCall

LEMMA StoreUsersKeeps ==
    ASSUME Inv, NEW c \in Clients, StoreUsers(c)
    PROVE  Inv'
<1> USE BoundsAssumption DEF StoreUsers, Return, RecvOne, Over, Set, Incr,
        Decr, serverVars, handlerVars, clientVars, streamVars
<1>1. TypeInv'
  <2>1. up' \in [Clients -> 0..Window] /\ hrc' \in [Clients -> Nat]
    BY DEF Inv, TypeInv
  <2>2. reply' \in [Clients -> Nat \cup {NoReply}]
    BY DEF Inv, TypeInv
  <2>3. h' \in [Clients -> HandlerPcs] /\ st' \in [Clients -> CallStates]
    BY DEF Inv, TypeInv, HandlerPcs, CallStates
  <2>4. UNCHANGED <<serverVars, hg, hsent, clientVars, upEnd, down>>
    OBVIOUS
  <2> HIDE DEF StoreUsers, Return, RecvOne
  <2> QED  BY <2>1, <2>2, <2>3, <2>4 DEF Inv, TypeInv
<1>2. \A d \in Clients \ {c} : SameCall(d) /\ SameStream(d)
  BY DEF Inv, TypeInv, SameCall, SameStream
<1>3. CInv(c)'
  <2> USE DEF Inv, StreamInv, CInv, WhereInv, NoCallInv, FlowInv, TypeInv, HandlerPcs,
         Goroutine, ClientPcs, Ended, CallStates, NoReply, AllMethods
  <2>1. WhereInv(c)'
    OBVIOUS
  <2>2. NoCallInv(c)'
    OBVIOUS
  <2>3. FlowInv(c)'
    OBVIOUS
  <2> QED  BY <2>1, <2>2, <2>3 DEF CInv
<1> QED  BY <1>1, <1>2, <1>3, OneCall

LEMMA BulkUsersSendKeeps ==
    ASSUME Inv, NEW c \in Clients, BulkUsersSend(c)
    PROVE  Inv'
<1> USE BoundsAssumption DEF BulkUsersSend, Return, Send, SendLost, CanSend,
        Over, Set, Incr, Decr, serverVars, handlerVars, clientVars, streamVars
<1>1. TypeInv'
  <2>1. down' \in [Clients -> 0..Window] /\ hsent' \in [Clients -> Nat]
    BY DEF Inv, TypeInv
  <2>2. \A d \in Clients : method'[d] = "bulkusers" => hsent'[d] <= N
    BY DEF Inv, TypeInv
  <2>3. h' \in [Clients -> HandlerPcs] /\ st' \in [Clients -> CallStates]
    BY DEF Inv, TypeInv, HandlerPcs, CallStates
  <2>4. UNCHANGED <<serverVars, hg, hrc, reply, clientVars, up, upEnd>>
    OBVIOUS
  <2> HIDE DEF BulkUsersSend, Return, Send, SendLost
  <2> QED  BY <2>1, <2>2, <2>3, <2>4 DEF Inv, TypeInv
<1>2. \A d \in Clients \ {c} : SameCall(d) /\ SameStream(d)
  BY DEF Inv, TypeInv, SameCall, SameStream
<1>3. CInv(c)'
  <2> USE DEF Inv, StreamInv, CInv, WhereInv, NoCallInv, FlowInv, TypeInv, HandlerPcs,
         Goroutine, ClientPcs, Ended, CallStates, NoReply, AllMethods
  <2>1. WhereInv(c)'
    OBVIOUS
  <2>2. NoCallInv(c)'
    OBVIOUS
  <2>3. FlowInv(c)'
    OBVIOUS
  <2> QED  BY <2>1, <2>2, <2>3 DEF CInv
<1> QED  BY <1>1, <1>2, <1>3, OneCall

LEMMA BulkUsersRecvKeeps ==
    ASSUME Inv, NEW c \in Clients, BulkUsersRecv(c)
    PROVE  Inv'
<1> USE BoundsAssumption DEF BulkUsersRecv, RecvOne, Over, Set, Incr, Decr,
        serverVars, handlerVars, clientVars, streamVars
<1>1. TypeInv'
  BY DEF Inv, TypeInv, HandlerPcs, Goroutine, ClientPcs, Ended,
         CallStates, NoReply, AllMethods
<1>2. \A d \in Clients \ {c} : SameCall(d) /\ SameStream(d)
  BY DEF Inv, TypeInv, SameCall, SameStream
<1>3. CInv(c)'
  BY DEF Inv, StreamInv, CInv, WhereInv, NoCallInv, FlowInv, TypeInv, HandlerPcs,
         Goroutine, ClientPcs, Ended, CallStates, NoReply, AllMethods
<1> QED  BY <1>1, <1>2, <1>3, OneCall

LEMMA BulkUsersReturnKeeps ==
    ASSUME Inv, NEW c \in Clients, BulkUsersReturn(c)
    PROVE  Inv'
<1> USE BoundsAssumption DEF BulkUsersReturn, Return, Set, Incr, Decr,
        serverVars, handlerVars, clientVars, streamVars
<1>1. TypeInv'
  BY DEF Inv, TypeInv, HandlerPcs, Goroutine, ClientPcs, Ended,
         CallStates, NoReply, AllMethods
<1>2. \A d \in Clients \ {c} : SameCall(d) /\ SameStream(d)
  BY DEF Inv, TypeInv, SameCall, SameStream
<1>3. CInv(c)'
  BY DEF Inv, StreamInv, CInv, WhereInv, NoCallInv, FlowInv, TypeInv, HandlerPcs,
         Goroutine, ClientPcs, Ended, CallStates, NoReply, AllMethods
<1> QED  BY <1>1, <1>2, <1>3, OneCall

LEMMA UnaryKeeps ==
    ASSUME Inv, NEW c \in Clients, Unary(c)
    PROVE  Inv'
<1> USE BoundsAssumption DEF Unary, Over, Set, Incr, Decr, serverVars,
        handlerVars, clientVars, streamVars
<1>1. TypeInv'
  BY DEF Inv, TypeInv, HandlerPcs, Goroutine, ClientPcs, Ended,
         CallStates, NoReply, AllMethods
<1>2. \A d \in Clients \ {c} : SameCall(d) /\ SameStream(d)
  BY DEF Inv, TypeInv, SameCall, SameStream
<1>3. CInv(c)'
  BY DEF Inv, StreamInv, CInv, WhereInv, NoCallInv, FlowInv, TypeInv, HandlerPcs,
         Goroutine, ClientPcs, Ended, CallStates, NoReply, AllMethods
<1> QED  BY <1>1, <1>2, <1>3, OneCall

LEMMA ClientListUsersKeeps ==
    ASSUME Inv, NEW c \in Clients, ClientListUsers(c)
    PROVE  Inv'
<1> USE BoundsAssumption DEF ClientListUsers, Over, Set, Incr, Decr,
        serverVars, handlerVars, clientVars, streamVars
<1>1. TypeInv'
  BY DEF Inv, TypeInv, HandlerPcs, Goroutine, ClientPcs, Ended,
         CallStates, NoReply, AllMethods
<1>2. \A d \in Clients \ {c} : SameCall(d) /\ SameStream(d)
  BY DEF Inv, TypeInv, SameCall, SameStream
<1>3. CInv(c)'
  BY DEF Inv, StreamInv, CInv, WhereInv, NoCallInv, FlowInv, TypeInv, HandlerPcs,
         Goroutine, ClientPcs, Ended, CallStates, NoReply, AllMethods
<1> QED  BY <1>1, <1>2, <1>3, OneCall

LEMMA ClientStoreSelectKeeps ==
    ASSUME Inv, NEW c \in Clients, ClientStoreSelect(c)
    PROVE  Inv'
<1> USE BoundsAssumption DEF ClientStoreSelect, Over, Set, Incr, Decr,
        serverVars, handlerVars, clientVars, streamVars
<1>1. TypeInv'
  <2>1. cg' \in [Clients -> Goroutine]
    BY DEF Inv, TypeInv, Goroutine
  <2>2. sig' \in [Clients -> BOOLEAN]
    BY DEF Inv, TypeInv
  <2>3. UNCHANGED <<serverVars, handlerVars, method, pc, csent, crc, streamVars>>
    OBVIOUS
  <2> HIDE DEF ClientStoreSelect
  <2> QED  BY <2>1, <2>2, <2>3 DEF Inv, TypeInv
<1>2. \A d \in Clients \ {c} : SameCall(d) /\ SameStream(d)
  BY DEF Inv, TypeInv, SameCall, SameStream
<1>3. CInv(c)'
  BY DEF Inv, StreamInv, CInv, WhereInv, NoCallInv, FlowInv, TypeInv, HandlerPcs,
         Goroutine, ClientPcs, Ended, CallStates, NoReply, AllMethods
<1> QED  BY <1>1, <1>2, <1>3, OneCall

LEMMA ClientStoreSendKeeps ==
    ASSUME Inv, NEW c \in Clients, ClientStoreSend(c)
    PROVE  Inv'
<1> USE BoundsAssumption DEF ClientStoreSend, Send, SendLost, CanSend, Over,
        Set, Incr, Decr, serverVars, handlerVars, clientVars, streamVars
<1>1. TypeInv'
  <2>1. up' \in [Clients -> 0..Window] /\ csent' \in [Clients -> Nat]
    BY DEF Inv, TypeInv
  <2>2. \A d \in Clients : method'[d] = "bulkusers" => csent'[d] <= N
    BY DEF Inv, StreamInv, WhereInv, TypeInv, AllMethods
  <2>3. cg' \in [Clients -> Goroutine]
    BY DEF Inv, TypeInv, Goroutine
  <2>4. UNCHANGED <<serverVars, handlerVars, method, pc, sig, crc, st, upEnd, down>>
    OBVIOUS
  <2> HIDE DEF ClientStoreSend, Send, SendLost
  <2> QED  BY <2>1, <2>2, <2>3, <2>4 DEF Inv, TypeInv
<1>2. \A d \in Clients \ {c} : SameCall(d) /\ SameStream(d)
  BY DEF Inv, TypeInv, SameCall, SameStream
<1>3. CInv(c)'
  BY DEF Inv, StreamInv, CInv, WhereInv, NoCallInv, FlowInv, TypeInv, HandlerPcs,
         Goroutine, ClientPcs, Ended, CallStates, NoReply, AllMethods
<1> QED  BY <1>1, <1>2, <1>3, OneCall

LEMMA ClientStoreCloseKeeps ==
    ASSUME Inv, NEW c \in Clients, ClientStoreClose(c)
    PROVE  Inv'
<1> USE BoundsAssumption DEF ClientStoreClose, Set, Incr, Decr, serverVars,
        handlerVars, clientVars, streamVars
<1>1. TypeInv'
  BY DEF Inv, TypeInv, HandlerPcs, Goroutine, ClientPcs, Ended,
         CallStates, NoReply, AllMethods
<1>2. \A d \in Clients \ {c} : SameCall(d) /\ SameStream(d)
  BY DEF Inv, TypeInv, SameCall, SameStream
<1>3. CInv(c)'
  BY DEF Inv, StreamInv, CInv, WhereInv, NoCallInv, FlowInv, TypeInv, HandlerPcs,
         Goroutine, ClientPcs, Ended, CallStates, NoReply, AllMethods
<1> QED  BY <1>1, <1>2, <1>3, OneCall

LEMMA ClientStoreReplyKeeps ==
    ASSUME Inv, NEW c \in Clients, ClientStoreReply(c)
    PROVE  Inv'
<1> USE BoundsAssumption DEF ClientStoreReply, Over, Set, Incr, Decr,
        serverVars, handlerVars, clientVars, streamVars
<1>1. TypeInv'
  BY DEF Inv, TypeInv, HandlerPcs, Goroutine, ClientPcs, Ended,
         CallStates, NoReply, AllMethods
<1>2. \A d \in Clients \ {c} : SameCall(d) /\ SameStream(d)
  BY DEF Inv, TypeInv, SameCall, SameStream
<1>3. CInv(c)'
  BY DEF Inv, StreamInv, CInv, WhereInv, NoCallInv, FlowInv, TypeInv, HandlerPcs,
         Goroutine, ClientPcs, Ended, CallStates, NoReply, AllMethods
<1> QED  BY <1>1, <1>2, <1>3, OneCall

LEMMA ClientBulkSendKeeps ==
    ASSUME Inv, NEW c \in Clients, ClientBulkSend(c)
    PROVE  Inv'
<1> USE BoundsAssumption DEF ClientBulkSend, Send, SendLost, CanSend, Over,
        Set, Incr, Decr, serverVars, handlerVars, clientVars, streamVars
<1>1. TypeInv'
  <2>1. up' \in [Clients -> 0..Window] /\ csent' \in [Clients -> Nat]
    BY DEF Inv, TypeInv
  <2>2. \A d \in Clients : method'[d] = "bulkusers" => csent'[d] <= N
    BY DEF Inv, StreamInv, WhereInv, TypeInv, AllMethods
  <2>3. pc' \in [Clients -> ClientPcs] /\ upEnd' \in [Clients -> BOOLEAN]
    BY DEF Inv, TypeInv, ClientPcs, Ended
  <2>4. UNCHANGED <<serverVars, handlerVars, method, cg, sig, crc, st, down>>
    OBVIOUS
  <2> HIDE DEF ClientBulkSend, Send, SendLost
  <2> QED  BY <2>1, <2>2, <2>3, <2>4 DEF Inv, TypeInv
<1>2. \A d \in Clients \ {c} : SameCall(d) /\ SameStream(d)
  BY DEF Inv, TypeInv, SameCall, SameStream
<1>3. CInv(c)'
  BY DEF Inv, StreamInv, CInv, WhereInv, NoCallInv, FlowInv, TypeInv, HandlerPcs,
         Goroutine, ClientPcs, Ended, CallStates, NoReply, AllMethods
<1> QED  BY <1>1, <1>2, <1>3, OneCall

LEMMA ClientBulkRecvKeeps ==
    ASSUME Inv, NEW c \in Clients, ClientBulkRecv(c)
    PROVE  Inv'
<1> USE BoundsAssumption DEF ClientBulkRecv, RecvOne, Over, Set, Incr, Decr,
        serverVars, handlerVars, clientVars, streamVars
<1>1. TypeInv'
  <2>1. down' \in [Clients -> 0..Window] /\ crc' \in [Clients -> Nat]
    BY DEF Inv, TypeInv
  <2>2. cg' \in [Clients -> Goroutine]
    BY DEF Inv, TypeInv, Goroutine
  <2>3. pc' \in [Clients -> ClientPcs]
    BY DEF Inv, TypeInv, ClientPcs, Ended
  <2>4. UNCHANGED <<serverVars, handlerVars, method, sig, csent, st, up, upEnd>>
    OBVIOUS
  <2> HIDE DEF ClientBulkRecv, RecvOne
  <2> QED  BY <2>1, <2>2, <2>3, <2>4 DEF Inv, TypeInv
<1>2. \A d \in Clients \ {c} : SameCall(d) /\ SameStream(d)
  BY DEF Inv, TypeInv, SameCall, SameStream
<1>3. CInv(c)'
  BY DEF Inv, StreamInv, CInv, WhereInv, NoCallInv, FlowInv, TypeInv, HandlerPcs,
         Goroutine, ClientPcs, Ended, CallStates, NoReply, AllMethods
<1> QED  BY <1>1, <1>2, <1>3, OneCall

LEMMA ClientBulkDoneKeeps ==
    ASSUME Inv, NEW c \in Clients, ClientBulkDone(c)
    PROVE  Inv'
<1> USE BoundsAssumption DEF ClientBulkDone, Set, Incr, Decr, serverVars,
        handlerVars, clientVars, streamVars
<1>1. TypeInv'
  BY DEF Inv, TypeInv, HandlerPcs, Goroutine, ClientPcs, Ended,
         CallStates, NoReply, AllMethods
<1>2. \A d \in Clients \ {c} : SameCall(d) /\ SameStream(d)
  BY DEF Inv, TypeInv, SameCall, SameStream
<1>3. CInv(c)'
  BY DEF Inv, StreamInv, CInv, WhereInv, NoCallInv, FlowInv, TypeInv, HandlerPcs,
         Goroutine, ClientPcs, Ended, CallStates, NoReply, AllMethods
<1> QED  BY <1>1, <1>2, <1>3, OneCall

LEMMA CallKeeps ==
    ASSUME Inv, NEW c \in Clients, NEW m \in Methods[c], Call(c, m)
    PROVE  Inv'
<1> USE DEF Call, Set, serverVars, handlerVars
<1>0. m \in AllMethods
  BY MethodsAssumption
<1>1. TypeInv'
  BY <1>0, BoundsAssumption
  DEF Inv, StreamInv, NoCallInv, TypeInv, HandlerPcs, Goroutine, ClientPcs, Ended,
      CallStates, NoReply, AllMethods
<1>2. \A d \in Clients \ {c} : SameCall(d) /\ SameStream(d)
  BY DEF Inv, TypeInv, SameCall, SameStream
<1>3. CInv(c)'
  BY <1>0 DEF Inv, StreamInv, CInv, WhereInv, NoCallInv, FlowInv, TypeInv, HandlerPcs,
         Goroutine, ClientPcs, Ended, CallStates, NoReply, AllMethods
<1> QED  BY <1>1, <1>2, <1>3, OneCall

-----------------------------------------------------------------------------
(***************************************************************************)
(* The steps that cut calls: those of one client, or all of them.           *)
(***************************************************************************)
LEMMA AllCut ==
    ASSUME Inv, TypeInv', NEW S, NEW X, NEW Y, Cut(S, X, Y),
           \A d \in Clients : SameCall(d)
    PROVE  Inv'
<1>1. ASSUME NEW d \in Clients  PROVE CInv(d)'
  <2>1. CInv(d) /\ SameCall(d)
    BY DEF Inv, StreamInv, CInv
  <2>2. CASE SameStream(d)
    BY <2>1, <2>2, Frame
  <2>3. CASE st[d] = "open" /\ st'[d] = "cut"
    BY <2>1, <2>3, CutFrame
  <2> QED  BY <2>2, <2>3, CutCalls DEF Inv
<1> QED  BY <1>1 DEF Inv, StreamInv, CInv

LEMMA ConnectionFailsKeeps ==
    ASSUME Inv, NEW c \in Clients, ConnectionFails(c)
    PROVE  Inv'
<1>1. Cut({c}, {}, {}) /\ UNCHANGED <<serverVars, handlerVars, clientVars>>
  BY DEF ConnectionFails
<1>2. TypeInv'
  BY <1>1, CutType DEF Inv, TypeInv, serverVars, handlerVars, clientVars
<1>3. \A d \in Clients : SameCall(d)
  BY <1>1, CutType DEF Inv, SameCall, handlerVars, clientVars
<1> QED  BY <1>1, <1>2, <1>3, AllCut

LEMMA ServerEndsKeeps ==
    ASSUME Inv, NEW how \in {"exited", "killed", "panic"}, ServerEnds(how),
           UNCHANGED <<exit, handlerVars, clientVars>>
    PROVE  Inv'
<1>1. Cut(Clients, Clients, {}) /\ server' = how
  BY DEF ServerEnds
<1>2. TypeInv'
  BY <1>1, CutType DEF Inv, TypeInv, handlerVars, clientVars
<1>3. \A d \in Clients : SameCall(d)
  BY <1>1, CutType DEF Inv, SameCall, handlerVars, clientVars
<1> QED  BY <1>1, <1>2, <1>3, AllCut

LEMMA InterruptKeeps ==
    ASSUME Inv, Interrupt
    PROVE  Inv'
<1>1. CASE \E how \in {"killed", "panic"} : ServerEnds(how) /\ UNCHANGED exit
  <2>1. UNCHANGED <<exit, handlerVars, clientVars>>
    BY <1>1 DEF Interrupt
  <2> QED  BY <1>1, <2>1, ServerEndsKeeps
<1>2. CASE /\ exit' = [c \in Clients |-> IF exit[c] = "open" THEN "signalled" ELSE exit[c]]
           /\ UNCHANGED <<server, streamVars>>
  <2>1. UNCHANGED <<handlerVars, clientVars, streamVars>>
    BY <1>2 DEF Interrupt
  <2>2. TypeInv'
    BY <1>2, <2>1 DEF Inv, TypeInv, handlerVars, clientVars, streamVars
  <2>3. \A d \in Clients : CInv(d) => CInv(d)'
    BY <2>1, Frame DEF SameCall, SameStream, handlerVars, clientVars, streamVars
  <2> QED  BY <2>2, <2>3 DEF Inv, StreamInv, CInv
<1> QED  BY <1>1, <1>2 DEF Interrupt

\* os.Exit ends the server; otherwise one user is sent, or lost.
LEMMA ListUsersSendKeeps ==
    ASSUME Inv, NEW c \in Clients, ListUsersSend(c)
    PROVE  Inv'
<1>1. CASE ServerEnds("exited") /\ UNCHANGED <<h, hsent>>
  <2>1. UNCHANGED <<exit, handlerVars, clientVars>>
    BY <1>1 DEF ListUsersSend, handlerVars
  <2> QED  BY <1>1, <2>1, ServerEndsKeeps
<1>2. CASE /\ Send(c, down, hsent) \/ SendLost(c, down, hsent)
           /\ Set(h, c, "listusers")
           /\ UNCHANGED <<server, st, up, upEnd>>
  <2>0. /\ h[c] = "listSend"
        /\ UNCHANGED <<server, st, up, upEnd, exit, hg, hrc, reply, clientVars>>
    BY <1>2 DEF ListUsersSend
  <2>1. method[c] = "listusers"
    BY <2>0 DEF Inv, StreamInv, WhereInv
  <2> USE <1>2, <2>0, <2>1, BoundsAssumption
          DEF Send, SendLost, CanSend, Over, Set, Incr, clientVars
  <2>2. TypeInv'
    <3>1. down' \in [Clients -> 0..Window] /\ hsent' \in [Clients -> Nat]
      BY DEF Inv, TypeInv
    <3>2. \A d \in Clients : method'[d] = "bulkusers" => hsent'[d] <= N
      BY DEF Inv, TypeInv
    <3> QED  BY <3>1, <3>2 DEF Inv, TypeInv, HandlerPcs
  <2>3. \A d \in Clients \ {c} : SameCall(d) /\ SameStream(d)
    BY DEF Inv, TypeInv, SameCall, SameStream
  <2>4. CInv(c)'
    BY DEF Inv, StreamInv, CInv, WhereInv, NoCallInv, FlowInv, TypeInv,
           HandlerPcs, CallStates, AllMethods
  <2> QED  BY <2>2, <2>3, <2>4, OneCall
<1> QED  BY <1>1, <1>2 DEF ListUsersSend

\* The client is killed, or its StoreUsers finds the interrupt in its channel.
LEMMA ClientInterruptKeeps ==
    ASSUME Inv, NEW c \in Clients, ClientInterrupt(c)
    PROVE  Inv'
<1> USE DEF ClientInterrupt, Set, serverVars, handlerVars
<1>1. CASE Set(sig, c, TRUE) /\ UNCHANGED <<pc, streamVars>>
  <2>1. TypeInv'
    BY <1>1 DEF Inv, TypeInv, streamVars
  <2>2. \A d \in Clients : CInv(d) => CInv(d)'
    BY <1>1, Frame DEF SameCall, SameStream, streamVars
  <2> QED  BY <2>1, <2>2 DEF Inv, StreamInv, CInv
<1>2. CASE Set(pc, c, "killed") /\ Cut({c}, {}, {c}) /\ UNCHANGED sig
  <2>1. upEnd' = upEnd
    BY <1>2 DEF Cut
  <2>2. TypeInv'
    BY <1>2, CutType DEF Inv, TypeInv, ClientPcs, Ended
  <2>3. ASSUME NEW d \in Clients, d # c  PROVE CInv(d)'
    <3>1. SameCall(d)
      BY <1>2, <2>1, <2>3 DEF Inv, TypeInv, SameCall
    <3>2. CInv(d)
      BY DEF Inv, StreamInv, CInv
    <3> QED  BY <1>2, <3>1, <3>2, CutCalls, Frame, CutFrame DEF Inv
  <2>4. CInv(c)'
    <3>1. SameStream(c) \/ (st[c] = "open" /\ st'[c] = "cut")
      BY <1>2, CutCalls DEF Inv
    <3>2. pc'[c] = "killed" /\ pc[c] \notin Ended \cup {"idle"}
      BY <1>2 DEF Inv, TypeInv
    <3>3. CInv(c)
      BY DEF Inv, StreamInv, CInv
    <3> QED  BY <1>2, <2>1, <3>1, <3>2, <3>3
             DEF CInv, WhereInv, NoCallInv, FlowInv, SameStream, AllMethods, Ended
  <2> QED  BY <2>2, <2>3, <2>4 DEF Inv, StreamInv, CInv
<1> QED  BY <1>1, <1>2

-----------------------------------------------------------------------------
LEMMA InvInit == Init => Inv
  BY TypeInit, StreamInit DEF Inv

LEMMA InvNext == Inv /\ [Next]_vars => Inv'
<1> SUFFICES ASSUME Inv, [Next]_vars
             PROVE  Inv'
  OBVIOUS
<1>1. CASE Interrupt
  BY <1>1, InterruptKeeps
<1>2. ASSUME NEW c \in Clients, NEW m \in Methods[c], Call(c, m)  PROVE Inv'
  BY <1>2, CallKeeps
<1>3. ASSUME NEW c \in Clients, ServerStep(c) \/ BulkUsersRecv(c)  PROVE Inv'
  BY <1>3, ServeKeeps, PetByIdKeeps, ListUsersSelectKeeps, ListUsersSendKeeps,
     ListUsersExitKeeps, StoreUsersKeeps, BulkUsersSendKeeps, BulkUsersReturnKeeps,
     BulkUsersRecvKeeps
  DEF ServerStep
<1>4. ASSUME NEW c \in Clients, ClientStep(c)  PROVE Inv'
  BY <1>4, UnaryKeeps, ClientListUsersKeeps, ClientStoreCloseKeeps,
     ClientStoreReplyKeeps, ClientBulkSendKeeps, ClientBulkDoneKeeps
  DEF ClientStep
<1>5. ASSUME NEW c \in Clients,
             ClientStoreSelect(c) \/ ClientStoreSend(c) \/ ClientBulkRecv(c)
      PROVE  Inv'
  BY <1>5, ClientStoreSelectKeeps, ClientStoreSendKeeps, ClientBulkRecvKeeps
<1>6. ASSUME NEW c \in Clients, ClientInterrupt(c) \/ ConnectionFails(c)  PROVE Inv'
  BY <1>6, ClientInterruptKeeps, ConnectionFailsKeeps
<1>7. CASE UNCHANGED vars
  <2>1. TypeInv'
    BY <1>7 DEF Inv, TypeInv, vars, serverVars, handlerVars, clientVars, streamVars
  <2>2. \A d \in Clients : CInv(d) => CInv(d)'
    BY <1>7, Frame
    DEF SameCall, SameStream, vars, serverVars, handlerVars, clientVars, streamVars
  <2> QED  BY <2>1, <2>2 DEF Inv, StreamInv, CInv
<1> QED  BY <1>1, <1>2, <1>3, <1>4, <1>5, <1>6, <1>7 DEF Next

LEMMA InvAlways == Spec => []Inv
  BY InvInit, InvNext, PTL DEF Spec

\* A stream never holds more than its window, and BulkUsers sends at most N
\* users each way: main.go's loops and Sends.
THEOREM StreamsTypeCorrect == Spec => []TypeInv
<1>1. Inv => TypeInv
  BY DEF Inv
<1> QED  BY <1>1, InvAlways, PTL

\* What each handler and goroutine has sent and received fits where it is.
THEOREM StreamsFlow == Spec => []StreamInv
<1>1. Inv => StreamInv
  BY DEF Inv
<1> QED  BY <1>1, InvAlways, PTL

\* When BulkUsers returns at the client, both sides have sent N users and
\* received all N of the other: <-waits and <-waitc, and the end of a stream.
THEOREM BulkUsersComplete == Spec => []BulkComplete
<1>1. Inv => BulkComplete
  <2> SUFFICES ASSUME Inv, NEW c \in Clients, method[c] = "bulkusers", pc[c] = "done"
               PROVE  csent[c] = N /\ hrc[c] = N /\ hsent[c] = N /\ crc[c] = N
    BY DEF BulkComplete
  <2>1. CInv(c)
    BY DEF Inv, StreamInv, CInv
  <2>2. cg[c] = "done"
    BY <2>1 DEF CInv, WhereInv
  <2>3. st[c] = "ok" /\ down[c] = 0
    BY <2>1, <2>2 DEF CInv, FlowInv
  <2>4. upEnd[c] /\ hsent[c] = N /\ hrc[c] = N
    BY <2>1, <2>3 DEF CInv, FlowInv
  <2>5. crc[c] \in Nat /\ hsent[c] = crc[c] + down[c]
    BY <2>1, <2>3 DEF Inv, TypeInv, CInv, FlowInv
  <2>6. csent[c] = N
    BY <2>1, <2>4 DEF CInv, FlowInv
  <2>7. crc[c] = N
    BY <2>3, <2>4, <2>5
  <2> QED  BY <2>4, <2>6, <2>7
<1> QED  BY <1>1, InvAlways, PTL

\* The count in the reply to StoreUsers is the number of users the client
\* sent: the goroutine stops sending before CloseAndRecv ends the stream.
THEOREM StoreUsersCount == Spec => []StoreCount
<1>1. Inv => StoreCount
  BY DEF Inv, StreamInv, FlowInv, StoreCount
<1> QED  BY <1>1, InvAlways, PTL
=============================================================================
