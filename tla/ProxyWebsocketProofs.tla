------------------------ MODULE ProxyWebsocketProofs ------------------------
(***************************************************************************)
(* The safety of ProxyWebsocket, for any number of messages.                *)
(***************************************************************************)
EXTENDS ProxyWebsocket, TLAPS

\* The handler echoes what it has read before it reads on, unless the echo is
\* lost on a connection that broke; it answers the close message when it has
\* read, and echoed, everything; the reader meets the answer after the echoes.
FlowInv ==
    /\ pc = "idle" => link = "none" /\ handler = "none"
    /\ link # "broken" => echoed = IF handler = "echo" THEN read - 1 ELSE read
    /\ handler = "echo" => read > echoed
    /\ bye # "none" => pc \in {"wait", "ended", "killed"}
    /\ bye \in {"answered", "read"} =>
        read = sent /\ echoed = sent /\ handler = "ended"
    /\ bye = "read" => got = echoed

Inv == TypeInv /\ FlowInv

LEMMA InvInit == Init => Inv
  BY MaxSentAssumption DEF Init, Inv, TypeInv, FlowInv

LEMMA InvNext == Inv /\ [Next]_vars => Inv'
<1> SUFFICES ASSUME Inv, [Next]_vars PROVE Inv'
  OBVIOUS
<1> USE MaxSentAssumption DEF Inv, TypeInv, FlowInv, loop, server
<1>1. CASE Dial  BY <1>1 DEF Dial
<1>2. CASE Tick  BY <1>2 DEF Tick, WriteFails
<1>3. CASE Client
  <2>1. CASE Start  BY <2>1 DEF Start
  <2>2. CASE Done  BY <2>2 DEF Done
  <2>3. CASE TakeExit  BY <2>3 DEF TakeExit
  <2>4. CASE WriteClose  BY <2>4 DEF WriteClose, WriteFails
  <2>5. CASE Wait  BY <2>5 DEF Wait
  <2> QED  BY <1>3, <2>1, <2>2, <2>3, <2>4, <2>5 DEF Client
<1>4. CASE Interrupt  BY <1>4 DEF Interrupt, Over
<1>5. CASE Reader  BY <1>5 DEF Reader, Over
<1>6. CASE Handler
  <2>1. CASE HandlerRead  BY <2>1 DEF HandlerRead, Reading
  <2>2. CASE HandlerClose  BY <2>2 DEF HandlerClose, Reading
  <2>3. CASE HandlerReadError  BY <2>3 DEF HandlerReadError, Reading
  <2>4. CASE Echo  BY <2>4 DEF Echo
  <2> QED  BY <1>6, <2>1, <2>2, <2>3, <2>4 DEF Handler
<1>7. CASE Fault  BY <1>7 DEF Fault
<1>8. CASE UNCHANGED vars  BY <1>8 DEF vars
<1> QED  BY <1>1, <1>2, <1>3, <1>4, <1>5, <1>6, <1>7, <1>8 DEF Next

LEMMA InvCorrect == Spec => []Inv
  BY InvInit, InvNext, PTL DEF Spec

\* Nothing is read that was not written, echoed that was not read, or got that
\* was not echoed, and every variable has its type.
THEOREM SocketTypeCorrect == Spec => []TypeInv
<1>1. Inv => TypeInv
  BY DEF Inv
<1> QED  BY <1>1, InvCorrect, PTL

\* A client that is told goodbye has had all of its messages back.
THEOREM GoodbyeCorrect == Spec => []GoodbyeAfterEchoes
<1>1. Inv => GoodbyeAfterEchoes
  BY DEF Inv, FlowInv, GoodbyeAfterEchoes
<1> QED  BY <1>1, InvCorrect, PTL
=============================================================================
