--------------------------- MODULE ProxyWebsocket ---------------------------
(***************************************************************************)
(* The client and the echo server of recipes/proxy-websocket/main.go.  A    *)
(* connection has a client process with two goroutines, the loop of         *)
(* runClient and its reader, and a wsHandler at the server; connections     *)
(* share nothing, so one of them is modelled.                               *)
(*                                                                         *)
(* Messages are numbered and a connection keeps their order, so what is     *)
(* under way is the gap between two counters.  Writes do not block: a       *)
(* session does not fill the buffers of its sockets.                        *)
(***************************************************************************)
EXTENDS Naturals

CONSTANT MaxSent            \* how many messages the ticker lets the client send
ASSUME MaxSentAssumption == MaxSent \in Nat

VARIABLES
    pc,         \* the loop of runClient; "killed" by the runtime, not returned
    exit,       \* the channel of signal.Notify, capacity 1; "none" before that
    reader,     \* the goroutine that reads; "done" has closed the channel done
    handler,    \* wsHandler: in ReadMessage, about to echo, or ended
    link,       \* the connection: "stalled" delivers nothing and reports nothing
    sent, read, \* messages the client wrote, the handler has read,
    echoed, got,\* the handler wrote back, the reader got
    bye         \* the close message: sent, answered by the server, answer read

loop == <<pc, exit>>
server == <<handler, read, echoed>>
vars == <<loop, reader, server, link, sent, got, bye>>

Over == pc \in {"ended", "killed"}

Init ==
    /\ pc = "idle" /\ exit = "none" /\ reader = "none" /\ handler = "none"
    /\ link = "none" /\ bye = "none"
    /\ sent = 0 /\ read = 0 /\ echoed = 0 /\ got = 0

-----------------------------------------------------------------------------
(* runClient *)

\* The server upgrades the request, or the dial fails.
Dial ==
    /\ pc = "idle"
    /\ \/ pc' = "dialed" /\ handler' = "read" /\ link' = "up"
       \/ pc' = "ended" /\ UNCHANGED <<handler, link>>
    /\ UNCHANGED <<exit, reader, sent, read, echoed, got, bye>>

\* signal.Notify, and the reader goroutine is started.
Start ==
    /\ pc = "dialed"
    /\ pc' = "loop" /\ exit' = "empty" /\ reader' = "reading"
    /\ UNCHANGED <<server, link, sent, got, bye>>

\* A write to a connection that broke fails, or is lost unnoticed.
WriteFails == link = "broken" /\ pc' = "ended"

\* The select finds a tick.
Tick ==
    /\ pc = "loop" /\ sent < MaxSent
    /\ sent' = sent + 1
    /\ WriteFails \/ UNCHANGED pc
    /\ UNCHANGED <<exit, reader, server, link, got, bye>>

\* The select finds done closed.
Done ==
    /\ pc = "loop" /\ reader = "done"
    /\ pc' = "ended"
    /\ UNCHANGED <<exit, reader, server, link, sent, got, bye>>

\* The select finds a signal, and closes the channel, which signal.Notify still
\* knows.
TakeExit ==
    /\ pc = "loop" /\ exit = "full"
    /\ pc' = "close" /\ exit' = "closed"
    /\ UNCHANGED <<reader, server, link, sent, got, bye>>

WriteClose ==
    /\ pc = "close"
    /\ \/ WriteFails /\ UNCHANGED bye
       \/ pc' = "wait" /\ bye' = "sent"
    /\ UNCHANGED <<exit, reader, server, link, sent, got>>

\* Mutant: no timer.
WaitForServer ==
    /\ pc = "wait" /\ reader = "done"
    /\ pc' = "ended"
    /\ UNCHANGED <<exit, reader, server, link, sent, got, bye>>

\* The server has closed the connection, or the second is over.
Wait ==
    /\ pc = "wait"
    /\ pc' = "ended"
    /\ UNCHANGED <<exit, reader, server, link, sent, got, bye>>

\* An interrupt kills a process that has not asked for it, is kept in the
\* channel or dropped, or is sent on a closed channel, and the process panics.
Interrupt ==
    /\ pc # "idle" /\ ~Over
    /\ \/ exit \in {"none", "closed"} /\ pc' = "killed" /\ UNCHANGED exit
       \/ exit \in {"empty", "full"} /\ exit' = "full" /\ UNCHANGED pc
    /\ UNCHANGED <<reader, server, link, sent, got, bye>>

\* The reader returns at the first error, which a close message is as well.
Reader ==
    /\ reader = "reading" /\ ~Over
    /\ \/ /\ link = "up" /\ got < echoed
          /\ got' = got + 1
          /\ UNCHANGED <<reader, bye>>
       \/ /\ link = "up" /\ got = echoed /\ bye = "answered"
          /\ reader' = "done" /\ bye' = "read"
          /\ UNCHANGED got
       \/ /\ link = "broken"
          /\ reader' = "done"
          /\ UNCHANGED <<got, bye>>
    /\ UNCHANGED <<loop, server, link, sent>>

-----------------------------------------------------------------------------
(* wsHandler *)

\* Mutant: messages are echoed by goroutines of their own.
ReadingAlways == handler \in {"read", "echo"}

\* The handler is in ReadMessage.
Reading == handler = "read"

\* Mutant: the message is read and not written back.
HandlerReadOnly ==
    /\ handler = "read" /\ link = "up" /\ read < sent
    /\ read' = read + 1
    /\ UNCHANGED <<loop, reader, handler, echoed, link, sent, got, bye>>

HandlerRead ==
    /\ Reading /\ link = "up" /\ read < sent
    /\ handler' = "echo" /\ read' = read + 1
    /\ UNCHANGED <<loop, reader, echoed, link, sent, got, bye>>

\* ReadMessage answers a close message itself, and returns an error.
HandlerClose ==
    /\ Reading /\ link = "up" /\ read = sent /\ bye = "sent"
    /\ handler' = "ended" /\ bye' = "answered"
    /\ UNCHANGED <<loop, reader, read, echoed, link, sent, got>>

\* Mutant: the loop goes on after an error.
HandlerReadsOn == handler = "read" /\ UNCHANGED vars

\* What a client that is gone had sent may be lost.
HandlerReadError ==
    /\ Reading
    /\ link = "broken" \/ (link = "up" /\ Over)
    /\ handler' = "ended"
    /\ UNCHANGED <<loop, reader, read, echoed, link, sent, got, bye>>

\* Mutant: a message is written until the write succeeds, and once more.
EchoAgain ==
    /\ handler = "echo"
    /\ handler' \in {"read", "echo"}
    /\ echoed' = IF link = "broken" THEN echoed ELSE echoed + 1
    /\ UNCHANGED <<loop, reader, read, link, sent, got, bye>>

\* The error of the write is not looked at: the next read finds out.
Echo ==
    /\ handler = "echo"
    /\ handler' = "read"
    /\ echoed' = IF link = "broken" THEN echoed ELSE echoed + 1
    /\ UNCHANGED <<loop, reader, read, link, sent, got, bye>>

-----------------------------------------------------------------------------
\* The connection breaks, or it stalls, and neither side has a deadline that
\* would tell it.
Fault ==
    /\ \/ link \in {"up", "stalled"} /\ link' = "broken"
       \/ link = "up" /\ link' = "stalled"
    /\ UNCHANGED <<loop, reader, server, sent, got, bye>>

Client == Start \/ Done \/ TakeExit \/ WriteClose \/ Wait
Handler == HandlerRead \/ HandlerClose \/ HandlerReadError \/ Echo

Next == Dial \/ Tick \/ Client \/ Interrupt \/ Reader \/ Handler \/ Fault

Spec == Init /\ [][Next]_vars

\* Goroutines go on when they can, and the timer of a second fires.
FairSpec == Spec /\ WF_vars(Client) /\ WF_vars(Reader) /\ WF_vars(Handler)

-----------------------------------------------------------------------------
\* Every variable has its type, and nothing is read that was not written.
TypeInv ==
    /\ pc \in {"idle", "dialed", "loop", "close", "wait", "ended", "killed"}
    /\ exit \in {"none", "empty", "full", "closed"}
    /\ reader \in {"none", "reading", "done"}
    /\ handler \in {"none", "read", "echo", "ended"}
    /\ link \in {"none", "up", "stalled", "broken"}
    /\ bye \in {"none", "sent", "answered", "read"}
    /\ sent \in 0..MaxSent /\ read \in 0..sent
    /\ echoed \in 0..read /\ got \in 0..echoed

\* A client that says goodbye and is answered has had all of its messages
\* echoed: no close message overtakes one, on either way.
GoodbyeAfterEchoes == bye = "read" => got = sent

\* While the connection is up, every message comes back ("client is able to
\* send & receive WebSocket messages from echo server").
MessagesComeBack ==
    \A n \in 1..MaxSent : sent >= n ~> got >= n \/ link # "up" \/ Over

\* A client that was interrupted ends, even if nobody answers it, and so does
\* one whose connection broke.
ClientEnds == (exit = "full" ~> Over) /\ (link = "broken" ~> Over)

\* The server keeps no handler of a client that is gone, although it ignores
\* failed writes, unless the connection is stalled.
HandlerEnds == Over ~> handler \in {"none", "ended"} \/ link = "stalled"
=============================================================================
