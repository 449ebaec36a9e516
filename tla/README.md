# Verification of mashling-recipes

TLA+ models of the programs in `src/recipes`, the TLC configurations that
check them on small instances, and theorems about them checked by TLAPS.

The repository is a collection of recipes for the mashling gateway. The gateway
engine itself is elsewhere: what is here are gateway definitions (JSON), and
the programs that the recipes bring along to be run before or behind a
gateway. The programs are where the repository has logic of its own, and of
those the eFTL client library is by far the largest and the one with the hard
concurrency; it comes first.

## 1. Inventory

### 1.1 The eFTL client library

`recipes/eftl-consumer/client/main.go` (the producer recipe has the same
library with another `main`). A `Connection` to an eFTL server over a
websocket.

* State: the fields of `Connection` (`connected`, `ws`, `reconnectID`,
  `pubs`, `pubSeqNum`, `subs`, `subSeqNum`, `lastSeqNum`), the mutex `mu`, the
  WaitGroup `wg`, the channels the application gave it, and one dispatcher
  goroutine per successful connect.
* Operations: `Connect`/`Reconnect`, `Disconnect`, `IsConnected`, `Publish`,
  `PublishAsync`, `Subscribe`, `SubscribeAsync`, `Unsubscribe`,
  `UnsubscribeAll`, and the dispatcher with its handlers for heartbeat,
  event, subscribed, unsubscribed, ack, and for the loss of the connection.
* Interactions: application goroutines call methods; the dispatcher reads the
  websocket and sends on `ErrorChan`, `MessageChan`, `subscriptionChan` and
  `completionChan`; both write to the websocket under `mu`.
* Hard: sends on application channels with `mu` held; `Disconnect` that
  releases `mu` before it waits; sessions that are resumed or not, with
  publishes in flight and events re-delivered; cumulative acknowledgements;
  timeouts.
* Correct when: each publish completes once, in order, and without an error
  only if the server accepted it; events are delivered in order and once, and
  acknowledged only when received; subscriptions survive a reconnect; no
  socket and no dispatcher is left behind; methods return.

Its message encoding (`Message.encode`, `decode`, `main.go:53-215`) is a part
of its own: pure, recursive, and lossy in places (empty lists, floats for
integers, milliseconds for times, int64 nanoseconds that overflow).

### 1.2 The grpc-to-grpc pet store

`recipes/grpc-to-grpc-gateway/main.go`. A server process with five methods
(two unary, server streaming, client streaming, bidirectional) and a client
process that calls one of them.

* State: per call two streams, the counters of both sides, the channels
  `waitc`, `waits`, `exit`, `c` and the goroutines that close them; the process
  itself, which a handler may end.
* Hard: two goroutines on each side of a bidirectional stream with flow
  control; interrupts of either process; `os.Exit(0)` in a handler; a channel
  that is closed while `signal.Notify` still knows it; a client that is cut
  off.
* Correct when: counts agree, calls return, interrupts stop what they should,
  and nothing is left behind at the server.

### 1.3 The rest-to-grpc pet store

`recipes/rest-to-grpc-gateway/main.go`. A server whose handlers `PetById`,
`UserByName`, `PetPUT` and `UserPUT` share two maps without a lock. Hard:
concurrent requests (a range over a map while another handler writes it; a
PUT that stores its value once for every entry it ranges over).
Correct when a pet that was put is found, an update that was answered is not
undone by an older one, and lookups do not disturb one another.

### 1.4 The websocket proxy recipe

`recipes/proxy-websocket/main.go`. A client that sends a message every two
seconds over a websocket and prints what comes back, and an echo server; the
gateway is in between.

* State: per connection the client's loop and its reader goroutine, the
  channels `done` and `exit`, and one `wsHandler` at the server.
* Hard: an interrupt at any moment, a close handshake with a timeout of a
  second, `exit` closed while `signal.Notify` still sends to it, `wsHandler`
  testing the wrong error (line 144), no deadlines.
* Correct when: messages come back, a close that is answered comes after all
  echoes, the client ends whatever the server does, and the server keeps no
  handler of a client that is gone.

### 1.5 The push notification recipe

`recipes/fcm/mashling-fcm-push-notifications`. A page (`public/main.js`) where
users sign in, follow and unfollow; two functions that notify the followers, a
Google function (`functions/index.js`) and a Lambda (`sendPushNotification/index.js`).

* State: the tables `mashlingfollowers` and `mashlingusers`, who is signed in
  in a browser and who the page takes for it, and what a call of a function
  has read. A Lambda's container also keeps the app of `firebase-admin`.
* Hard: followers and tokens read at different times while the page changes
  both; a reply before the work is done; one follower without a token; FCM's
  answers, which the Google function does not wait for; a container that is
  used again.
* Correct when: for who followed throughout FCM is asked, and by the Lambda
  successfully, unless the call fails; nobody else is notified; and no call is
  refused for what an earlier one left behind.

### 1.6 Other programs

* `grpc-to-rest-gateway/main.go`: a client that makes one call.
* `anomaly-gateway/main.go`: a load generator and an echo handler.
* `circuit-breaker-gateway/main.go`, `smart-circuit-breaker-gateway/main.go`,
  `eftl-consumer/target/main.go`, `proxy-with-ldap/target/main.go`: handlers
  that reply with a constant.
* `eftl-*/helper/main.go`: start and kill a container.

### 1.7 Gateway definitions

The `*-gateway.json` files: triggers, routes with conditions, services. They
are data for the engine. The conditional ones (rest-conditional, sqld,
rate-limiter, anomaly, event dispatcher, tunable) decide something: which
route a request takes and what is replied.

## 2. Plan

| order | modules | of | status |
|-------|---------|----|--------|
| 1 | `EftlNetwork`, `EftlServer`, `EftlClient`, `EftlSystem`, `MCEftl` | eFTL client library | done |
| 2 | `EftlPublishContract` | what `Publish` promises | done |
| 3 | `EftlSafetyProofs` | theorems about 1 and 2 | done |
| 4 | `EftlCodec`, `MCEftlCodec` | message encoding | done |
| 5 | `GrpcStreams`, `MCGrpcStreams` | grpc-to-grpc pet store | done |
| 6 | `GrpcStreamsProofs` | `BulkComplete`, `StoreCount` for every N and Window | done |
| 7 | `PetStore`, `MCPetStore` | rest-to-grpc pet store: concurrent handlers over the maps | done |
| 8 | `PetStoreProofs` | `NoLostPut`, `AnswersCurrent`, `OnlyPutsKill` for any number of requests and keys | done |
| 9 | `ProxyWebsocket`, `ProxyWebsocketProofs` | client and echo server, close handshake | done |
| 10 | `FcmNotify`, `FcmNotifyProofs` | followers, tokens, notification fan-out | done |
| 11 | `EftlEventProofs` | events, subscriptions, outcomes of publishes and readers, where `Disconnect` is alone; publishes that are pending | done |
| 12 | `Levels`, `EftlCodecProofs` | the properties of 4 for messages of any depth | done |

One run per component, and for the eFTL library one per way of using it.

## 3. The eFTL modules

`EftlSystem` composes three parts; each has its variables, and an action of
the system is an action of one part with the rest unchanged.

* `EftlNetwork` - the websocket connections (external). A connection delivers
  in order in both directions until the client closes it or it breaks; what
  was under way is then lost. A write to a broken connection may still return
  no error. `Faults` says which faults a configuration admits: `break`,
  `noresume` (the server has forgotten the session), `dialfail`, `badmsg` (a
  message that cannot be encoded), `reject` (the server refuses a publish or
  a subscribe).
* `EftlServer` - the server (external), as the handlers of the client expect
  it: it answers a login with a welcome, which resumes the session the token
  names or starts one; re-delivers events that were not acknowledged;
  acknowledges publishes cumulatively; answers subscribes; may push events
  with and without a sequence number, heartbeats, errors and revocations.
* `EftlClient` - the library. `pc[t]` is where application goroutine `t` is in
  a method; `dpc[k]` where the dispatcher is that the connect on connection
  `k` started. A critical section that cannot block is one action that needs
  `mu = Free`. One that can block with the lock held is several actions, and
  `mu` is its holder: the login (it waits for the welcome), `handleMessage`
  (`MessageChan`), `handleSubscribed` (`subscriptionChan`), `handleAck`
  (`completionChan`) and `handleDisconnect` (`ErrorChan`, `completionChan`).

| code | definitions |
|------|-------------|
| `Connect`, `Reconnect`, `connect` | `Call`, `ReconnectNoop`, `Dial`, `DialFail`, `Welcome`, `LoginFail`, `Live`, `Resendable`, `LastSeqFor` |
| `Disconnect` | `Disconnect`, `WaitStart`, `WaitEnd`, `Crashed` |
| `Publish`, `PublishAsync` | `Publish`, `PublishAsync`, `Register`, `PublishDone`, `PublishTimeout` |
| `Subscribe`, `SubscribeAsync`, `Unsubscribe`, `UnsubscribeAll` | the actions of those names, `AddSubscription` and the waits |
| `dispatch`, `nextMessage` | `ReadTop`, `ReadMsg`, `ReadErr`, `Exit` |
| `handleHeartbeat`, `handleMessage`, `handleSubscribed`, `handleUnsubscribed`, `handleAck`, `handleDisconnect` | `HandleHeartbeat`, `HandleMessage`, ..., `Complete`, `AckDone`, `SendError`, `FailDone` |

The application is what it may do: a configuration gives each goroutine the
methods it calls and the channels it drains (`Calls`). The first `Connect` is
modelled as a `Reconnect` before which no other method can be called. A
timeout may fire at any moment while it is waited for.

`Disconnect` waits on `conn.wg`. A WaitGroup that is put to new use while a
`Wait` returns makes the program panic; `WaitStart` to `WaitEnd` is that
window, and `"panic"` stops the model as it stops the program.

`EftlPublishContract` is what the application may rely on: of every message,
in order, first that it is pending and then one outcome. `PublishStatus` in
`EftlSystem` maps the library's state to it, and `KeepsContract` says that the
library implements it.

### 3.1 Left out

* A `subscriptionChan` supplied by the application, and channels without a
  buffer: a capacity of 0 stands for a nil channel.
* A write to the websocket that blocks, TLS, URLs, and the fields of messages
  (see `EftlCodec`).
* `Connect` on a second client identifier: one `Connection` is modelled.

## 4. EftlCodec

A Go or JSON value is a kind with a number, a list, or fields; the contents
are small numbers. `encode` and `decode` call themselves for messages that are
nested: `Encode[d]` and `Decode[d]` are functions, defined by recursion on the
depth d, on the messages and the JSON objects that are nested at most d deep
(`Encodable[d]`, `Json[d]`). `EncodeField` and `DecodeField` are the two `switch`
statements. A message has a value for every name, `Absent` where it has no such
field, and an element that a list leaves out is `Absent` in its place, so that
the elements after it keep their positions.

JSON numbers are counted in halves, up to 8 * `Exact`; a float64 holds every half
up to `Exact` (2^52 in Go, 2 in the run), every integer up to twice that, and
fewer above (`Ulp`; 5 is rounded in the run). A float32 is written with the fewest digits that
name it, and is read as the float64 nearest to those. A time has `NanosPerMilli`
nanoseconds per millisecond (6 in the run) and is counted in an int64: `Wrap`
is its overflow in `UnixNano` (`ToMillis`) and in the product of `FromMillis`.
`MaxInt64` is 15 in the run, so that 3 milliseconds overflow, to a time that is
no whole number of them. Base64 and `ParseFloat` are modelled by what they do,
the dropped errors included.

The state machine publishes a message under `"body"` (`InBody`) or receives an
object from the server, decodes it, and sends on what it received. An event
delivers what it has under `"body"`, or a nil message if that was decoded to
something else (`BodyOf`), and the application publishes that; a heartbeat is
sent back by the dispatcher as it came. `Depth` bounds how deep messages are
nested (3 in the run).

`Seen[d]` is the reference definition: what a receiver should see, stated on
values, not through JSON. It differs from the identity where the encoding loses
something: integers are rounded, times cut to milliseconds, an empty list
disappears, a nil list arrives as null, and a float32 as a float64. `Clear[d]`
are the messages in which no nested one has fields `_o_`, `_d_` or `_m_` that
make it look like encoded bytes, a float or a time: such a message cannot be
told from them, nor a list that starts with one. The message under `"body"` is
itself nested, so it must not look like one either (`LooksTagged`). And the times
of `Clear` messages are those that 64 bits of nanoseconds can count, from 1677
to 2262. `RoundTrip` is about such messages; `SentOnIfPublished` about those
without a nil list too (`NilFree`), since null cannot be encoded.
`SecondTripExact` is about all, and about any object the server sends:
`CutTimes[d]`, which the second trip comes to, changes nothing but times that are
no whole milliseconds, and those decode yields only where it overflows.

## 5. The pet stores

### 5.1 GrpcStreams

One server process and client processes, one call each. `h[c]`, `hg[c]` are the
handler of c's call and its receiving goroutine, `pc[c]`, `cg[c]` the client's
two goroutines; a closed `waitc` or `waits` is a goroutine that is done. gRPC
is external: a stream in each direction with room for `Window` messages, a
`Send` that blocks while there is none, that fails after the call is over, or
that goes unnoticed if its side has not heard yet. `select` with a `default`
is two actions (`ListUsersSelect`, `ListUsersSend`), because an interrupt can
come while the handler is about to send. An interrupt of the server is what
the runtime does with it: it kills a process that never called
`signal.Notify`, signals every open `exit` channel, and panics if one of them
is closed. A client that is interrupted dies, except in `StoreUsers`.

### 5.2 PetStore

`entry[k]` is what `petMapArr` or `userMapArr` holds for the key k: nothing,
zeroes, what `main` put there, the value of a PUT (each request brings its
own), or fields of several of these. A handler goes through `Begin` (the
checks of a PUT, the start of the range), `Look` or `Put` (one entry of the
range, in any order), and for a PUT `Insert`, `Copy` and `Reply`. `pc[r]` says
where it is, `must[r]` and `seen[r]` what the range owes: entries that were
there at its start are met once, entries made later may be passed over.

The runtime's maps are external. `m[k] = v` finds or makes the entry with the
map's flag set (`Insert`), and copies the value afterwards, without the flag
(`Copy`): a lookup in between finds a blank or a mixed value (`Reads`), and two
copies at once can leave a mixed one. Who meets the flag ends the process
(`Fatal`). The runtime may overlook it, and then the map may be in any state;
the model stops there too and says nothing of what comes after.

`before[r]` is a history variable: the PUTs of the same key that were answered
before r was made. What such a PUT found, or was preceded by, is `Outdated`
for those that come after it.

## 6. ProxyWebsocket

One connection, with the client process at one end and the handler at the
other; connections share nothing. Messages are numbered and a connection keeps
their order, so that four counters say where each is: `sent`, `read`, `echoed`,
`got`. `bye` is the close message: sent, answered by the server's websocket
library inside `ReadMessage`, and read by the client's reader. The arms of the
`select` of `runClient` are `Done`, `Tick` and `TakeExit`; after `WriteClose`
it is in `Wait` until `done` is closed or the second is over. `Interrupt` is
what the runtime does with `SIGINT`: it kills a process that has not called
`signal.Notify`, drops a signal for which the channel has no room, and panics
if the channel is closed. The connection may break, and either side finds out
when it reads, or stall, and nobody does.

## 7. FcmNotify

`auth[b]` is who the SDK in browser b has signed in, `currentUid[b]` who the page
knows of: between the two `onAuthStateChanged` is on its way. `getToken` and the
remove in `deleteAccount` are answered later (`asking`, `deleting`), when another
user may be there. A write that the rules of the database forbid has no effect
(`MayWrite`). `record[u]` is what the functions see of a record: nothing, one
without a token, or one with the token of a browser.

A call of a function reads the followers in one step (`ReadFollowers`), their
records one by one (`ReadUser`), and asks FCM (`SendEach` in the Google function, one
after the other, `SendAll` in the Lambda, all at once). `sendToDevice` throws if
a token is missing, which ends the loop of the Google function, and is caught
in the Lambda, where a missing token among others makes FCM's library refuse
them all. The Lambda waits for FCM's answer, the Google function does not:
its requests are `pending` until FCM notifies the user, or rejects the request,
which nothing handles (`FcmAnswer`), or for ever. `asked` is for whom FCM was
asked, `sent` who was notified. `reply` is what the caller gets, at the Google
function before the records are read. Calls only read the tables, so that two of
them meet in nothing but the app that `initializeApp` leaves in a container:
the model has one call at a time, and `app[i]` for each container. `Stop` is a
read that fails, or the platform ending the call.

`steady` and `ever` are history variables: who has followed with the same token
since the call was made, and who followed at any moment since.

Not modelled: the messages themselves, FCM's results for single devices, which
neither function looks at, and the listeners that keep the switch of the page
up to date.

## 8. Runs

| run | shows | instance |
|-----|-------|----------|
| publish | each publish completes once and truthfully, none is pending with nobody to complete or fail it, and the contract is kept, while connections break, sessions are lost and publishes are refused | 1 publisher and 1 drainer, 2 publishes, 2 connections |
| events | order and single delivery of events, acknowledgement only of what was received, subscriptions re-established with refusals and revocations, one reader per connection, a `Disconnect` that waits is released, no deadlock | 2 pushes, 1 subscription, 2 connections |
| shared | lock, sockets and dispatchers stay consistent when two goroutines both reconnect and disconnect; no state, short of a panic, in which all are stuck | 2 callers, 1 publish, 1 subscription, 2 connections, no channels |
| live | with `Disconnect`, when sessions are always resumed: each publish completes, losses are noticed, and every method returns, if the channels are drained | 2 publishes, 2 connections, fair |
| codec | messages survive encoding; what was received can be sent on, and loses nothing more but by an overflow | 1000 messages and objects, nested twice, in events and heartbeats |
| streams | counts agree, calls return, nothing is left behind | 2 clients, N = 2, Window = 1 |
| petstore | no answered PUT is lost, answers are not outdated, only PUTs end the process | 3 requests, 2 pets (one stored), 1 user |
| websocket | echoes come back before the goodbye is answered; client and handler end | 4 messages, fair |
| fcm | who followed throughout is notified by the Lambda, and FCM asked for him by the Google function, unless the call fails; nobody else is notified; containers can be used again | 2 users, 1 browser, 1 container of each function |
| restart, reconnect, takeover | findings, section 10 | |

The bounds. Two connections are what a hand-over needs: the old one with its
dispatcher, and the new one; the finding `reconnect` needs a third. Two
publishes are the least with which a cumulative acknowledgement, an order and
a re-send exist; two events the least with which one can be re-delivered and
one be new. Channels of capacity 1 are full after one send, so that each
blocking send is met. Two goroutines are enough for one to hold the lock while
the other waits or to run between the critical sections of the other. For
`GrpcStreams` a Window of 1 with N = 2 makes both sides of a call block; the
clients meet only where the server process ends, so one of them calls
everything and the other is in a listing that has sent what it had. For
`PetStore` three requests are a PUT that overlaps another one and a request
that comes after the first; two pets are one that is stored and one that is
new, and the user is there for the other map. For `ProxyWebsocket` four messages
let one be under way in each direction and in the handler while one is being
written. For `FcmNotify` two users are one whose record fails the call and one
who waits for his notification, and the second to sign in in a browser; a
container runs any number of calls.

`CHECK_DEADLOCK FALSE` is set where the system may stop: `events` (a second answer
in a `subscriptionChan` that is read once blocks the dispatcher; `NoDeadlock`
states that nothing else does), `reconnect` and `takeover` (a bounded number of
connections, or the blocking that the finding is about), `shared` (a panic
stops the program; again `NoDeadlock`), `codec`, `streams`, `petstore`,
`websocket` (a call or a session ends) and `fcm`. In `shared` one
`Disconnect` may wait for a dispatcher that nobody tells to end while the other
goroutine goes on: that is no state in which all are stuck.

### 8.1 Fairness

`FairSpec` of `EftlSystem`: a goroutine that can go on does. Steps that need
`conn.mu` get strong fairness, because `sync.Mutex` hands the lock to a waiter
that has waited long; timers that were started fire, so a wait with a timeout
ends; the server answers what it reads. Not assumed: that the application
calls a method, that a connection breaks, or that the server pushes
anything. In `live` the draining goroutine is fair: that is the
precondition under which the methods return. Without it they need not: a
goroutine that publishes and drains its own `MessageChan` waits for itself
(section 10).

`FairSpec` of `GrpcStreams`: each of the four goroutines of a call goes on if
it can; nobody has to call, interrupt or fail.

`FairSpec` of `ProxyWebsocket`: the client's two goroutines and the handler go on
if they can, and the timer of a second fires. The ticker, interrupts and faults
are left free.

## 9. Proofs

For all values of the constants, from the named assumptions of the modules.

* `TypeCorrect` (`EftlSafetyProofs`): `TypeInv`. Types alone are not inductive:
  a handler uses `conn.ws` and the connection it reads as indices, so the
  invariant carries `HasSocket`: whoever does so has one.
* `LockCorrect`: `LockDiscipline`, inductive relative to `TypeInv`. A
  goroutine is in a blocking critical section exactly if it holds the lock,
  so there is one at most.
* `SocketCorrect`: `SocketInv`, that is `NoLeakedSocket` and
  `ConnectedHasDispatcher`, neither of which is inductive by itself; it adds that a login goes on for a connection
  nobody reads and of a `Connection` that is not connected, and that the
  connections still to be dialed have no dispatcher.
* `CompletionCorrect`: `CompletedOnce` and `CompletedInOrder`.
  `CompletionInv` adds that only the dispatcher that holds the lock has
  completions in hand (`todo`), and that they are older than everything that
  is pending; `LockDiscipline` gives that two dispatchers never have some at
  once, which is what keeps one publish from being completed twice.
* `PublishesKeptCorrect` (`EftlEventProofs`): `PublishesKept`, that is
  `CompletedOnce`, and that no publish is stranded: while one is pending and
  nobody disconnects, there is a dispatcher that will be told of its
  acknowledgement or of the loss of the connection. `ChargeInv` adds to
  `SocketInv` that what is pending without a connection is in the hands of a
  dispatcher that is about to fail it. It needs none of the assumptions of
  section 9.1; what happens to it at a `Disconnect` is the finding `restart`.
* `ContractCorrect`: `Spec => KeepsContract`. The
  initial states map to the contract's, and each step of the system to a step
  of the contract or a stutter, with `Inv` = `TypeInv` /\ `LockDiscipline` /\
  `SocketInv` /\ `CompletionInv`: registering maps to `PublishNext`, the send
  of an outcome to `Report`.
* `EftlEventProofs`, on `Inv` and the invariants of section 9.1:
  `SingleReaderCorrect`, `WaitGroupCorrect`, `TeardownCorrect`,
  `DeliveryCorrect`, `ReceiptCorrect`, `SubscriptionsCorrect` and
  `TruthCorrect`, of the properties `SingleReader`, `DisconnectWaits`,
  `TeardownOwnConnection`, `DeliveredInOrder`, `AckMeansReceipt`,
  `SubscriptionsReestablished` and `CompletionTruthful`.
* `BulkUsersComplete` and `StoreUsersCount` (`GrpcStreamsProofs`):
  `BulkComplete` and `StoreCount`, for any number of clients and users and any
  window, with `StreamsTypeCorrect` and `StreamsFlow`. The counts are not
  inductive: `StreamInv` adds who can be where (`WhereInv`), that nothing has
  happened in a call that was not made (`NoCallInv`), and that what was sent
  and not received is on its way while the call is open (`FlowInv`), so that
  the handler's goroutine has everything when it meets the end of the stream.
  A step of a call leaves the other calls alone (`OneCall`), except those that
  cut calls (`AllCut`): what a cut loses no longer counts.
* `PutsKept`, `AnswersStayCurrent` and `PutsKill` (`PetStoreProofs`), with
  `PetTypeCorrect`. The invariant behind them is `EntryInv`: once a PUT has stored
  its value, its entry never again holds what was outdated when it was made,
  because all later stores are of PUTs that are still at work. `WhereInv` says
  that a PUT stores before it answers, which needs that neither map is empty
  (`StoredAssumption`: `main` fills both), and `LookInv` that a lookup has not
  been at the entry it looks for, if that was there when it was made.
* `SocketTypeCorrect` and `GoodbyeCorrect` (`ProxyWebsocketProofs`): `FlowInv` says
  that the handler echoes what it reads before it reads on, that it answers
  the close message last, and that the reader meets the answer last.
* `FollowersNotified`, `OnlyFollowersNotified` and `ContainersReusable`
  (`FcmNotifyProofs`), with `FcmTypeCorrect`: `FanOutInv` says that a steady
  follower is still to be read or was read with the token he has, and that
  whatever the call has in hand is of followers; `ContainerInv` that an app is
  there only while the call that made it runs. `FollowersNotified` promises a
  notification of the Lambda's calls only; of the Google function's it says
  that FCM was asked, unless a follower without a token was met.
* `RoundTripHolds`, `SentOnHolds` and `SecondTripHolds` (`EftlCodecProofs`): section
  9.2.

### 9.1 Events, subscriptions and outcomes

These properties do not hold for every application: `takeover` and `restart`
(section 10) are the counterexamples. The theorems state what an application,
and the server, have to keep to.

* `DisconnectAlone`, for all seven: if a goroutine may call `Disconnect`, no
  other goroutine may call `Reconnect` or `Disconnect`. It excludes the window
  of `takeover`, in which another goroutine connects between the unlock and
  the end of the wait in `Disconnect`, and nothing else: without `Disconnect`
  any number of goroutines may reconnect, and everybody may publish and
  subscribe.
* `PublishesSurvive`, for `TruthCorrect` also: no message has a field that
  cannot be encoded, and either nobody calls `Disconnect`, so that the loss of a
  connection fails what is pending, or the server resumes every session, so
  that what is pending is sent again. `restart` breaks this.

The calls and faults of the runs `events` and `publish` satisfy them.

Each property needs more than itself to be inductive. The invariants, which TLC
checked on small instances before they were proved:

* `ListenInv`: a dispatcher that has met no error is the one of the current
  connection, and reads it; the connection is up, or a `Disconnect` closed it and waits for
  that dispatcher: while it waits there is one that has still to end, and nobody
  connects. This gives the single reader, the teardown and the WaitGroup
  (`DisconnectWaits`: no wake-up is lost, and none of those it waits for
  reads a connection that is open).
* `SessionInv`: what a connection carries while it logs in. A login is alone on
  it (`WireInv`), its answer is of the session the client asked for or of a newer
  one (`LoginInv`), and a connection that was welcomed is the server's, of the
  session the client knows, with no other login under way (`WelcomedInv`). All
  that follows rests on it, because a login discards what is on other
  connections.
* `DeliveryInv`: what was delivered of the present session is not above
  `lastSeqNum`.
* `SubsInv`: numbers are given out once, an unsubscribe that is under way is of
  a subscription the library has given up, and the server knows of each
  subscription or will, as `SubscriptionsReestablished` puts it.
* `ReceiptInv`: what the server still keeps of a session was received, or comes
  to the dispatcher (`Coming`: the message in hand and those not yet read), in
  the order of the sequence numbers. An event that is not above `lastSeqNum`,
  which the library acknowledges and does not hand on, was therefore received before.
* `PendingInv`, `ResumeInv`, `StreamInv`, `OutcomeInv`: a new session finds nothing
  pending, by `ChargeInv`. Publishes travel to the server in order; the acknowledgements on
  their way back are in order and older; a pending publish is on its way, accepted, or
  covered by an acknowledgement with an error. An acknowledgement without an
  error then covers, when it is handled, only what was accepted: whatever was
  not has been completed by an earlier one.

The steps are cut by what they do to a connection: what a goroutine
(`ThreadCases`, `ThreadWrites`), a dispatcher (`DispatchWrites`, `ComingDispatch`) and the
server (`AnswerWrites`, `PushWrites`, `LoginWrites`, `ServerConsumes`) write and read. For
most of them a lemma of the invariant (`SessionShrink`, `ReceiptKeep`,
`StreamKeep`, ...) says that it survives whatever only loses messages.

### 9.2 Messages of any depth

The prover has no induction theorem it can instantiate with a property of its
own choice. `Levels` makes one of two facts: of the numbers that
are not in a set there is a least (`SetInduction`, for a set and not for a
property), and a function that is defined
by recursion on the depth satisfies its equation at every depth (`LevelDef`, from
the uniqueness and existence of its initial parts). `EftlCodecProofs` instantiates
it once for each recursive function of `EftlCodec`, and applies `SetInduction` to
the set of depths at which a lemma holds.

* `FloatExact`, `IntExact`: rounding to a float64 twice is rounding once, also if
  its fraction is cut off in between.
* `WrapExact`, `MillisExact`: what an int64 can hold does not wrap, and then
  milliseconds come through JSON as they were; an int64 has fewer of them than a
  float64 counts exactly (`CodecAssumption`).
* `LevelTrip`: `Decode[d + 1][Encode[d][m]] = Seen[d][m]` for a `Clear` message m. The
  extra level is that of the tags: bytes, a float and a time are an object more.
  One lemma for each kind of field (`ScalarsTrip`, `SimpleTrip`, `MessageFieldTrip`,
  `MessageListTrip`) makes the step from d to d + 1 (`MessageTrip`).
* `BodyTrip` makes the step to a message under `"body"`.
* `DecodeStable`: whatever was decoded and can be encoded is decoded to itself but
  for its times: it looks like no tag, because decode would have taken it for
  one (`DecodedTags`), its numbers have been rounded (`IntStays`), and its times
  are within an int64 (`TimeNumber`). `EventBody` says so of what is under `"body"`.
* `SeenEncodable`: what is seen of a `NilFree` message can be encoded.

`CodecInv` says where each of `app`, `wire` and `got` came from, and the three
properties follow, for every value of `Exact`, `MaxInt64`, `NanosPerMilli`,
`Names`, `Depth`, `Messages` and `Objects` that the assumptions of `EftlCodec`
admit. Numbers beyond 8 * `Exact` are outside: `Ulp` stops there, so that
nothing is said of integers above 2^55, nor of floats a conversion to int64
cannot hold, which Go leaves to the machine.

### 9.3 Only model-checked

The liveness properties and `NoDeadlock`, which is stated with `ENABLED`: both
are beyond the proof system.

## 10. Findings

* `restart`: publishes that are pending at a `Disconnect` are neither failed
  nor sent again when the next session is a new one, and the next
  acknowledgement completes them without an error. A publish whose send
  returned an error stays registered and meets the same fate.
* `reconnect`: `Subscribe` reads its `subscriptionChan` once, and every
  re-subscription sends to it. The second blocks the dispatcher with the lock
  held, and the next `Reconnect` for ever. A `Subscribe` that times out leaves
  such a channel behind too, and a late answer followed by a revocation fills it.
* `takeover`: a `Reconnect` between the unlock and the end of the wait in
  `Disconnect` lets the old dispatcher acknowledge an old event on the new
  session. In the same window a dispatcher that ends can make the WaitGroup
  panic: `events` checks that one goroutine alone never meets it
  (`DisconnectWaits`).

One disagreement with a document has no run of its own: the Google function is
documented with "Sends push notifications to all mashling followers"
(`functions/index.js:8`), answers 200 (`:49`) before it has read their records, and
if one of them has no token, `sendToDevice` throws, and for those after him, who
have one, FCM is never asked (`:45`). What FCM rejects nobody learns of either:
the promise is neither awaited nor caught. `NotifiesFollowers` names the first as
its exception, and promises of the second no more than that FCM was asked.

Met while modelling and not stated as findings, mostly because no document says
otherwise: the timeout of `Publish`, which does not cover the wait for `conn.mu`
(`eftl-consumer/client/main.go:442`), held by a dispatcher that sends to a full
`MessageChan` (`:746`), so that a goroutine that publishes and drains the channel
waits for itself; the heartbeat with a boolean or null field that is not answered
(`main.go:734`), a published message with a field `_o_`, `_d_` or `_m_` of its own
that is taken for encoded bytes, a float or a time and arrives as nil
(`main.go:741`), times outside 1677 to 2262 that overflow and arrive as others
(`main.go:108`, `:208`), the second interrupt of the pet store that panics
(`grpc-to-grpc-gateway/main.go:352`), the listing that goes round for ever
after an error (`grpc-to-grpc-gateway/main.go:198`), and in the rest-to-grpc
pet store PUTs that overlap: they can end the process, leave a value with
fields of both, and show a value again that another answer had already shown
overwritten, because each stores its value several times
(`rest-to-grpc-gateway/main.go:193`). Its client never uses its default port:
line 99 overwrites it. In the notification recipe: a
Google call without followers that is never answered (`functions/index.js:15`),
and a deletion that may hit the user who signed in meanwhile (`main.js:104`). In
the websocket recipe: the second interrupt that panics (`main.go:93`), and
handlers of stalled connections that stay for ever (`main.go:136`).

## 11. Not modelled

The programs of 1.6 keep no state and make one call, generate random input or
reply with a constant; they, the container launchers and the deployment
recipes have no behaviour to state a property about. The gateway definitions of
1.7 are configuration: which route a request takes is decided by how the
mashling engine evaluates their conditions. The engine, with the circuit
breaker, the rate limiter, the anomaly detector and the websocket proxy that
the definitions configure, is not in this repository, and a model of it would
not be a translation of anything here.

## 12. Running

    tlc -config MCEftlPublish.cfg MCEftl.tla
    tlc -config MCEftlCodec.cfg MCEftlCodec.tla
    tlc -config MCGrpcStreams.cfg MCGrpcStreams.tla
    tlc -config MCPetStore.cfg MCPetStore.tla
    tlc -config ProxyWebsocket.cfg ProxyWebsocket.tla
    tlc -config FcmNotify.cfg FcmNotify.tla

    tlapm EftlSafetyProofs.tla
    tlapm EftlCodecProofs.tla
    tlapm EftlEventProofs.tla
    tlapm GrpcStreamsProofs.tla
    tlapm PetStoreProofs.tla
    tlapm ProxyWebsocketProofs.tla
    tlapm FcmNotifyProofs.tla
