----------------------------- MODULE EftlCodec -----------------------------
(***************************************************************************)
(* How a Message becomes JSON and JSON becomes a Message:                   *)
(* Message.MarshalJSON, UnmarshalJSON, encode and decode of                 *)
(* recipes/eftl-consumer/client/main.go, and a client that publishes a     *)
(* message under "body", receives one from there, and sends on what it      *)
(* received: the dispatcher a heartbeat, as it came, and the application a   *)
(* message, by publishing it.  The other fields of a frame ("op", "seq",    *)
(* "to") are left to EftlClient.                                            *)
(*                                                                         *)
(* Values keep their kind; their contents are small numbers.  encode and    *)
(* decode call themselves for nested messages: here they are recursive on   *)
(* the depth d to which messages are nested, and Encode[d] and Decode[d]     *)
(* are functions on what is nested at most d deep.                          *)
(***************************************************************************)
EXTENDS Integers, Sequences

CONSTANTS
    Exact,          \* a float64 holds every half up to this number (2^52)
    MaxInt64,       \* the greatest int64 (2^63 - 1)
    NanosPerMilli,  \* 1000000 in the code
    Names,          \* the names of the fields
    Depth,          \* bound: how deep the published messages are nested
    Messages,       \* the messages the application publishes
    Objects         \* the JSON objects the server sends of its own accord

\* The names that the encoding uses itself.
Reserved == {"_o_", "_d_", "_m_"}

\* The bound on JSON numbers, counted in halves: a little below 8 * Exact.
Top == 8 * (2 * Exact - 1)

\* An int64 holds the integers up to the bound; in milliseconds its span of
\* nanoseconds is one that a float64 counts exactly.
ASSUME CodecAssumption ==
    /\ Exact \in Nat \ {0}
    /\ NanosPerMilli \in Nat \ {0}
    /\ MaxInt64 \in Nat
    /\ Top \div 2 <= MaxInt64
    /\ (MaxInt64 + 1) \div NanosPerMilli <= Exact
    /\ {"body"} \cup Reserved \subseteq Names
    /\ Depth \in Nat \ {0}

(***************************************************************************)
(* Go values and JSON values are a kind with a number, a list, or fields.   *)
(* A message or an object has a value for every name, which is Absent if it  *)
(* has no such field; an element that a list leaves out is Absent too.      *)
(***************************************************************************)
Scalar(k, n) == [k |-> k, n |-> n]
List(k, l) == [k |-> k, l |-> l]
Struct(k, f) == [k |-> k, f |-> f]

Absent == Scalar("absent", 0)
Null == Scalar("null", 0)
\* A nil []string or []int: json.Marshal writes null for it.
NilList == Scalar("nilList", 0)

Scalars(k, S) == [k : {k}, n : S]
Lists(k, S) == [k : {k}, l : Seq(S)]
\* The first element of a list is always there.
GapLists(k, S) ==
    {v \in Lists(k, S \cup {Absent}) : v.l # <<>> => v.l[1] # Absent}
Structs(k, S) == [k : {k}, f : [Names -> S \cup {Absent}]]

\* The kinds of a message's field that encode knows.
ScalarKinds == {"string", "int", "bytes", "float32", "float", "time"}
ListKinds == {"strings", "ints", "float32s", "floats", "times", "messages"}

(***************************************************************************)
(* Numbers.  A JSON number is counted in halves, so that 3 is 1.5, up to     *)
(* Top.  NotANumber is a float that json.Marshal refuses.                   *)
(***************************************************************************)
NotANumber == Top + 1
Numbers == -Top..Top

\* Go's division: what is left of the quotient is dropped, whatever its sign.
Trunc(x, n) == IF x >= 0 THEN x \div n ELSE -((-x) \div n)

Whole(i) == 2 * i               \* the JSON number of an integer
ToInt(x) == Trunc(x, 2)         \* int64(v) drops the fraction

\* What json.Unmarshal makes of a number: the nearest float64, to even.
Ulp(x) ==
    IF x < 2 * Exact THEN 1
    ELSE IF x < 4 * Exact THEN 2
    ELSE IF x < 8 * Exact THEN 4
    ELSE 8
RoundTo(g, x) ==
    LET q == x \div g  r == x % g
    IN  IF 2 * r < g \/ (2 * r = g /\ q % 2 = 0) THEN g * q ELSE g * (q + 1)
ToFloat(x) == IF x >= 0 THEN RoundTo(Ulp(x), x) ELSE -RoundTo(Ulp(-x), -x)

\* A time is counted in nanoseconds; arithmetic on int64 wraps around.
Nanos == -(MaxInt64 + 1)..MaxInt64
Wrap(x) == ((x + MaxInt64 + 1) % (2 * (MaxInt64 + 1))) - (MaxInt64 + 1)

\* v.UnixNano() / 1000000 and time.Unix(0, ms * time.Millisecond)
ToMillis(ns) == Trunc(Wrap(ns), NanosPerMilli)
\* Mutant: the time is read as nanoseconds.
FromMillisUnscaled(ms) == ms
FromMillis(ms) == Wrap(ms * NanosPerMilli)

(***************************************************************************)
(* Strings.  Base64 turns bytes b into a text of its own; a text that is    *)
(* no base64 decodes to no bytes, and one that is no number to zero: the    *)
(* error is dropped in both cases.                                          *)
(***************************************************************************)
Texts == Nat
NoText == 0
NoBytes == 0
NaNText == 1
Base64(b) == b + 10
FromBase64(t) == IF t >= 10 THEN t - 10 ELSE NoBytes
ParseFloat(t) == IF t = NaNText THEN NotANumber ELSE 0

-----------------------------------------------------------------------------
(***************************************************************************)
(* encode and json.Marshal: what can be encoded, and as what.               *)
(***************************************************************************)
Strings == Scalars("string", Texts)
Ints == Scalars("int", {i \in Int : Whole(i) \in Numbers})
\* A float32 is named by the decimal number json.Marshal writes for it, the
\* shortest of those nearest to it, which is another number as a float64.
Singles == Scalars("float32", Numbers)
Floats == Scalars("float", {x \in Numbers : ToFloat(x) = x})
Times == Scalars("time", Int)

\* The values encode takes that hold no message and no time but those of T.
SimpleValues(T) ==
    Strings \cup Ints \cup Singles \cup Floats \cup T \cup Scalars("bytes", Texts)
        \cup Lists("strings", Strings) \cup Lists("ints", Ints)
        \cup Lists("float32s", Singles) \cup GapLists("floats", Floats)
        \cup GapLists("times", T) \cup {NilList}

\* The messages that can be encoded; encode returns an error for the others.
EncodableOver(S) ==
    Structs("message", SimpleValues(Times) \cup S \cup GapLists("messages", S))
Encodable[d \in Nat] == IF d = 0 THEN {} ELSE EncodableOver(Encodable[d - 1])

Tagged(tag, json) ==
    Struct("obj", [x \in Names |-> IF x = tag THEN json ELSE Absent])

\* Mutant: floats are written as plain numbers.
EncodePlainFloat(v) ==
    CASE v.k = "string" -> Scalar("str", v.n)
      [] v.k = "int" -> Scalar("num", Whole(v.n))
      [] v.k = "bytes" -> Tagged("_o_", Scalar("str", Base64(v.n)))
      [] v.k \in {"float32", "float"} -> Scalar("num", v.n)
      [] v.k = "time" -> Tagged("_m_", Scalar("num", Whole(ToMillis(v.n))))
      [] OTHER -> v

EncodeScalar(v) ==
    CASE v.k = "string" -> Scalar("str", v.n)
      [] v.k = "int" -> Scalar("num", Whole(v.n))
      [] v.k = "bytes" -> Tagged("_o_", Scalar("str", Base64(v.n)))
      [] v.k \in {"float32", "float"} -> Tagged("_d_", Scalar("num", v.n))
      [] v.k = "time" -> Tagged("_m_", Scalar("num", Whole(ToMillis(v.n))))
      [] OTHER -> v         \* Absent stays absent

\* encode stands for the encoding of the messages inside v.
EncodeField(v, encode) ==
    CASE v = NilList -> Null
      [] v.k = "message" -> encode[v]
      [] v.k = "messages" ->
            List("arr", [i \in DOMAIN v.l |->
                            IF v.l[i] = Absent THEN Absent ELSE encode[v.l[i]]])
      [] v.k \in ListKinds \ {"messages"} ->
            List("arr", [i \in DOMAIN v.l |-> EncodeScalar(v.l[i])])
      [] OTHER -> EncodeScalar(v)

EncodeMessage(m, encode) ==
    Struct("obj", [x \in Names |-> EncodeField(m.f[x], encode)])

Encode[d \in Nat] ==
    IF d = 0 THEN <<>>
    ELSE [m \in Encodable[d] |-> EncodeMessage(m, Encode[d - 1])]

-----------------------------------------------------------------------------
(***************************************************************************)
(* json.Unmarshal, which makes float64 of the numbers, and decode.  What is  *)
(* in an array inside an array is never looked at.                          *)
(***************************************************************************)
InnerArray == Scalar("array", 0)
JsonLeaves ==
    Scalars("num", Numbers) \cup Scalars("str", Texts)
        \cup Scalars("bool", {0, 1}) \cup {Null}
JsonElements(S) == JsonLeaves \cup S \cup {InnerArray, Absent}
JsonOver(S) == Structs("obj", JsonLeaves \cup S \cup Lists("arr", JsonElements(S)))

\* The JSON objects.
Json[d \in Nat] == IF d = 0 THEN {} ELSE JsonOver(Json[d - 1])

IsObject(w) == w.k = "obj"
\* w.f[tag] converted to a type, for an object w.
Has(w, tag, kind) == w.f[tag].k = kind
\* el["_d_"].(float64) with the error dropped: zero if it is not there
NumberOf(w, tag) == IF Has(w, tag, "num") THEN ToFloat(w.f[tag].n) ELSE 0
BytesOf(w) == IF Has(w, "_o_", "str") THEN FromBase64(w.f["_o_"].n) ELSE NoBytes
TimeOf(w) == FromMillis(ToInt(NumberOf(w, "_m_")))

\* The kind of a list is decided by its first element; "none": it is dropped.
ListKind(l) ==
    IF l = <<>> THEN "none"
    ELSE IF l[1].k = "num" THEN "ints"
    ELSE IF l[1].k = "str" THEN "strings"
    ELSE IF ~IsObject(l[1]) THEN "none"
    ELSE IF Has(l[1], "_o_", "str") THEN "bytesList"
    ELSE IF Has(l[1], "_d_", "num") THEN "floats"
    ELSE IF Has(l[1], "_m_", "num") THEN "times"
    ELSE "messages"

\* Mutant: an empty list is kept as it came.
DroppedNotEmpty(w) == w.k = "arr" /\ w.l # <<>> /\ ListKind(w.l) = "none"
Dropped(w) == w.k = "arr" /\ ListKind(w.l) = "none"

\* Of a list of anything but numbers and strings the objects are kept.
DecodeElement(kind, w, decode) ==
    CASE kind = "ints" -> Scalar("int", IF w.k = "num" THEN ToInt(ToFloat(w.n)) ELSE 0)
      [] kind = "strings" -> Scalar("string", IF w.k = "str" THEN w.n ELSE NoText)
      [] kind \notin {"ints", "strings"} /\ ~IsObject(w) -> Absent
      [] kind = "bytesList" /\ IsObject(w) -> Scalar("bytes", BytesOf(w))
      [] kind = "floats" /\ IsObject(w) -> Scalar("float", NumberOf(w, "_d_"))
      [] kind = "times" /\ IsObject(w) -> Scalar("time", TimeOf(w))
      [] kind = "messages" /\ IsObject(w) -> decode[w]

DecodeObject(w, decode) ==
    IF Has(w, "_o_", "str") THEN Scalar("bytes", BytesOf(w))
    ELSE IF Has(w, "_d_", "num") THEN Scalar("float", NumberOf(w, "_d_"))
    ELSE IF Has(w, "_d_", "str") THEN Scalar("float", ParseFloat(w.f["_d_"].n))
    ELSE IF Has(w, "_m_", "num") THEN Scalar("time", TimeOf(w))
    ELSE decode[w]

\* decode stands for the decoding of the objects inside w.
DecodeField(w, decode) ==
    CASE w.k = "num" -> Scalar("int", ToInt(ToFloat(w.n)))
      [] w.k = "str" -> Scalar("string", w.n)
      [] w.k = "arr" ->
            IF Dropped(w) THEN Absent
            ELSE List(ListKind(w.l),
                      [i \in DOMAIN w.l |-> DecodeElement(ListKind(w.l), w.l[i], decode)])
      [] w.k = "obj" -> DecodeObject(w, decode)
      [] OTHER -> w         \* true, false and null stay as they are

DecodeMessage(w, decode) ==
    Struct("message", [x \in Names |-> DecodeField(w.f[x], decode)])

Decode[d \in Nat] ==
    IF d = 0 THEN <<>>
    ELSE [w \in Json[d] |-> DecodeMessage(w, Decode[d - 1])]

ASSUME ObjectsAssumption == Objects \subseteq Json[Depth + 1]

-----------------------------------------------------------------------------
VARIABLES
    phase,      \* where the message is
    op,         \* "event" or "heartbeat": what the frame on its way is
    app,        \* the message the application published, if it did
    wire,       \* the JSON on its way
    got         \* the message last received

vars == <<phase, op, app, wire, got>>

\* The body nests a message one deeper, the tags of the encoding once more.
CanEncode(m) == m \in Encodable[Depth + 1]
Marshal(m) == Encode[Depth + 1][m]
Unmarshal(w) == Decode[Depth + 2][w]

\* What is published goes under "body"; what is found there is delivered if it
\* is a Message, and a nil Message if not, which has no fields.
InBody(m) ==
    Struct("message", [x \in Names |-> IF x = "body" THEN m ELSE Absent])
NilMessage == Struct("message", [x \in Names |-> Absent])
BodyOf(m) == IF m.f["body"].k = "message" THEN m.f["body"] ELSE NilMessage

\* The frame with message m, and the message received of object w.
Outgoing(m) == IF op = "event" THEN InBody(m) ELSE m
Incoming(w) == IF op = "event" THEN BodyOf(Unmarshal(w)) ELSE Unmarshal(w)

Init ==
    /\ phase = "idle"
    /\ op = "event"
    /\ app = Absent
    /\ wire = Absent
    /\ got = Absent

\* The application publishes a message, or is told that it cannot be encoded.
Publish ==
    \E m \in Messages :
        /\ phase = "idle"
        /\ app' = m
        /\ IF CanEncode(InBody(m))
           THEN phase' = "sent" /\ wire' = Marshal(InBody(m))
           ELSE phase' = "refused" /\ wire' = wire
        /\ UNCHANGED <<op, got>>

\* The server sends an object that no client of this library encoded.
ServerSend ==
    \E w \in Objects, o \in {"event", "heartbeat"} :
        /\ phase = "idle"
        /\ phase' = "sent"
        /\ op' = o
        /\ wire' = w
        /\ UNCHANGED <<app, got>>

Receive ==
    /\ \/ phase = "sent" /\ phase' = "received"
       \/ phase = "resent" /\ phase' = "again"
    /\ got' = Incoming(wire)
    /\ UNCHANGED <<op, app, wire>>

\* The dispatcher sends a heartbeat back, and drops the error of WriteJSON; an
\* application publishes what it received.
SendOn ==
    /\ phase = "received"
    /\ IF CanEncode(Outgoing(got))
       THEN phase' = "resent" /\ wire' = Marshal(Outgoing(got))
       ELSE phase' = "stuck" /\ wire' = wire
    /\ UNCHANGED <<op, app, got>>

Next == Publish \/ ServerSend \/ Receive \/ SendOn

Spec == Init /\ [][Next]_vars

-----------------------------------------------------------------------------
(***************************************************************************)
(* What a receiver should see of a message: every field, with integers and   *)
(* times as exact as the wire lets them be, and a float32 as a float64.      *)
(* Stated on the values, not through JSON.                                  *)
(***************************************************************************)
SeenInt(i) == ToInt(ToFloat(Whole(i)))
\* A time is cut to milliseconds.
SeenTime(ns) == Trunc(ns, NanosPerMilli) * NanosPerMilli
SeenScalar(v) ==
    CASE v.k = "int" -> Scalar("int", SeenInt(v.n))
      [] v.k = "float32" -> Scalar("float", ToFloat(v.n))
      [] v.k = "time" -> Scalar("time", SeenTime(v.n))
      [] OTHER -> v
SeenKind(k) == IF k = "float32s" THEN "floats" ELSE k

SeenField(v, seen) ==
    CASE v = NilList -> Null
      [] v.k \in ListKinds /\ v.l = <<>> -> Absent
      [] v.k = "message" -> seen[v]
      [] v.k = "messages" /\ v.l # <<>> ->
            List("messages", [i \in DOMAIN v.l |->
                                IF v.l[i] = Absent THEN Absent ELSE seen[v.l[i]]])
      [] v.k \in ListKinds \ {"messages"} /\ v.l # <<>> ->
            List(SeenKind(v.k), [i \in DOMAIN v.l |-> SeenScalar(v.l[i])])
      [] OTHER -> SeenScalar(v)

SeenMessage(m, seen) ==
    Struct("message", [x \in Names |-> SeenField(m.f[x], seen)])

Seen[d \in Nat] ==
    IF d = 0 THEN <<>>
    ELSE [m \in Encodable[d] |-> SeenMessage(m, Seen[d - 1])]

(***************************************************************************)
(* A message under "body" or nested in it, or the first of a list, whose own *)
(* fields look like the encoding of bytes, a float or a time: see the README. *)
(***************************************************************************)
HeadLooksTagged(m) ==
    m.f["_o_"].k = "string" \/ m.f["_d_"].k = "int" \/ m.f["_m_"].k = "int"
LooksTagged(m) == HeadLooksTagged(m) \/ m.f["_d_"].k = "string"

\* The lists of messages from S that do not start with such a message.
ClearLists(S) ==
    {v \in GapLists("messages", S) : v.l # <<>> => ~HeadLooksTagged(v.l[1])}

\* The times that 64 bits of nanoseconds can count.
SpanTimes == Scalars("time", Nanos)

\* The messages in which no nested one can be taken for something else, and
\* every time can be counted.
ClearOver(S) ==
    Structs("message",
            SimpleValues(SpanTimes) \cup {m \in S : ~LooksTagged(m)} \cup ClearLists(S))
Clear[d \in Nat] == IF d = 0 THEN {} ELSE ClearOver(Clear[d - 1])

\* The messages without a nil list anywhere.
NilFreeOver(S) ==
    Structs("message", (SimpleValues(Times) \ {NilList}) \cup S \cup GapLists("messages", S))
NilFree[d \in Nat] == IF d = 0 THEN {} ELSE NilFreeOver(NilFree[d - 1])

\* A message with its times cut to milliseconds, and else as it is.
CutScalar(v) == IF v.k = "time" THEN Scalar("time", SeenTime(v.n)) ELSE v
CutField(v, cut) ==
    CASE v.k = "message" -> cut[v]
      [] v.k = "messages" ->
            List("messages", [i \in DOMAIN v.l |->
                                IF v.l[i] = Absent THEN Absent ELSE cut[v.l[i]]])
      [] v.k = "times" -> List("times", [i \in DOMAIN v.l |-> CutScalar(v.l[i])])
      [] OTHER -> CutScalar(v)

CutMessage(m, cut) ==
    Struct("message", [x \in Names |-> CutField(m.f[x], cut)])

CutTimes[d \in Nat] ==
    IF d = 0 THEN <<>>
    ELSE [m \in Encodable[d] |-> CutMessage(m, CutTimes[d - 1])]

\* A message is received as it was published: encode and decode are inverse,
\* but for empty lists, which are dropped, nil lists, float32s, which arrive as
\* float64s, and the precision of integers and times.  A message that looks
\* like an encoded value, or holds one that does, is excepted, and so is a time
\* before 1677 or after 2262.
RoundTrip ==
    phase = "received" /\ app \in Clear[Depth] /\ ~LooksTagged(app) =>
        got = Seen[Depth][app]

\* What one client of the library could publish, a client that receives it
\* can publish too: decode yields only what encode knows.
SentOnIfPublished ==
    phase = "stuck" => app \notin Clear[Depth] \cap NilFree[Depth]

\* A heartbeat is one deeper than what is published: it has no body around it.
SentOnDepth == IF op = "event" THEN Depth ELSE Depth + 1

\* A message that is sent on arrives as it was first received, whoever made
\* it: nothing more is lost on the second way.  Only a time that overflowed on
\* the first way, and is no whole number of milliseconds any more, is cut to
\* milliseconds on the second.
SecondTripExact ==
    [][phase = "resent" => got' = CutTimes[SentOnDepth][got]]_vars
=============================================================================
