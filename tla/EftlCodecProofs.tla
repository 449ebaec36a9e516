-------------------------- MODULE EftlCodecProofs --------------------------
(***************************************************************************)
(* What encode and decode preserve, for messages of any depth.              *)
(***************************************************************************)
EXTENDS EftlCodec, TLAPS

EncodableStep(d, S) == EncodableOver(S)
EncodableLevels == INSTANCE Levels WITH Base <- {}, Step <- EncodableStep

JsonStep(d, S) == JsonOver(S)
JsonLevels == INSTANCE Levels WITH Base <- {}, Step <- JsonStep

ClearStep(d, S) == ClearOver(S)
ClearLevels == INSTANCE Levels WITH Base <- {}, Step <- ClearStep

NilFreeStep(d, S) == NilFreeOver(S)
NilFreeLevels == INSTANCE Levels WITH Base <- {}, Step <- NilFreeStep

EncodeStep(d, encode) == [m \in Encodable[d] |-> EncodeMessage(m, encode)]
EncodeLevels == INSTANCE Levels WITH Base <- <<>>, Step <- EncodeStep

DecodeStep(d, decode) == [w \in Json[d] |-> DecodeMessage(w, decode)]
DecodeLevels == INSTANCE Levels WITH Base <- <<>>, Step <- DecodeStep

SeenStep(d, seen) == [m \in Encodable[d] |-> SeenMessage(m, seen)]
SeenLevels == INSTANCE Levels WITH Base <- <<>>, Step <- SeenStep

CutStep(d, cut) == [m \in Encodable[d] |-> CutMessage(m, cut)]
CutLevels == INSTANCE Levels WITH Base <- <<>>, Step <- CutStep

LEMMA EncodableDef ==
    Encodable[0] = {} /\ \A d \in Nat : Encodable[d + 1] = EncodableOver(Encodable[d])
<1>1. Encodable = EncodableLevels!Level
    BY DEF Encodable, EncodableLevels!Level, EncodableStep
<1>. QED
    BY <1>1, EncodableLevels!LevelDef DEF EncodableStep

LEMMA JsonDef ==
    Json[0] = {} /\ \A d \in Nat : Json[d + 1] = JsonOver(Json[d])
<1>1. Json = JsonLevels!Level
    BY DEF Json, JsonLevels!Level, JsonStep
<1>. QED
    BY <1>1, JsonLevels!LevelDef DEF JsonStep

LEMMA ClearDef ==
    Clear[0] = {} /\ \A d \in Nat : Clear[d + 1] = ClearOver(Clear[d])
<1>1. Clear = ClearLevels!Level
    BY DEF Clear, ClearLevels!Level, ClearStep
<1>. QED
    BY <1>1, ClearLevels!LevelDef DEF ClearStep

LEMMA NilFreeDef ==
    NilFree[0] = {} /\ \A d \in Nat : NilFree[d + 1] = NilFreeOver(NilFree[d])
<1>1. NilFree = NilFreeLevels!Level
    BY DEF NilFree, NilFreeLevels!Level, NilFreeStep
<1>. QED
    BY <1>1, NilFreeLevels!LevelDef DEF NilFreeStep

LEMMA EncodeDef ==
    \A d \in Nat :
        Encode[d + 1] = [m \in Encodable[d + 1] |-> EncodeMessage(m, Encode[d])]
<1>1. Encode = EncodeLevels!Level
    BY DEF Encode, EncodeLevels!Level, EncodeStep
<1>. QED
    BY <1>1, EncodeLevels!LevelDef DEF EncodeStep

LEMMA DecodeDef ==
    \A d \in Nat :
        Decode[d + 1] = [w \in Json[d + 1] |-> DecodeMessage(w, Decode[d])]
<1>1. Decode = DecodeLevels!Level
    BY DEF Decode, DecodeLevels!Level, DecodeStep
<1>. QED
    BY <1>1, DecodeLevels!LevelDef DEF DecodeStep

LEMMA SeenDef ==
    \A d \in Nat :
        Seen[d + 1] = [m \in Encodable[d + 1] |-> SeenMessage(m, Seen[d])]
<1>1. Seen = SeenLevels!Level
    BY DEF Seen, SeenLevels!Level, SeenStep
<1>. QED
    BY <1>1, SeenLevels!LevelDef DEF SeenStep

LEMMA CutDef ==
    \A d \in Nat :
        CutTimes[d + 1] = [m \in Encodable[d + 1] |-> CutMessage(m, CutTimes[d])]
<1>1. CutTimes = CutLevels!Level
    BY DEF CutTimes, CutLevels!Level, CutStep
<1>. QED
    BY <1>1, CutLevels!LevelDef DEF CutStep

-----------------------------------------------------------------------------
(* Numbers. *)

\* Rounding stays within the numbers, and rounds nothing twice; the integer
\* part of what is rounded is not rounded.
LEMMA RoundExact ==
    ASSUME NEW x \in 0..Top, NEW y, y = RoundTo(Ulp(x), x)
    PROVE  /\ y \in 0..Top /\ RoundTo(Ulp(y), y) = y
           /\ 2 * (y \div 2) \in 0..Top
           /\ RoundTo(Ulp(2 * (y \div 2)), 2 * (y \div 2)) = 2 * (y \div 2)
<1>. USE CodecAssumption DEF Top
<1>1. y \in 0..Top /\ RoundTo(Ulp(y), y) = y
  <2>1. CASE x < 2 * Exact
    BY <2>1 DEF Ulp, RoundTo
  <2>2. CASE x >= 2 * Exact /\ x < 4 * Exact
    BY <2>2 DEF Ulp, RoundTo
  <2>3. CASE x >= 4 * Exact /\ x < 8 * Exact
    BY <2>3 DEF Ulp, RoundTo
  <2>4. CASE x >= 8 * Exact
    BY <2>4 DEF Ulp, RoundTo
  <2>. QED
    BY <2>1, <2>2, <2>3, <2>4
<1>2. \/ y < 2 * Exact
      \/ y >= 2 * Exact /\ y % 2 = 0
  <2>1. CASE x < 2 * Exact
    BY <2>1 DEF Ulp, RoundTo
  <2>2. CASE x >= 2 * Exact /\ x < 4 * Exact
    BY <2>2 DEF Ulp, RoundTo
  <2>3. CASE x >= 4 * Exact /\ x < 8 * Exact
    BY <2>3 DEF Ulp, RoundTo
  <2>4. CASE x >= 8 * Exact
    BY <2>4 DEF Ulp, RoundTo
  <2>. QED
    BY <2>1, <2>2, <2>3, <2>4
<1>3. CASE y < 2 * Exact
  <2>1. 2 * (y \div 2) \in 0..Top /\ 2 * (y \div 2) < 2 * Exact
    BY <1>1, <1>3
  <2>. QED
    BY <1>1, <2>1 DEF Ulp, RoundTo
<1>4. CASE y >= 2 * Exact /\ y % 2 = 0
  <2>1. 2 * (y \div 2) = y
    BY <1>1, <1>4
  <2>. QED
    BY <1>1, <2>1
<1>. QED
    BY <1>1, <1>2, <1>3, <1>4

LEMMA TopType ==
    Top \in Nat /\ Numbers = -Top..Top
    BY CodecAssumption DEF Top, Numbers

\* The same of numbers of either sign: a float64 is one, and an integer read
\* from the wire is exact, so that it is not rounded when it is written again.
LEMMA FloatExact ==
    ASSUME NEW x \in Numbers
    PROVE  ToFloat(x) \in Numbers /\ ToFloat(ToFloat(x)) = ToFloat(x)
<1>1. CASE x >= 0
  <2>. DEFINE y == RoundTo(Ulp(x), x)
  <2>1. x \in 0..Top
    BY <1>1, TopType
  <2>2. y \in 0..Top /\ RoundTo(Ulp(y), y) = y
    BY <2>1, RoundExact
  <2>3. ToFloat(x) = y
    BY <1>1 DEF ToFloat
  <2>. HIDE DEF y
  <2>4. ToFloat(y) = y
    BY <2>2, TopType DEF ToFloat
  <2>. QED
    BY <2>2, <2>3, <2>4, TopType
<1>2. CASE ~(x >= 0)
  <2>. DEFINE y == RoundTo(Ulp(-x), -x)
  <2>1. -x \in 0..Top
    BY <1>2, TopType
  <2>2. y \in 0..Top /\ RoundTo(Ulp(y), y) = y
    BY <2>1, RoundExact
  <2>3. ToFloat(x) = -y
    BY <1>2 DEF ToFloat
  <2>. HIDE DEF y
  <2>4. ToFloat(0) = 0
    BY CodecAssumption DEF ToFloat, RoundTo, Ulp
  <2>5. ToFloat(-y) = -y
    <3>1. CASE y = 0
        BY <2>4, <3>1
    <3>2. CASE y # 0
      <4>1. ~(-y >= 0) /\ -(-y) = y
        BY <2>2, <3>2, TopType
      <4>. QED
        BY <2>2, <4>1 DEF ToFloat
    <3>. QED
        BY <3>1, <3>2
  <2>. QED
    BY <2>2, <2>3, <2>5, TopType
<1>. QED
    BY <1>1, <1>2

\* Nothing is its own negative but zero.
LEMMA Negative ==
    \A k \in Int : k = 0 => -k = k /\ k \div 2 = k
<1>1. \A k \in Int : -k \in Int /\ (k = 0 => -k <= 0 /\ -k >= 0)
    OBVIOUS
<1>2. \A k \in Int : k <= 0 /\ k >= 0 => k = 0
    OBVIOUS
<1>3. \A k \in Int : k = 0 => k \div 2 = k
    OBVIOUS
<1>4. \A k \in Int : k = 0 => -k = 0
    BY <1>1, <1>2
<1>. QED
    BY <1>3, <1>4

LEMMA IntExact ==
    ASSUME NEW x \in Numbers
    PROVE  /\ ToInt(ToFloat(x)) \in Int
           /\ Whole(ToInt(ToFloat(x))) \in Numbers
           /\ ToFloat(Whole(ToInt(ToFloat(x)))) = Whole(ToInt(ToFloat(x)))
<1>1. CASE x >= 0
  <2>. DEFINE y == RoundTo(Ulp(x), x)
              i == y \div 2
  <2>1. x \in 0..Top
    BY <1>1, TopType
  <2>2. y \in 0..Top /\ 2 * i \in 0..Top /\ RoundTo(Ulp(2 * i), 2 * i) = 2 * i
    BY <2>1, RoundExact
  <2>3. ToFloat(x) = y
    BY <1>1 DEF ToFloat
  <2>. HIDE DEF y
  <2>4. i \in Int /\ ToInt(y) = i
    BY <2>2, TopType DEF ToInt, Trunc
  <2>. HIDE DEF i
  <2>5. ToFloat(2 * i) = 2 * i
    BY <2>2, TopType DEF ToFloat
  <2>. QED
    BY <2>2, <2>3, <2>4, <2>5, TopType DEF Whole
<1>2. CASE ~(x >= 0)
  <2>. DEFINE y == RoundTo(Ulp(-x), -x)
              i == y \div 2
  <2>1. -x \in 0..Top
    BY <1>2, TopType
  <2>2. y \in 0..Top /\ 2 * i \in 0..Top /\ RoundTo(Ulp(2 * i), 2 * i) = 2 * i
    BY <2>1, RoundExact
  <2>3. ToFloat(x) = -y
    BY <1>2 DEF ToFloat
  <2>. HIDE DEF y
  <2>4. i \in Nat /\ ToInt(-y) = -i
    <3>1. CASE y = 0
      <4>1. y \in Int
        BY <2>2, TopType
      <4>2. -y = y /\ i = y
        BY <3>1, <4>1, Negative
      <4>3. -i = i /\ ToInt(y) = y
        BY <3>1, <4>1, <4>2, Negative DEF ToInt, Trunc
      <4>. QED
        BY <2>2, <3>1, <4>2, <4>3, TopType
    <3>2. CASE y # 0
      <4>1. ~(-y >= 0) /\ -(-y) = y
        BY <2>2, <3>2, TopType
      <4>2. ToInt(-y) = -(y \div 2)
        BY <4>1 DEF ToInt, Trunc
      <4>. QED
        BY <2>2, <4>2, TopType
    <3>. QED
        BY <3>1, <3>2
  <2>. HIDE DEF i
  <2>5. ToFloat(-(2 * i)) = -(2 * i)
    <3>1. CASE i = 0
        BY <3>1, CodecAssumption DEF ToFloat, RoundTo, Ulp
    <3>2. CASE i # 0
      <4>1. ~(-(2 * i) >= 0) /\ -(-(2 * i)) = 2 * i
        BY <2>4, <3>2
      <4>. QED
        BY <2>2, <4>1 DEF ToFloat
    <3>. QED
        BY <3>1, <3>2
  <2>6. Whole(-i) = -(2 * i) /\ -i \in Int
    BY <2>4 DEF Whole
  <2>. QED
    BY <2>2, <2>3, <2>4, <2>5, <2>6, TopType
<1>. QED
    BY <1>1, <1>2

\* What 64 bits can hold is not wrapped, and what is wrapped they hold.
LEMMA WrapExact ==
    /\ \A x \in Nanos : Wrap(x) = x
    /\ \A x \in Int : Wrap(x) \in Nanos
<1>. DEFINE M == MaxInt64 + 1
<1>1. M \in Nat /\ M > 0 /\ Nanos = -M..(M - 1)
    BY CodecAssumption DEF Nanos
<1>2. \A x \in Int : Wrap(x) = ((x + M) % (2 * M)) - M
  <2>1. \A x \in Int : x + MaxInt64 + 1 = x + M
    BY CodecAssumption
  <2>. QED
    BY <2>1 DEF Wrap
<1>. HIDE DEF M
<1>3. ASSUME NEW x \in Nanos PROVE Wrap(x) = x
  <2>1. x + M \in 0..(2 * M - 1)
    BY <1>1
  <2>2. (x + M) % (2 * M) = x + M
    BY <1>1, <2>1
  <2>3. x \in Int /\ (x + M) - M = x
    BY <1>1
  <2>. QED
    BY <1>2, <2>2, <2>3
<1>4. ASSUME NEW x \in Int PROVE Wrap(x) \in Nanos
  <2>1. (x + M) % (2 * M) \in 0..(2 * M - 1)
    BY <1>1
  <2>2. ((x + M) % (2 * M)) - M \in -M..(M - 1)
    BY <1>1, <2>1
  <2>3. Wrap(x) = ((x + M) % (2 * M)) - M
    BY <1>2
  <2>. QED
    BY <1>1, <2>2, <2>3, Zenon
<1>. QED
    BY <1>3, <1>4

\* Division toward zero: of a time that can be counted, or overflowed to one,
\* the milliseconds are so few that a float64 counts them exactly, and as many
\* nanoseconds can be counted again.
LEMMA TruncSmall ==
    ASSUME NEW ns \in Nanos
    PROVE  LET ms == Trunc(ns, NanosPerMilli)
           IN  /\ ms \in Int /\ -Exact <= ms /\ ms <= Exact
               /\ ms * NanosPerMilli \in Nanos
<1>. DEFINE M == MaxInt64 + 1
            p == NanosPerMilli
            q == (IF ns >= 0 THEN ns ELSE -ns) \div p
            r == (IF ns >= 0 THEN ns ELSE -ns) % p
<1>1. /\ M \in Nat /\ p \in Nat \ {0} /\ M \div p <= Exact /\ Exact \in Nat
      /\ Nanos = -M..(M - 1)
    BY CodecAssumption DEF Nanos
<1>2. PICK a \in 0..M : a = (IF ns >= 0 THEN ns ELSE -ns) /\ (ns >= 0 => a <= M - 1)
    BY <1>1
<1>3. q = a \div p /\ r = a % p
    BY <1>2
<1>. HIDE DEF q, r, M
<1>. HIDE DEF p
<1>4. q \in Nat /\ r \in Nat /\ a = p * q + r
    BY <1>1, <1>2, <1>3
<1>5. p * q \in Nat /\ p * q <= a
    BY <1>1, <1>2, <1>4
<1>6. q <= M \div p
    <2>. DEFINE t == M \div p
    <2>0. t \in Nat /\ M = p * t + (M % p) /\ M % p < p /\ M % p >= 0
        BY <1>1
    <2>. HIDE DEF t
    <2>1. PICK s \in Nat : s = t /\ M < p * (s + 1)
      <3>1. p * (t + 1) = p * t + p
        BY <1>1, <2>0
      <3>2. p * t \in Int /\ M % p \in Int
        BY <1>1, <2>0
      <3>. QED
        BY <1>1, <2>0, <3>1, <3>2
    <2>2. p * q < p * (s + 1)
        BY <1>1, <1>2, <1>5, <2>1
    <2>3. q < s + 1
        BY <1>1, <1>4, <2>1, <2>2
    <2>. QED
        BY <1>4, <2>1, <2>3 DEF t
<1>7. M \div p \in Nat
    BY <1>1
<1>8. q <= Exact
    BY <1>1, <1>4, <1>6, <1>7
<1>9. CASE ns >= 0
  <2>1. Trunc(ns, p) = q
    BY <1>9, <1>2, <1>3 DEF Trunc
  <2>2. q * p = p * q
    BY <1>1, <1>4
  <2>3. q * p \in -M..(M - 1)
    BY <1>1, <1>2, <1>5, <1>9, <2>2
  <2>. QED
    BY <1>1, <1>4, <1>8, <2>1, <2>3 DEF p
<1>10. CASE ~(ns >= 0)
  <2>1. Trunc(ns, p) = -q
    BY <1>10, <1>2, <1>3 DEF Trunc
  <2>2. (-q) * p = -(p * q)
    BY <1>1, <1>4
  <2>3. (-q) * p \in -M..(M - 1)
    BY <1>1, <1>2, <1>5, <1>10, <2>2
  <2>. QED
    BY <1>1, <1>4, <1>8, <2>1, <2>3 DEF p
<1>. QED
    BY <1>9, <1>10

\* The milliseconds that are written for a time, whatever it is.
LEMMA MillisExact ==
    ASSUME NEW ns \in Int
    PROVE  LET ms == ToMillis(ns)
           IN  /\ ms \in Int /\ Whole(ms) \in Numbers /\ ToInt(ToFloat(Whole(ms))) = ms
               /\ FromMillis(ms) \in Nanos
               /\ ns \in Nanos => FromMillis(ms) = SeenTime(ns)
<1>. DEFINE ms == ToMillis(ns)
<1>1. Wrap(ns) \in Nanos
    BY WrapExact
<1>2. ms = Trunc(Wrap(ns), NanosPerMilli)
    BY DEF ToMillis
<1>. HIDE DEF ms
<1>3. /\ ms \in Int /\ -Exact <= ms /\ ms <= Exact
      /\ ms * NanosPerMilli \in Nanos
    BY <1>1, <1>2, TruncSmall
<1>4. Whole(ms) \in Numbers /\ ToFloat(Whole(ms)) = Whole(ms)
    BY <1>3, CodecAssumption DEF Whole, Numbers, Top, ToFloat, RoundTo, Ulp
<1>5. ToInt(Whole(ms)) = ms
    BY <1>3 DEF ToInt, Trunc, Whole
<1>6. FromMillis(ms) = ms * NanosPerMilli
    BY <1>3, WrapExact DEF FromMillis
<1>7. ns \in Nanos => SeenTime(ns) = ms * NanosPerMilli
    BY <1>2, WrapExact DEF SeenTime
<1>. QED
    BY <1>3, <1>4, <1>5, <1>6, <1>7 DEF ms

-----------------------------------------------------------------------------
(* Values without messages. *)

JsonFields(J) == JsonLeaves \cup J \cup Lists("arr", JsonElements(J))

\* A field, or an element of a list, is written as JSON and read as it should
\* be seen.
FieldTrips(v, enc, dec, seen, J) ==
    /\ EncodeField(v, enc) \in JsonFields(J)
    /\ DecodeField(EncodeField(v, enc), dec) = SeenField(v, seen)
ElementTrips(kind, v, dec, J) ==
    /\ EncodeScalar(v) \in JsonElements(J)
    /\ DecodeElement(kind, EncodeScalar(v), dec) = SeenScalar(v)

\* Fields of records that are built are what they were built from.
LEMMA Fields ==
    /\ \A k, n : Scalar(k, n).k = k /\ Scalar(k, n).n = n
    /\ \A k, l : List(k, l).k = k /\ List(k, l).l = l
    /\ \A k, f : Struct(k, f).k = k /\ Struct(k, f).f = f
    BY DEF Scalar, List, Struct

LEMMA TaggedFields ==
    ASSUME NEW tag \in Names, NEW json
    PROVE  /\ Tagged(tag, json).k = "obj"
           /\ Tagged(tag, json).f[tag] = json
           /\ \A x \in Names \ {tag} : Tagged(tag, json).f[x].k = "absent"
    BY DEF Tagged, Struct, Absent, Scalar

LEMMA TaggedType ==
    ASSUME NEW tag \in Names, NEW json \in JsonLeaves, NEW d \in Nat
    PROVE  Tagged(tag, json) \in Json[d + 1]
<1>1. Json[d + 1] = JsonOver(Json[d])
    BY JsonDef
<1>. QED
    BY <1>1 DEF Tagged, Struct, JsonOver, Structs

\* The element of a list of simple values, and the field that holds a scalar,
\* is read as it should be seen.
LEMMA StringTrip ==
    ASSUME NEW v \in Strings, NEW dec
    PROVE  /\ EncodeScalar(v) \in JsonLeaves
           /\ EncodeScalar(v).k = "str"
           /\ DecodeField(EncodeScalar(v), dec) = v
           /\ DecodeElement("strings", EncodeScalar(v), dec) = v
<1>1. v.k = "string" /\ v.n \in Texts /\ v = Scalar("string", v.n)
    BY DEF Strings, Scalars, Scalar
<1>2. EncodeScalar(v) = Scalar("str", v.n)
    BY <1>1 DEF EncodeScalar
<1>. QED
    BY <1>1, <1>2 DEF DecodeField, DecodeElement, JsonLeaves, Scalars, Scalar

LEMMA IntTrip ==
    ASSUME NEW v \in Ints, NEW dec
    PROVE  /\ EncodeScalar(v) \in JsonLeaves
           /\ EncodeScalar(v).k = "num"
           /\ DecodeField(EncodeScalar(v), dec) = SeenScalar(v)
           /\ DecodeElement("ints", EncodeScalar(v), dec) = SeenScalar(v)
<1>1. v.k = "int" /\ Whole(v.n) \in Numbers
    BY DEF Ints, Scalars, Scalar
<1>2. EncodeScalar(v) = Scalar("num", Whole(v.n))
    BY <1>1 DEF EncodeScalar
<1>3. SeenScalar(v) = Scalar("int", ToInt(ToFloat(Whole(v.n))))
    BY <1>1 DEF SeenScalar, SeenInt
<1>. QED
    BY <1>1, <1>2, <1>3 DEF DecodeField, DecodeElement, JsonLeaves, Scalars, Scalar

\* A float, of 32 or of 64 bits.
LEMMA FloatTrip ==
    ASSUME NEW v \in Singles \cup Floats, NEW dec, NEW d \in Nat
    PROVE  /\ EncodeScalar(v) \in Json[d + 1]
           /\ EncodeScalar(v) # Absent
           /\ EncodeScalar(v).k = "obj"
           /\ ListKind(<<EncodeScalar(v)>>) = "floats"
           /\ DecodeField(EncodeScalar(v), dec) = SeenScalar(v)
           /\ DecodeElement("floats", EncodeScalar(v), dec) = SeenScalar(v)
<1>. DEFINE num == Scalar("num", v.n)
            w == Tagged("_d_", num)
<1>1. v.k \in {"float32", "float"} /\ v.n \in Numbers
    BY DEF Singles, Floats, Scalars
<1>2. EncodeScalar(v) = w
    BY <1>1 DEF EncodeScalar
<1>3. num \in JsonLeaves /\ num.k = "num" /\ num.n = v.n
    BY <1>1 DEF JsonLeaves, Scalars, Scalar
<1>4. Reserved \subseteq Names
    BY CodecAssumption
<1>5. SeenScalar(v) = Scalar("float", ToFloat(v.n))
  <2>1. CASE v \in Singles
    BY <2>1 DEF SeenScalar, Singles, Scalars
  <2>2. CASE v \in Floats
    BY <2>2 DEF SeenScalar, Floats, Scalars, Scalar
  <2>. QED
    BY <2>1, <2>2
<1>. HIDE DEF num
<1>6. /\ w.k = "obj"
      /\ w.f["_d_"] = num
      /\ w.f["_o_"].k = "absent"
    BY <1>4, TaggedFields DEF Reserved
<1>7. w \in Json[d + 1]
    BY <1>3, <1>4, TaggedType DEF Reserved
<1>. HIDE DEF w
<1>8. NumberOf(w, "_d_") = ToFloat(v.n)
    BY <1>3, <1>6 DEF NumberOf, Has
<1>9. DecodeObject(w, dec) = SeenScalar(v)
    BY <1>3, <1>5, <1>6, <1>8 DEF DecodeObject, Has
<1>10. DecodeField(w, dec) = SeenScalar(v) /\ DecodeElement("floats", w, dec) = SeenScalar(v)
    BY <1>5, <1>6, <1>8, <1>9 DEF DecodeField, DecodeElement, IsObject
<1>11. ListKind(<<w>>) = "floats"
    BY <1>3, <1>6 DEF ListKind, Has, IsObject
<1>. QED
    BY <1>2, <1>6, <1>7, <1>10, <1>11 DEF Absent, Scalar

\* A time is written as a number of milliseconds, and read as it should be
\* seen if its nanoseconds can be counted.
LEMMA TimeTrip ==
    ASSUME NEW v \in Times, NEW dec, NEW d \in Nat
    PROVE  /\ EncodeScalar(v) \in Json[d + 1]
           /\ EncodeScalar(v) # Absent
           /\ EncodeScalar(v).k = "obj"
           /\ ListKind(<<EncodeScalar(v)>>) = "times"
           /\ v \in SpanTimes =>
                /\ DecodeField(EncodeScalar(v), dec) = SeenScalar(v)
                /\ DecodeElement("times", EncodeScalar(v), dec) = SeenScalar(v)
<1>. DEFINE ms == ToMillis(v.n)
            num == Scalar("num", Whole(ms))
            w == Tagged("_m_", num)
<1>1. v.k = "time" /\ v.n \in Int
    BY DEF Times, Scalars
<1>2. /\ ms \in Int /\ Whole(ms) \in Numbers /\ ToInt(ToFloat(Whole(ms))) = ms
      /\ v.n \in Nanos => FromMillis(ms) = SeenTime(v.n)
    BY <1>1, MillisExact
<1>3. EncodeScalar(v) = w
    BY <1>1 DEF EncodeScalar
<1>4. num \in JsonLeaves /\ num.k = "num" /\ num.n = Whole(ms)
    BY <1>2 DEF JsonLeaves, Scalars, Scalar
<1>5. Reserved \subseteq Names
    BY CodecAssumption
<1>6. v \in SpanTimes => SeenScalar(v) = Scalar("time", FromMillis(ms))
    BY <1>1, <1>2 DEF SeenScalar, SpanTimes, Scalars
<1>. HIDE DEF num, ms
<1>7. /\ w.k = "obj"
      /\ w.f["_m_"] = num
      /\ w.f["_o_"].k = "absent"
      /\ w.f["_d_"].k = "absent"
    BY <1>5, TaggedFields DEF Reserved
<1>8. w \in Json[d + 1]
    BY <1>4, <1>5, TaggedType DEF Reserved
<1>. HIDE DEF w
<1>9. TimeOf(w) = FromMillis(ms)
    BY <1>2, <1>4, <1>7 DEF NumberOf, Has, TimeOf
<1>10. DecodeObject(w, dec) = Scalar("time", FromMillis(ms))
    BY <1>4, <1>7, <1>9 DEF DecodeObject, Has
<1>11. /\ DecodeField(w, dec) = Scalar("time", FromMillis(ms))
       /\ DecodeElement("times", w, dec) = Scalar("time", FromMillis(ms))
    BY <1>7, <1>9, <1>10 DEF DecodeField, DecodeElement, IsObject
<1>12. ListKind(<<w>>) = "times"
    BY <1>4, <1>7 DEF ListKind, Has, IsObject
<1>. QED
    BY <1>3, <1>6, <1>7, <1>8, <1>11, <1>12 DEF Absent, Scalar

LEMMA BytesTrip ==
    ASSUME NEW v \in Scalars("bytes", Texts), NEW dec, NEW d \in Nat
    PROVE  /\ EncodeScalar(v) \in Json[d + 1]
           /\ EncodeScalar(v).k = "obj"
           /\ DecodeField(EncodeScalar(v), dec) = v
<1>. DEFINE str == Scalar("str", Base64(v.n))
            w == Tagged("_o_", str)
<1>1. v.k = "bytes" /\ v.n \in Nat /\ v = Scalar("bytes", v.n)
    BY DEF Texts, Scalars, Scalar
<1>2. EncodeScalar(v) = w
    BY <1>1 DEF EncodeScalar
<1>3. str \in JsonLeaves /\ str.k = "str" /\ str.n = v.n + 10
    BY <1>1 DEF JsonLeaves, Scalars, Scalar, Base64, Texts
<1>4. Reserved \subseteq Names
    BY CodecAssumption
<1>. HIDE DEF str
<1>5. w.k = "obj" /\ w.f["_o_"] = str
    BY <1>4, TaggedFields DEF Reserved
<1>6. w \in Json[d + 1]
    BY <1>3, <1>4, TaggedType DEF Reserved
<1>. HIDE DEF w
<1>7. BytesOf(w) = v.n
    BY <1>1, <1>3, <1>5 DEF BytesOf, Has, FromBase64
<1>8. DecodeField(w, dec) = v
    BY <1>1, <1>3, <1>5, <1>7 DEF DecodeField, DecodeObject, Has
<1>. QED
    BY <1>2, <1>5, <1>6, <1>8

-----------------------------------------------------------------------------
(* Lists. *)

\* A list is decoded element by element, as its first element has it.
LEMMA DecodeList ==
    ASSUME NEW T, NEW a \in Seq(T), a # <<>>, NEW dec, NEW kind, kind # "none",
           ListKind(<<a[1]>>) = kind,
           NEW U, NEW b \in Seq(U), DOMAIN b = DOMAIN a,
           \A i \in DOMAIN a : DecodeElement(kind, a[i], dec) = b[i]
    PROVE  DecodeField(List("arr", a), dec) = List(kind, b)
<1>. DEFINE w == List("arr", a)
<1>1. w.k = "arr" /\ w.l = a
    BY Fields
<1>2. ListKind(a) = kind
  <2>1. <<a[1]>> # <<>> /\ <<a[1]>>[1] = a[1]
    OBVIOUS
  <2>. QED
    BY <2>1 DEF ListKind
<1>3. ~Dropped(w)
    BY <1>1, <1>2 DEF Dropped
<1>4. b = [i \in DOMAIN a |-> DecodeElement(kind, a[i], dec)]
    OBVIOUS
<1>. HIDE DEF w
<1>5. DecodeField(w, dec) = List(kind, [i \in DOMAIN a |-> DecodeElement(kind, a[i], dec)])
    BY <1>1, <1>2, <1>3 DEF DecodeField
<1>. QED
    BY <1>4, <1>5 DEF w

\* A list without elements is left out.
LEMMA DropList ==
    ASSUME NEW dec
    PROVE  DecodeField(List("arr", <<>>), dec) = Absent
    BY Fields DEF DecodeField, Dropped, ListKind

\* Replacing each element of a sequence.
LEMMA MapSeq ==
    ASSUME NEW S, NEW T, NEW s \in Seq(S), NEW t, DOMAIN t = DOMAIN s,
           t = [i \in DOMAIN s |-> t[i]],
           \A i \in DOMAIN s : t[i] \in T
    PROVE  t \in Seq(T) /\ Len(t) = Len(s) /\ (s = <<>> <=> t = <<>>)
<1>1. DOMAIN s = 1..Len(s) /\ Len(s) \in Nat
    OBVIOUS
<1>2. t \in [1..Len(s) -> T]
    BY <1>1
<1>. QED
    BY <1>1, <1>2

\* A list of scalars is read as it should be seen, if its elements are.
LEMMA ScalarsTrip ==
    ASSUME NEW kind \in ListKinds \ {"messages"}, NEW S, NEW l \in Seq(S),
           NEW enc, NEW dec, NEW seen, NEW J,
           \A i \in DOMAIN l : ElementTrips(SeenKind(kind), l[i], dec, J),
           l # <<>> => ListKind(<<EncodeScalar(l[1])>>) = SeenKind(kind)
    PROVE  FieldTrips(List(kind, l), enc, dec, seen, J)
<1>. DEFINE v == List(kind, l)
            a == [i \in DOMAIN l |-> EncodeScalar(l[i])]
            b == [i \in DOMAIN l |-> SeenScalar(l[i])]
<1>1. v.k = kind /\ v.l = l /\ v # NilList
    BY DEF List, NilList, Scalar, ListKinds
<1>2. EncodeField(v, enc) = List("arr", a)
    BY <1>1 DEF EncodeField, ListKinds
<1>3. /\ DOMAIN a = DOMAIN l /\ a = [i \in DOMAIN l |-> a[i]]
      /\ DOMAIN b = DOMAIN l /\ b = [i \in DOMAIN l |-> b[i]]
      /\ \A i \in DOMAIN l : a[i] = EncodeScalar(l[i]) /\ b[i] = SeenScalar(l[i])
    OBVIOUS
<1>4. SeenField(v, seen) = IF l = <<>> THEN Absent ELSE List(SeenKind(kind), b)
    BY <1>1 DEF SeenField, ListKinds
<1>. HIDE DEF a, b, v
<1>5. a \in Seq(JsonElements(J)) /\ (l = <<>> <=> a = <<>>)
    BY <1>3, MapSeq DEF ElementTrips
<1>6. b \in Seq({b[i] : i \in DOMAIN l})
  <2>. DEFINE T == {b[i] : i \in DOMAIN l}
  <2>1. \A i \in DOMAIN l : b[i] \in T
    OBVIOUS
  <2>. HIDE DEF T
  <2>2. b \in Seq(T)
    BY <1>3, <2>1, MapSeq
  <2>. QED
    BY <2>2 DEF T
<1>7. CASE l = <<>>
  <2>1. a = <<>>
    BY <1>5, <1>7
  <2>2. EncodeField(v, enc) = List("arr", <<>>)
    BY <1>2, <2>1
  <2>3. List("arr", <<>>) \in Lists("arr", JsonElements(J))
    BY DEF Lists, List
  <2>4. DecodeField(EncodeField(v, enc), dec) = SeenField(v, seen)
    BY <1>4, <1>7, <2>2, DropList
  <2>. QED
    BY <2>2, <2>3, <2>4 DEF v, FieldTrips, JsonFields
<1>8. CASE l # <<>>
  <2>1. 1 \in DOMAIN l
    BY <1>8
  <2>2. DecodeField(List("arr", a), dec) = List(SeenKind(kind), b)
    BY <1>3, <1>5, <1>6, <1>8, <2>1, DecodeList DEF ListKinds, ElementTrips, SeenKind
  <2>. QED
    BY <1>2, <1>4, <1>5, <1>8, <2>2 DEF Lists, List, v, FieldTrips, JsonFields
<1>. QED
    BY <1>7, <1>8

\* A time that can be counted is a time.
LEMMA SpanSimple ==
    SpanTimes \subseteq Times /\ SimpleValues(SpanTimes) \subseteq SimpleValues(Times)
<1>1. SpanTimes \subseteq Times
    BY CodecAssumption DEF SpanTimes, Times, Scalars, Nanos
<1>2. GapLists("times", SpanTimes) \subseteq GapLists("times", Times)
    BY <1>1 DEF GapLists, Lists
<1>. QED
    BY <1>1, <1>2 DEF SimpleValues

\* A value without messages is read as it should be seen.
LEMMA SimpleTrip ==
    ASSUME NEW v \in SimpleValues(SpanTimes), NEW enc, NEW dec, NEW seen, NEW d \in Nat
    PROVE  FieldTrips(v, enc, dec, seen, Json[d + 1])
<1>. DEFINE J == Json[d + 1]
<1>0. SpanTimes \subseteq Times
    BY SpanSimple
<1>. HIDE DEF J
<1>1. CASE v \in Strings \cup Ints \cup Singles \cup Floats \cup SpanTimes
                    \cup Scalars("bytes", Texts)
  <2>1. v.k \in ScalarKinds /\ v # NilList
    BY <1>1 DEF Strings, Ints, Singles, Floats, SpanTimes, Scalars, ScalarKinds, NilList, Scalar
  <2>2. EncodeField(v, enc) = EncodeScalar(v) /\ SeenField(v, seen) = SeenScalar(v)
    BY <2>1 DEF EncodeField, SeenField, ScalarKinds, ListKinds
  <2>3. CASE v \in Strings
    <3>1. SeenScalar(v) = v
        BY <2>3 DEF SeenScalar, Strings, Scalars
    <3>. QED
        BY <2>2, <2>3, <3>1, StringTrip DEF FieldTrips, JsonFields
  <2>4. CASE v \in Ints
    BY <2>2, <2>4, IntTrip DEF FieldTrips, JsonFields
  <2>5. CASE v \in Singles \cup Floats
    BY <2>2, <2>5, FloatTrip DEF FieldTrips, JsonFields, J
  <2>6. CASE v \in SpanTimes
    BY <1>0, <2>2, <2>6, TimeTrip DEF FieldTrips, JsonFields, J
  <2>7. CASE v \in Scalars("bytes", Texts)
    <3>1. SeenScalar(v) = v
        BY <2>7 DEF SeenScalar, Scalars
    <3>. QED
        BY <2>2, <2>7, <3>1, BytesTrip DEF FieldTrips, JsonFields, J
  <2>. QED
    BY <1>1, <2>3, <2>4, <2>5, <2>6, <2>7
<1>2. CASE v \in Lists("strings", Strings)
  <2>1. PICK l \in Seq(Strings) : v = List("strings", l)
    BY <1>2 DEF Lists, List
  <2>2. \A i \in DOMAIN l : l[i] \in Strings
    BY <2>1
  <2>3. \A i \in DOMAIN l :
            ElementTrips("strings", l[i], dec, J) /\ EncodeScalar(l[i]).k = "str"
    BY <2>2, StringTrip DEF ElementTrips, JsonElements, SeenScalar, Strings, Scalars
  <2>4. l # <<>> => ListKind(<<EncodeScalar(l[1])>>) = "strings"
    BY <2>1, <2>3 DEF ListKind
  <2>5. "strings" \in ListKinds \ {"messages"} /\ SeenKind("strings") = "strings"
    BY DEF ListKinds, SeenKind
  <2>6. FieldTrips(List("strings", l), enc, dec, seen, J)
    BY <2>3, <2>4, <2>5, ScalarsTrip
  <2>. QED
    BY <2>1, <2>6 DEF J
<1>3. CASE v \in Lists("ints", Ints)
  <2>1. PICK l \in Seq(Ints) : v = List("ints", l)
    BY <1>3 DEF Lists, List
  <2>2. \A i \in DOMAIN l : l[i] \in Ints
    BY <2>1
  <2>3. \A i \in DOMAIN l :
            ElementTrips("ints", l[i], dec, J) /\ EncodeScalar(l[i]).k = "num"
    BY <2>2, IntTrip DEF ElementTrips, JsonElements
  <2>4. l # <<>> => ListKind(<<EncodeScalar(l[1])>>) = "ints"
    BY <2>1, <2>3 DEF ListKind
  <2>5. "ints" \in ListKinds \ {"messages"} /\ SeenKind("ints") = "ints"
    BY DEF ListKinds, SeenKind
  <2>6. FieldTrips(List("ints", l), enc, dec, seen, J)
    BY <2>3, <2>4, <2>5, ScalarsTrip
  <2>. QED
    BY <2>1, <2>6 DEF J
<1>4. ASSUME NEW kind \in ListKinds \ {"messages"}, NEW l \in Seq(Singles \cup Floats \cup {Absent}),
             l # <<>> => l[1] # Absent, SeenKind(kind) = "floats"
      PROVE  FieldTrips(List(kind, l), enc, dec, seen, J)
  <2>1. \A i \in DOMAIN l : l[i] \in Singles \cup Floats \/ l[i] = Absent
    OBVIOUS
  <2>2. ASSUME NEW i \in DOMAIN l PROVE ElementTrips("floats", l[i], dec, J)
    <3>1. CASE l[i] = Absent
        BY <3>1 DEF ElementTrips, JsonElements, EncodeScalar, DecodeElement, SeenScalar, IsObject,
                    Absent, Scalar
    <3>2. CASE l[i] \in Singles \cup Floats
        BY <3>2, FloatTrip DEF ElementTrips, JsonElements, J
    <3>. QED
        BY <2>1, <3>1, <3>2
  <2>3. l # <<>> => ListKind(<<EncodeScalar(l[1])>>) = "floats"
    <3>1. l # <<>> => l[1] \in Singles \cup Floats
        BY <1>4, <2>1
    <3>. QED
        BY <3>1, FloatTrip
  <2>. QED
    BY <1>4, <2>2, <2>3, ScalarsTrip
<1>5. CASE v \in Lists("float32s", Singles) \cup GapLists("floats", Floats)
  <2>1. CASE v \in Lists("float32s", Singles)
    <3>1. PICK l \in Seq(Singles) : v = List("float32s", l)
        BY <2>1 DEF Lists, List
    <3>2. l # <<>> => l[1] \in Singles
        OBVIOUS
    <3>3. l # <<>> => l[1] # Absent
        BY <3>2 DEF Singles, Scalars, Absent, Scalar
    <3>4. l \in Seq(Singles \cup Floats \cup {Absent})
        OBVIOUS
    <3>. QED
        BY <1>4, <3>1, <3>3, <3>4 DEF ListKinds, SeenKind, J
  <2>2. CASE v \in GapLists("floats", Floats)
    <3>1. PICK l \in Seq(Floats \cup {Absent}) :
            v = List("floats", l) /\ (l # <<>> => l[1] # Absent)
        BY <2>2 DEF GapLists, Lists, List
    <3>2. l \in Seq(Singles \cup Floats \cup {Absent})
        OBVIOUS
    <3>. QED
        BY <1>4, <3>1, <3>2 DEF ListKinds, SeenKind, J
  <2>. QED
    BY <1>5, <2>1, <2>2
<1>6. CASE v \in GapLists("times", SpanTimes)
  <2>1. PICK l \in Seq(SpanTimes \cup {Absent}) :
            v = List("times", l) /\ (l # <<>> => l[1] # Absent)
    BY <1>6 DEF GapLists, Lists, List
  <2>2. \A i \in DOMAIN l : l[i] \in SpanTimes \cup {Absent}
    BY <2>1
  <2>3. \A i \in DOMAIN l : ElementTrips("times", l[i], dec, J)
    <3>. TAKE i \in DOMAIN l
    <3>1. CASE l[i] = Absent
        BY <3>1 DEF ElementTrips, JsonElements, EncodeScalar, DecodeElement, SeenScalar, IsObject,
                    Absent, Scalar
    <3>2. CASE l[i] \in SpanTimes
        BY <1>0, <3>2, TimeTrip DEF ElementTrips, JsonElements, J
    <3>. QED
        BY <2>2, <3>1, <3>2
  <2>4. l # <<>> => ListKind(<<EncodeScalar(l[1])>>) = "times"
    <3>1. l # <<>> => l[1] \in Times
        BY <1>0, <2>1, <2>2
    <3>. QED
        BY <3>1, TimeTrip
  <2>5. "times" \in ListKinds \ {"messages"} /\ SeenKind("times") = "times"
    BY DEF ListKinds, SeenKind
  <2>6. FieldTrips(List("times", l), enc, dec, seen, J)
    BY <2>3, <2>4, <2>5, ScalarsTrip
  <2>. QED
    BY <2>1, <2>6 DEF J
<1>7. CASE v = NilList
  <2>1. EncodeField(v, enc) = Null /\ SeenField(v, seen) = Null
    BY <1>7 DEF EncodeField, SeenField, NilList, Scalar, ListKinds
  <2>2. DecodeField(Null, dec) = Null /\ Null \in JsonLeaves
    BY DEF DecodeField, JsonLeaves, Null, Scalar
  <2>. QED
    BY <2>1, <2>2 DEF FieldTrips, JsonFields
<1>. QED
    BY <1>1, <1>2, <1>3, <1>5, <1>6, <1>7 DEF SimpleValues, J

\* A value without messages is written as JSON, whatever its times.
LEMMA SimpleType ==
    ASSUME NEW v \in SimpleValues(Times), NEW enc, NEW d \in Nat
    PROVE  EncodeField(v, enc) \in JsonFields(Json[d + 1])
<1>. DEFINE J == Json[d + 1]
<1>1. CASE v \in Times
  <2>1. v.k = "time"
    BY <1>1 DEF Times, Scalars
  <2>2. EncodeField(v, enc) = EncodeScalar(v)
    BY <2>1 DEF EncodeField, NilList, Scalar, ListKinds
  <2>. QED
    BY <1>1, <2>2, TimeTrip DEF JsonFields
<1>2. CASE v \in GapLists("times", Times)
  <2>1. PICK l \in Seq(Times \cup {Absent}) : v = List("times", l)
    BY <1>2 DEF GapLists, Lists, List
  <2>. DEFINE a == [i \in DOMAIN l |-> EncodeScalar(l[i])]
  <2>2. v.k = "times" /\ v.l = l /\ v # NilList
    BY <2>1 DEF List, NilList, Scalar
  <2>3. EncodeField(v, enc) = List("arr", a)
    BY <2>2 DEF EncodeField, ListKinds
  <2>4. EncodeScalar(Absent) = Absent
    BY DEF EncodeScalar, Absent, Scalar
  <2>5. \A i \in DOMAIN l : l[i] \in Times \/ l[i] = Absent
    BY <2>1
  <2>6. \A i \in DOMAIN l : EncodeScalar(l[i]) \in JsonElements(J)
    BY <2>4, <2>5, TimeTrip DEF JsonElements
  <2>7. a \in Seq(JsonElements(J))
    <3>1. /\ DOMAIN a = DOMAIN l /\ a = [i \in DOMAIN l |-> a[i]]
          /\ \A i \in DOMAIN l : a[i] \in JsonElements(J)
        BY <2>6
    <3>. HIDE DEF a
    <3>. QED
        BY <3>1, MapSeq
  <2>. QED
    BY <2>3, <2>7 DEF JsonFields, Lists, List
<1>3. CASE v \in SimpleValues(SpanTimes)
    BY <1>3, SimpleTrip DEF FieldTrips
<1>. QED
    BY <1>1, <1>2, <1>3 DEF SimpleValues

-----------------------------------------------------------------------------
(* Messages. *)

\* What decode looks at to tell a nested message w from an encoded value is
\* what LooksTagged looks at in the message m it encodes.
SameTags(m, w) ==
    /\ w.f["_o_"].k = "str" <=> m.f["_o_"].k = "string"
    /\ w.f["_d_"].k = "num" <=> m.f["_d_"].k = "int"
    /\ w.f["_d_"].k = "str" <=> m.f["_d_"].k = "string"
    /\ w.f["_m_"].k = "num" <=> m.f["_m_"].k = "int"

\* The messages of C, of one depth, are written and read as they should be.
MessagesTrip(C, enc, dec, seen, J) ==
    \A m \in C :
        /\ m.k = "message"
        /\ enc[m] \in J /\ enc[m].k = "obj"
        /\ dec[enc[m]] = seen[m]
        /\ SameTags(m, enc[m])

LEMMA MessageFieldTrip ==
    ASSUME NEW C, NEW enc, NEW dec, NEW seen, NEW J,
           MessagesTrip(C, enc, dec, seen, J),
           NEW m \in C, ~LooksTagged(m)
    PROVE  FieldTrips(m, enc, dec, seen, J)
<1>. DEFINE w == enc[m]
<1>1. /\ m.k = "message"
      /\ w \in J /\ w.k = "obj"
      /\ dec[w] = seen[m]
      /\ SameTags(m, w)
    BY DEF MessagesTrip
<1>2. EncodeField(m, enc) = w /\ SeenField(m, seen) = seen[m]
    BY <1>1 DEF EncodeField, SeenField, NilList, Scalar, ListKinds
<1>. HIDE DEF w
<1>3. DecodeObject(w, dec) = dec[w]
    BY <1>1 DEF DecodeObject, Has, SameTags, LooksTagged, HeadLooksTagged
<1>4. DecodeField(w, dec) = dec[w]
    BY <1>1, <1>3 DEF DecodeField
<1>. QED
    BY <1>1, <1>2, <1>4 DEF FieldTrips, JsonFields

LEMMA MessageListTrip ==
    ASSUME NEW C, NEW enc, NEW dec, NEW seen, NEW J,
           MessagesTrip(C, enc, dec, seen, J),
           NEW v \in ClearLists(C)
    PROVE  FieldTrips(v, enc, dec, seen, J)
<1>1. PICK l \in Seq(C \cup {Absent}) :
        /\ v = List("messages", l)
        /\ l # <<>> => l[1] # Absent /\ ~HeadLooksTagged(l[1])
    BY DEF ClearLists, GapLists, Lists, List
<1>. DEFINE a == [i \in DOMAIN l |-> IF l[i] = Absent THEN Absent ELSE enc[l[i]]]
            b == [i \in DOMAIN l |-> IF l[i] = Absent THEN Absent ELSE seen[l[i]]]
<1>2. v.k = "messages" /\ v.l = l /\ v # NilList
    BY <1>1 DEF List, NilList, Scalar
<1>3. EncodeField(v, enc) = List("arr", a)
    BY <1>2 DEF EncodeField, ListKinds
<1>4. /\ DOMAIN a = DOMAIN l /\ a = [i \in DOMAIN l |-> a[i]]
      /\ DOMAIN b = DOMAIN l /\ b = [i \in DOMAIN l |-> b[i]]
      /\ \A i \in DOMAIN l : /\ l[i] = Absent => a[i] = Absent /\ b[i] = Absent
                             /\ l[i] # Absent => a[i] = enc[l[i]] /\ b[i] = seen[l[i]]
    OBVIOUS
<1>5. SeenField(v, seen) = IF l = <<>> THEN Absent ELSE List("messages", b)
    BY <1>2 DEF SeenField, ListKinds
<1>. HIDE DEF a, b
<1>6. \A i \in DOMAIN l : l[i] = Absent \/ l[i] \in C
    OBVIOUS
<1>7. \A i \in DOMAIN l :
        a[i] \in JsonElements(J) /\ DecodeElement("messages", a[i], dec) = b[i]
  <2>. TAKE i \in DOMAIN l
  <2>1. CASE l[i] = Absent
    BY <1>4, <2>1 DEF JsonElements, DecodeElement, IsObject, Absent, Scalar
  <2>2. CASE l[i] # Absent
    <3>1. a[i] \in J /\ a[i].k = "obj" /\ dec[a[i]] = b[i]
        BY <1>4, <1>6, <2>2 DEF MessagesTrip
    <3>. QED
        BY <3>1 DEF JsonElements, DecodeElement, IsObject
  <2>. QED
    BY <2>1, <2>2
<1>8. a \in Seq(JsonElements(J)) /\ (l = <<>> <=> a = <<>>)
    BY <1>4, <1>7, MapSeq
<1>9. b \in Seq({b[i] : i \in DOMAIN l})
  <2>. DEFINE T == {b[i] : i \in DOMAIN l}
  <2>1. \A i \in DOMAIN l : b[i] \in T
    OBVIOUS
  <2>. HIDE DEF T
  <2>2. b \in Seq(T)
    BY <1>4, <2>1, MapSeq
  <2>. QED
    BY <2>2 DEF T
<1>10. List("arr", a) \in JsonFields(J)
    BY <1>8 DEF JsonFields, Lists, List
<1>11. CASE l = <<>>
  <2>1. a = <<>>
    BY <1>8, <1>11
  <2>2. DecodeField(List("arr", a), dec) = Absent
    BY <2>1, DropList
  <2>. QED
    BY <1>3, <1>5, <1>10, <1>11, <2>2 DEF FieldTrips
<1>12. CASE l # <<>>
  <2>1. 1 \in DOMAIN l
    BY <1>12
  <2>2. /\ l[1] \in C /\ ~HeadLooksTagged(l[1])
        /\ a[1] = enc[l[1]]
    BY <1>1, <1>4, <1>6, <1>12, <2>1
  <2>3. a[1].k = "obj" /\ SameTags(l[1], a[1])
    BY <2>2 DEF MessagesTrip
  <2>4. ListKind(<<a[1]>>) = "messages"
    BY <2>2, <2>3 DEF ListKind, Has, IsObject, SameTags, HeadLooksTagged
  <2>5. DecodeField(List("arr", a), dec) = List("messages", b)
    BY <1>4, <1>7, <1>8, <1>9, <1>12, <2>4, DecodeList
  <2>. QED
    BY <1>3, <1>5, <1>10, <1>12, <2>5 DEF FieldTrips
<1>. QED
    BY <1>11, <1>12

\* The kinds of the fields decode looks at.
LEMMA FieldKinds ==
    ASSUME NEW C, NEW enc, NEW dec, NEW seen, NEW J,
           MessagesTrip(C, enc, dec, seen, J),
           NEW v \in SimpleValues(Times) \cup C \cup GapLists("messages", C) \cup {Absent}
    PROVE  /\ EncodeField(v, enc).k = "str" <=> v.k = "string"
           /\ EncodeField(v, enc).k = "num" <=> v.k = "int"
<1>1. CASE v \in C
  <2>1. v.k = "message" /\ enc[v].k = "obj"
    BY <1>1 DEF MessagesTrip
  <2>2. EncodeField(v, enc) = enc[v]
    BY <2>1 DEF EncodeField, NilList, Scalar, ListKinds
  <2>. QED
    BY <2>1, <2>2
<1>2. CASE v \in Strings \cup Ints \cup Singles \cup Floats \cup Times
                    \cup Scalars("bytes", Texts) \cup {Absent}
  <2>1. v.k \in ScalarKinds \cup {"absent"}
    BY <1>2 DEF Strings, Ints, Singles, Floats, Times, Scalars, ScalarKinds, Absent, Scalar
  <2>2. EncodeField(v, enc) = EncodeScalar(v)
    BY <2>1 DEF EncodeField, ScalarKinds, ListKinds, NilList, Scalar
  <2>3. v.k = "string" => EncodeScalar(v).k = "str"
    BY DEF EncodeScalar, Scalar
  <2>4. v.k = "int" => EncodeScalar(v).k = "num"
    BY DEF EncodeScalar, Scalar
  <2>5. v.k \in {"bytes", "float32", "float", "time"} => EncodeScalar(v).k = "obj"
    BY DEF EncodeScalar, Tagged, Struct
  <2>6. v.k = "absent" => EncodeScalar(v) = v
    BY DEF EncodeScalar
  <2>. QED
    BY <2>1, <2>2, <2>3, <2>4, <2>5, <2>6 DEF ScalarKinds
<1>3. CASE \E k \in ListKinds : \E S : v \in Lists(k, S)
  <2>1. v.k \in ListKinds /\ v # NilList
    BY <1>3 DEF Lists, NilList, Scalar, ListKinds
  <2>2. EncodeField(v, enc).k = "arr"
    BY <2>1 DEF EncodeField, ListKinds, List
  <2>. QED
    BY <2>1, <2>2 DEF ListKinds
<1>4. CASE v = NilList
    BY <1>4 DEF EncodeField, NilList, Null, Scalar, ListKinds
<1>. QED
  <2>1. \A k, S : GapLists(k, S) \subseteq Lists(k, S \cup {Absent})
    BY DEF GapLists
  <2>. QED
    BY <1>1, <1>2, <1>3, <1>4, <2>1 DEF SimpleValues, ListKinds

\* A message whose nested messages are read as they should be is itself.
LEMMA MessageTrip ==
    ASSUME NEW C, NEW enc, NEW dec, NEW seen, NEW d \in Nat,
           MessagesTrip(C, enc, dec, seen, Json[d + 1]),
           NEW m \in ClearOver(C)
    PROVE  /\ EncodeMessage(m, enc) \in JsonOver(Json[d + 1])
           /\ DecodeMessage(EncodeMessage(m, enc), dec) = SeenMessage(m, seen)
           /\ SameTags(m, EncodeMessage(m, enc))
<1>. DEFINE w == EncodeMessage(m, enc)
            J == Json[d + 1]
<1>1. /\ m.k = "message"
      /\ \A x \in Names :
            m.f[x] \in SimpleValues(SpanTimes) \cup {c \in C : ~LooksTagged(c)}
                        \cup ClearLists(C) \cup {Absent}
    BY DEF ClearOver, Structs
<1>2. w = Struct("obj", w.f) /\ w.f = [x \in Names |-> EncodeField(m.f[x], enc)]
    BY DEF EncodeMessage, Struct
<1>3. ASSUME NEW x \in Names
      PROVE  /\ EncodeField(m.f[x], enc) \in JsonFields(J) \cup {Absent}
             /\ DecodeField(EncodeField(m.f[x], enc), dec) = SeenField(m.f[x], seen)
  <2>1. CASE m.f[x] \in SimpleValues(SpanTimes)
    BY <2>1, SimpleTrip DEF FieldTrips
  <2>2. CASE m.f[x] \in {c \in C : ~LooksTagged(c)}
    BY <2>2, MessageFieldTrip DEF FieldTrips
  <2>3. CASE m.f[x] \in ClearLists(C)
    BY <2>3, MessageListTrip DEF FieldTrips
  <2>4. CASE m.f[x] = Absent
    <3>1. EncodeField(Absent, enc) = Absent
        BY DEF EncodeField, EncodeScalar, Absent, NilList, Scalar, ListKinds
    <3>2. DecodeField(Absent, dec) = Absent
        BY DEF DecodeField, Absent, Scalar
    <3>3. SeenField(Absent, seen) = Absent
        BY DEF SeenField, SeenScalar, Absent, NilList, Scalar, ListKinds
    <3>. QED
        BY <2>4, <3>1, <3>2, <3>3
  <2>. QED
    BY <1>1, <2>1, <2>2, <2>3, <2>4
<1>4. w.f \in [Names -> JsonFields(J) \cup {Absent}]
    BY <1>2, <1>3
<1>5. w \in JsonOver(J)
    BY <1>2, <1>4 DEF JsonOver, Structs, Struct, JsonFields
<1>6. DecodeMessage(w, dec) = SeenMessage(m, seen)
  <2>1. \A x \in Names : DecodeField(w.f[x], dec) = SeenField(m.f[x], seen)
    BY <1>2, <1>3
  <2>2. [x \in Names |-> DecodeField(w.f[x], dec)] = [x \in Names |-> SeenField(m.f[x], seen)]
    BY <2>1
  <2>. QED
    BY <2>2 DEF DecodeMessage, SeenMessage
<1>7. SameTags(m, w)
  <2>1. \A x \in Names :
            m.f[x] \in SimpleValues(Times) \cup C \cup GapLists("messages", C) \cup {Absent}
    BY <1>1, SpanSimple DEF ClearLists
  <2>2. \A x \in Names : /\ w.f[x].k = "str" <=> m.f[x].k = "string"
                         /\ w.f[x].k = "num" <=> m.f[x].k = "int"
    BY <1>2, <2>1, FieldKinds
  <2>. QED
    BY <2>2, CodecAssumption DEF SameTags, Reserved
<1>. QED
    BY <1>5, <1>6, <1>7

LEMMA ClearEncodable ==
    ASSUME NEW d \in Nat
    PROVE  Clear[d] \subseteq Encodable[d]
<1>. DEFINE T == {n \in Nat : Clear[n] \subseteq Encodable[n]}
<1>1. 0 \in T
    BY ClearDef
<1>2. ASSUME NEW n \in T \cap Nat PROVE n + 1 \in T
  <2>1. GapLists("messages", Clear[n]) \subseteq GapLists("messages", Encodable[n])
    BY DEF GapLists, Lists
  <2>2. ClearLists(Clear[n]) \subseteq GapLists("messages", Encodable[n])
    BY <2>1 DEF ClearLists
  <2>3. ClearOver(Clear[n]) \subseteq EncodableOver(Encodable[n])
    BY <2>2, SpanSimple DEF ClearOver, EncodableOver, Structs
  <2>. QED
    BY <2>3, ClearDef, EncodableDef
<1>3. Nat \subseteq T
    BY <1>1, <1>2, ClearLevels!SetInduction
<1>. QED
    BY <1>3

\* What encode and decode do to the messages of depth d.
LEMMA LevelTrip ==
    ASSUME NEW d \in Nat
    PROVE  MessagesTrip(Clear[d], Encode[d], Decode[d + 1], Seen[d], Json[d + 1])
<1>. DEFINE Trip(n) == MessagesTrip(Clear[n], Encode[n], Decode[n + 1], Seen[n], Json[n + 1])
            T == {n \in Nat : Trip(n)}
<1>1. 0 \in T
    BY ClearDef DEF MessagesTrip
<1>2. ASSUME NEW n \in T \cap Nat PROVE n + 1 \in T
  <2>. DEFINE C == Clear[n]
              enc == Encode[n]
              dec == Decode[n + 1]
              seen == Seen[n]
  <2>1. n \in Nat /\ n + 1 \in Nat
    OBVIOUS
  <2>2. MessagesTrip(C, enc, dec, seen, Json[n + 1])
    OBVIOUS
  <2>3. /\ Clear[n + 1] = ClearOver(C)
        /\ Encode[n + 1] = [m \in Encodable[n + 1] |-> EncodeMessage(m, enc)]
        /\ Decode[(n + 1) + 1] = [w \in Json[(n + 1) + 1] |-> DecodeMessage(w, dec)]
        /\ Seen[n + 1] = [m \in Encodable[n + 1] |-> SeenMessage(m, seen)]
        /\ Json[(n + 1) + 1] = JsonOver(Json[n + 1])
    BY <2>1, ClearDef, EncodeDef, DecodeDef, SeenDef, JsonDef
  <2>4. Clear[n + 1] \subseteq Encodable[n + 1]
    BY <2>1, ClearEncodable
  <2>5. ASSUME NEW m \in Clear[n + 1]
        PROVE  /\ m.k = "message"
               /\ Encode[n + 1][m] \in Json[(n + 1) + 1]
               /\ Encode[n + 1][m].k = "obj"
               /\ Decode[(n + 1) + 1][Encode[n + 1][m]] = Seen[n + 1][m]
               /\ SameTags(m, Encode[n + 1][m])
    <3>1. /\ EncodeMessage(m, enc) \in JsonOver(Json[n + 1])
          /\ DecodeMessage(EncodeMessage(m, enc), dec) = SeenMessage(m, seen)
          /\ SameTags(m, EncodeMessage(m, enc))
        BY <2>1, <2>2, <2>3, MessageTrip
    <3>2. Encode[n + 1][m] = EncodeMessage(m, enc) /\ Seen[n + 1][m] = SeenMessage(m, seen)
        BY <2>3, <2>4
    <3>3. Decode[(n + 1) + 1][EncodeMessage(m, enc)] = DecodeMessage(EncodeMessage(m, enc), dec)
        BY <2>3, <3>1
    <3>4. m.k = "message" /\ EncodeMessage(m, enc).k = "obj"
        BY <2>3 DEF ClearOver, Structs, EncodeMessage, Struct
    <3>. QED
        BY <2>3, <3>1, <3>2, <3>3, <3>4
  <2>6. Trip(n + 1)
    BY <2>5 DEF MessagesTrip
  <2>. QED
    BY <2>1, <2>6
<1>3. Nat \subseteq T
    BY <1>1, <1>2, ClearLevels!SetInduction
<1>. QED
    BY <1>3

\* What is encoded is a message, and what is decoded an object.
LEMMA EncodableKind ==
    ASSUME NEW d \in Nat, NEW m \in Encodable[d]
    PROVE  m.k = "message" /\ d # 0 /\ m \in EncodableOver(Encodable[d - 1])
<1>1. d # 0
    BY EncodableDef
<1>2. d - 1 \in Nat /\ (d - 1) + 1 = d
    BY <1>1
<1>3. m \in EncodableOver(Encodable[d - 1])
    BY <1>2, EncodableDef
<1>. QED
    BY <1>1, <1>3 DEF EncodableOver, Structs

LEMMA JsonKind ==
    ASSUME NEW d \in Nat, NEW w \in Json[d]
    PROVE  /\ w.k = "obj" /\ d # 0 /\ w \in JsonOver(Json[d - 1])
           /\ Decode[d][w] = DecodeMessage(w, Decode[d - 1])
           /\ \A x \in Names : w.f[x].k = "num" => w.f[x].n \in Numbers
<1>1. d # 0
    BY JsonDef
<1>2. d - 1 \in Nat /\ (d - 1) + 1 = d
    BY <1>1
<1>3. w \in JsonOver(Json[d - 1]) /\ Decode[d][w] = DecodeMessage(w, Decode[d - 1])
  <2>1. Json[d] = JsonOver(Json[d - 1])
    BY <1>2, JsonDef
  <2>2. Decode[d] = [v \in Json[d] |-> DecodeMessage(v, Decode[d - 1])]
    BY <1>2, DecodeDef
  <2>. QED
    BY <2>1, <2>2
<1>4. ASSUME NEW n \in Nat, NEW u \in Json[n] PROVE u.k = "obj"
  <2>1. n # 0
    BY <1>4, JsonDef
  <2>2. n - 1 \in Nat /\ (n - 1) + 1 = n
    BY <2>1
  <2>3. u \in JsonOver(Json[n - 1])
    BY <2>2, JsonDef
  <2>. QED
    BY <2>3 DEF JsonOver, Structs
<1>5. ASSUME NEW x \in Names, w.f[x].k = "num" PROVE w.f[x].n \in Numbers
  <2>1. w.f[x] \in JsonFields(Json[d - 1]) \cup {Absent}
    BY <1>3 DEF JsonOver, Structs, JsonFields
  <2>2. w.f[x] \notin Json[d - 1]
    BY <1>2, <1>4, <1>5
  <2>. QED
    BY <1>5, <2>1, <2>2 DEF JsonFields, JsonLeaves, Scalars, Lists, Null, Absent, Scalar
<1>. QED
    BY <1>1, <1>3, <1>4, <1>5

-----------------------------------------------------------------------------
(* Whatever is encoded is JSON, and a decoded message keeps the tags. *)

\* What the encoding of a message is made of is JSON.
LEMMA EncodeType ==
    ASSUME NEW d \in Nat
    PROVE  \A m \in Encodable[d] : Encode[d][m] \in Json[d + 1]
<1>. DEFINE T == {n \in Nat : \A m \in Encodable[n] : Encode[n][m] \in Json[n + 1]}
<1>1. 0 \in T
    BY EncodableDef
<1>2. ASSUME NEW n \in T \cap Nat PROVE n + 1 \in T
  <2>. DEFINE E == Encodable[n]
              enc == Encode[n]
              J == Json[n + 1]
  <2>1. n \in Nat /\ n + 1 \in Nat /\ \A m \in E : enc[m] \in J
    OBVIOUS
  <2>2. /\ Encodable[n + 1] = EncodableOver(E)
        /\ Encode[n + 1] = [m \in Encodable[n + 1] |-> EncodeMessage(m, enc)]
        /\ Json[(n + 1) + 1] = JsonOver(J)
    BY <2>1, EncodableDef, EncodeDef, JsonDef
  <2>3. ASSUME NEW m \in E PROVE m.k = "message"
    BY EncodableKind
  <2>4. ASSUME NEW v \in SimpleValues(Times) \cup E \cup GapLists("messages", E) \cup {Absent}
        PROVE  EncodeField(v, enc) \in JsonFields(J) \cup {Absent}
    <3>1. CASE v \in SimpleValues(Times)
        BY <2>1, <3>1, SimpleType
    <3>2. CASE v \in E
        BY <2>1, <2>3, <3>2 DEF EncodeField, NilList, Scalar, ListKinds, JsonFields
    <3>3. CASE v \in GapLists("messages", E)
      <4>1. PICK l \in Seq(E \cup {Absent}) : v = List("messages", l)
        BY <3>3 DEF GapLists, Lists, List
      <4>. DEFINE a == [i \in DOMAIN l |-> IF l[i] = Absent THEN Absent ELSE enc[l[i]]]
      <4>2. v.k = "messages" /\ v.l = l /\ v # NilList
        BY <4>1 DEF List, NilList, Scalar
      <4>3. EncodeField(v, enc) = List("arr", a)
        BY <4>2 DEF EncodeField, ListKinds
      <4>4. /\ DOMAIN a = DOMAIN l /\ a = [i \in DOMAIN l |-> a[i]]
            /\ \A i \in DOMAIN l : a[i] \in JsonElements(J)
        BY <2>1 DEF JsonElements
      <4>. HIDE DEF a
      <4>5. a \in Seq(JsonElements(J))
        BY <4>4, MapSeq
      <4>. QED
        BY <4>3, <4>5 DEF JsonFields, Lists, List
    <3>4. CASE v = Absent
        BY <3>4 DEF EncodeField, EncodeScalar, Absent, NilList, Scalar, ListKinds
    <3>. QED
        BY <3>1, <3>2, <3>3, <3>4
  <2>5. ASSUME NEW m \in EncodableOver(E) PROVE EncodeMessage(m, enc) \in JsonOver(J)
    <3>1. \A x \in Names :
            m.f[x] \in SimpleValues(Times) \cup E \cup GapLists("messages", E) \cup {Absent}
        BY DEF EncodableOver, Structs
    <3>2. \A x \in Names : EncodeField(m.f[x], enc) \in JsonFields(J) \cup {Absent}
        BY <2>4, <3>1
    <3>. QED
        BY <3>2 DEF EncodeMessage, JsonOver, Structs, Struct, JsonFields
  <2>6. \A m \in Encodable[n + 1] : Encode[n + 1][m] \in Json[(n + 1) + 1]
    BY <2>2, <2>5
  <2>. QED
    BY <2>1, <2>6
<1>3. Nat \subseteq T
    BY <1>1, <1>2, EncodeLevels!SetInduction
<1>. QED
    BY <1>3

-----------------------------------------------------------------------------
(* What was decoded and can be encoded is seen as it is. *)

\* The values a message can be encoded with, if its times are of T and its
\* messages of E.
FieldsOf(T, E) == SimpleValues(T) \cup E \cup GapLists("messages", E) \cup {Absent}
EncodableFields(E) == FieldsOf(Times, E)

\* A field that is among those of clear messages, and in which only the times
\* are seen otherwise than they are.
FieldStays(v, seen, cut, C) ==
    /\ v \in SimpleValues(SpanTimes) \cup {m \in C : ~LooksTagged(m)} \cup ClearLists(C)
                \cup {Absent}
    /\ SeenField(v, seen) = CutField(v, cut)

\* The kind of a value tells where it is from.
LEMMA KindOf ==
    ASSUME NEW T, T \subseteq Times,
           NEW E, \A m \in E : m.k = "message", NEW v \in FieldsOf(T, E)
    PROVE  /\ v.k \in ScalarKinds \cup ListKinds \cup {"message", "nilList", "absent"}
           /\ v.k = "int" => v \in Ints
           /\ v.k = "time" => v \in T
           /\ v.k = "times" => v \in GapLists("times", T)
           /\ v.k = "messages" => v \in GapLists("messages", E)
           /\ v.k = "message" => v \in E
           /\ v.k \notin {"message", "messages", "absent"} => v \in SimpleValues(T)
           /\ v.k \notin {"time", "times", "message", "messages", "absent"} =>
                    v \in SimpleValues({})
<1>1. CASE v \in Strings \cup Ints \cup Singles \cup Floats \cup Scalars("bytes", Texts)
    BY <1>1 DEF Strings, Ints, Singles, Floats, Scalars, ScalarKinds, ListKinds, SimpleValues
<1>2. CASE v \in T
  <2>1. v.k = "time"
    BY <1>2 DEF Times, Scalars
  <2>. QED
    BY <1>2, <2>1 DEF ScalarKinds, ListKinds, SimpleValues
<1>3. CASE v \in Lists("strings", Strings) \cup Lists("ints", Ints) \cup Lists("float32s", Singles)
    BY <1>3 DEF Lists, ScalarKinds, ListKinds, SimpleValues
<1>4. CASE v \in GapLists("floats", Floats) \cup GapLists("times", T)
                    \cup GapLists("messages", E)
    BY <1>4 DEF GapLists, Lists, ScalarKinds, ListKinds, SimpleValues
<1>5. CASE v \in {NilList, Absent}
    BY <1>5 DEF NilList, Absent, Scalar, ScalarKinds, ListKinds, SimpleValues
<1>6. CASE v \in E
    BY <1>6 DEF ScalarKinds, ListKinds
<1>. QED
    BY <1>1, <1>2, <1>3, <1>4, <1>5, <1>6 DEF FieldsOf, SimpleValues

\* The values without times are the same whatever the times.
LEMMA SimpleMonotone ==
    ASSUME NEW T
    PROVE  SimpleValues({}) \subseteq SimpleValues(T)
<1>1. GapLists("times", {}) \subseteq GapLists("times", T)
    BY DEF GapLists, Lists
<1>. QED
    BY <1>1 DEF SimpleValues

\* The objects of J are decoded to messages with the same tags, and those
\* messages that are of E are of C, and seen as they are but for their times.
DecodedStay(E, C, dec, seen, cut, J) ==
    \A w \in J :
        /\ w.k = "obj"
        /\ \A x \in Names : w.f[x].k = "num" => w.f[x].n \in Numbers
        /\ dec[w].k = "message"
        /\ SameTags(dec[w], w)
        /\ dec[w] \in E => dec[w] \in C /\ seen[dec[w]] = cut[dec[w]]

\* The time that is decoded from an object can be counted, whatever its number.
LEMMA TimeNumber ==
    ASSUME NEW w, w.f["_m_"].k = "num" => w.f["_m_"].n \in Numbers
    PROVE  TimeOf(w) \in Nanos
<1>1. NumberOf(w, "_m_") \in Numbers
    BY FloatExact, CodecAssumption DEF Has, NumberOf, Numbers, Top
<1>2. ToInt(NumberOf(w, "_m_")) \in Int
    <2>1. PICK x \in Int : x = NumberOf(w, "_m_")
        BY <1>1 DEF Numbers
    <2>2. ToInt(x) \in Int
        BY DEF ToInt, Trunc
    <2>. QED
        BY <2>1, <2>2
<1>3. ToInt(NumberOf(w, "_m_")) * NanosPerMilli \in Int
    BY <1>2, CodecAssumption
<1>. QED
    BY <1>3, WrapExact DEF TimeOf, FromMillis

LEMMA IntStays ==
    ASSUME NEW n \in Numbers, NEW v, v = Scalar("int", ToInt(ToFloat(n)))
    PROVE  SeenScalar(v) = v
<1>. DEFINE i == ToInt(ToFloat(n))
<1>1. i \in Int /\ ToFloat(Whole(i)) = Whole(i)
    BY IntExact
<1>. HIDE DEF i
<1>2. ToInt(Whole(i)) = i
    BY <1>1 DEF ToInt, Trunc, Whole
<1>3. SeenInt(i) = i
    BY <1>1, <1>2 DEF SeenInt
<1>. QED
    BY <1>3 DEF SeenScalar, Scalar, i

\* A list whose elements are seen as they are is seen as it is.
LEMMA ListStays ==
    ASSUME NEW kind \in ListKinds \ {"messages", "float32s"}, NEW S, NEW l \in Seq(S), l # <<>>,
           kind # "times",
           NEW seen, NEW cut, \A i \in DOMAIN l : SeenScalar(l[i]) = l[i]
    PROVE  SeenField(List(kind, l), seen) = CutField(List(kind, l), cut)
<1>. DEFINE v == List(kind, l)
<1>1. v.k = kind /\ v.l = l /\ v # NilList /\ SeenKind(kind) = kind
    BY DEF List, NilList, Scalar, ListKinds, SeenKind
<1>2. SeenField(v, seen) = List(kind, [i \in DOMAIN l |-> SeenScalar(l[i])])
    BY <1>1 DEF SeenField, ListKinds
<1>3. [i \in DOMAIN l |-> SeenScalar(l[i])] = l
    OBVIOUS
<1>4. CutField(v, cut) = v
    BY <1>1 DEF CutField, CutScalar, ListKinds
<1>. QED
    BY <1>2, <1>3, <1>4

\* An object in a field.
LEMMA ObjectStays ==
    ASSUME NEW E, \A m \in E : m.k = "message",
           NEW C, NEW dec, NEW seen, NEW cut, NEW J, DecodedStay(E, C, dec, seen, cut, J),
           NEW w \in J, NEW v, v = DecodeObject(w, dec), v \in EncodableFields(E)
    PROVE  FieldStays(v, seen, cut, C)
<1>0. /\ w.k = "obj"
      /\ w.f["_m_"].k = "num" => w.f["_m_"].n \in Numbers
      /\ dec[w].k = "message"
      /\ SameTags(dec[w], w)
      /\ dec[w] \in E => dec[w] \in C /\ seen[dec[w]] = cut[dec[w]]
    BY CodecAssumption DEF DecodedStay, Reserved
<1>1. CASE v.k \in {"bytes", "float"}
  <2>1. v \in SimpleValues({})
    BY <1>1, KindOf DEF EncodableFields
  <2>2. SeenField(v, seen) = v /\ CutField(v, cut) = v
    BY <1>1 DEF SeenField, SeenScalar, CutField, CutScalar, NilList, Scalar, ListKinds
  <2>. QED
    BY <2>1, <2>2, SimpleMonotone DEF FieldStays
<1>2. CASE v = Scalar("time", TimeOf(w))
  <2>1. v.k = "time"
    BY <1>2 DEF Scalar
  <2>2. v \in SpanTimes
    BY <1>0, <1>2, TimeNumber DEF SpanTimes, Scalars, Scalar
  <2>3. v \in SimpleValues(SpanTimes)
    BY <2>2 DEF SimpleValues
  <2>4. SeenField(v, seen) = SeenScalar(v) /\ CutField(v, cut) = CutScalar(v)
    BY <2>1 DEF SeenField, CutField, NilList, Scalar, ListKinds
  <2>5. SeenScalar(v) = CutScalar(v)
    BY <2>1 DEF SeenScalar, CutScalar
  <2>. QED
    BY <2>3, <2>4, <2>5 DEF FieldStays
<1>3. CASE /\ v = dec[w]
           /\ ~Has(w, "_o_", "str") /\ ~Has(w, "_d_", "num")
           /\ ~Has(w, "_d_", "str") /\ ~Has(w, "_m_", "num")
  <2>1. v \in E /\ v.k = "message"
    BY <1>0, <1>3, KindOf DEF EncodableFields
  <2>2. v \in C /\ seen[v] = cut[v]
    BY <1>0, <1>3, <2>1
  <2>4. ~LooksTagged(v)
    BY <1>0, <1>3 DEF Has, SameTags, LooksTagged, HeadLooksTagged
  <2>5. SeenField(v, seen) = seen[v] /\ CutField(v, cut) = cut[v]
    BY <2>1 DEF SeenField, CutField, NilList, Scalar, ListKinds
  <2>. QED
    BY <2>2, <2>4, <2>5 DEF FieldStays
<1>. QED
    BY <1>1, <1>2, <1>3 DEF DecodeObject, Scalar

\* A list in a field.
LEMMA ArrayStays ==
    ASSUME NEW E, \A m \in E : m.k = "message",
           NEW C, NEW dec, NEW seen, NEW cut, NEW J, DecodedStay(E, C, dec, seen, cut, J),
           NEW l \in Seq(JsonElements(J)), NEW kind, kind = ListKind(l), kind # "none",
           NEW b, b = [i \in DOMAIN l |-> DecodeElement(kind, l[i], dec)],
           NEW v, v = List(kind, b), v \in EncodableFields(E)
    PROVE  FieldStays(v, seen, cut, C)
<1>. DEFINE T == {b[i] : i \in DOMAIN l}
<1>1. /\ kind \in {"ints", "strings", "bytesList", "floats", "times", "messages"}
      /\ l # <<>> /\ 1 \in DOMAIN l
    BY DEF ListKind
<1>2. v.k = kind /\ v.l = b /\ v # NilList
    BY <1>1 DEF List, NilList, Scalar
<1>3. kind \in ListKinds \ {"float32s"}
    BY <1>1, <1>2, KindOf DEF ScalarKinds, ListKinds, EncodableFields
<1>4. DOMAIN b = DOMAIN l /\ \A i \in DOMAIN l : b[i] = DecodeElement(kind, l[i], dec)
    OBVIOUS
<1>5. b \in Seq(T) /\ b # <<>>
  <2>1. \A i \in DOMAIN l : b[i] \in T
    OBVIOUS
  <2>. HIDE DEF T
  <2>. QED
    BY <1>1, <1>4, <2>1, MapSeq
<1>6. \A i \in DOMAIN l : l[i] \in JsonElements(J)
    OBVIOUS
<1>. HIDE DEF T
<1>7. CASE kind \in {"strings", "ints", "floats"} /\ \A i \in DOMAIN l : SeenScalar(b[i]) = b[i]
  <2>1. v \in SimpleValues({})
    BY <1>2, <1>7, KindOf DEF EncodableFields
  <2>2. SeenField(v, seen) = CutField(v, cut)
    BY <1>3, <1>4, <1>5, <1>7, ListStays
  <2>. QED
    BY <2>1, <2>2, SimpleMonotone DEF FieldStays
<1>8. CASE kind = "strings"
    BY <1>4, <1>7, <1>8 DEF DecodeElement, SeenScalar, Scalar
<1>9. CASE kind = "ints"
  <2>1. 0 \in Numbers /\ ToInt(ToFloat(0)) = 0
    BY CodecAssumption DEF Numbers, Top, ToFloat, Ulp, RoundTo, ToInt, Trunc
  <2>2. ASSUME NEW i \in DOMAIN l PROVE SeenScalar(b[i]) = b[i]
    <3>1. b[i] = Scalar("int", IF l[i].k = "num" THEN ToInt(ToFloat(l[i].n)) ELSE 0)
        BY <1>4, <1>9 DEF DecodeElement
    <3>2. l[i].k = "num" => l[i].n \in Numbers
        BY <1>6 DEF JsonElements, JsonLeaves, Scalars, Null, InnerArray, Absent, Scalar,
                    DecodedStay
    <3>3. \E n \in Numbers : b[i] = Scalar("int", ToInt(ToFloat(n)))
        BY <2>1, <3>1, <3>2
    <3>. QED
        BY <3>3, IntStays
  <2>. QED
    BY <1>7, <1>9, <2>2
<1>10. CASE kind = "floats"
  <2>1. ASSUME NEW i \in DOMAIN l PROVE SeenScalar(b[i]) = b[i]
    <3>1. b[i] = Absent \/ b[i] = Scalar("float", NumberOf(l[i], "_d_"))
        BY <1>4, <1>10 DEF DecodeElement
    <3>. QED
        BY <3>1 DEF SeenScalar, Absent, Scalar
  <2>. QED
    BY <1>7, <1>10, <2>1
<1>11. CASE kind = "times"
  <2>1. \A i \in DOMAIN l : b[i] \in SpanTimes \cup {Absent}
    <3>. TAKE i \in DOMAIN l
    <3>1. CASE ~IsObject(l[i])
        BY <1>4, <1>11, <3>1 DEF DecodeElement
    <3>2. CASE IsObject(l[i])
      <4>1. b[i] = Scalar("time", TimeOf(l[i]))
        BY <1>4, <1>11, <3>2 DEF DecodeElement
      <4>2. l[i] \in J
        BY <1>6, <3>2 DEF IsObject, JsonElements, JsonLeaves, Scalars, Null, InnerArray,
                          Absent, Scalar
      <4>3. l[i].f["_m_"].k = "num" => l[i].f["_m_"].n \in Numbers
        BY <4>2, CodecAssumption DEF DecodedStay, Reserved
      <4>4. TimeOf(l[i]) \in Nanos
        BY <4>3, TimeNumber
      <4>. QED
        BY <4>1, <4>4 DEF SpanTimes, Scalars, Scalar
    <3>. QED
        BY <3>1, <3>2
  <2>2. b \in Seq(SpanTimes \cup {Absent})
    BY <1>4, <2>1, MapSeq
  <2>3. v \in GapLists("times", Times)
    BY <1>2, <1>11, KindOf DEF EncodableFields
  <2>4. b[1] # Absent
    BY <1>2, <1>5, <2>3 DEF GapLists
  <2>5. v \in SimpleValues(SpanTimes)
    BY <1>11, <2>2, <2>4 DEF SimpleValues, GapLists, Lists, List
  <2>6. \A i \in DOMAIN b : SeenScalar(b[i]) = CutScalar(b[i])
    BY <1>4, <2>1 DEF SpanTimes, Scalars, SeenScalar, CutScalar, Absent, Scalar
  <2>7. /\ SeenField(v, seen) = List("times", [i \in DOMAIN b |-> SeenScalar(b[i])])
        /\ CutField(v, cut) = List("times", [i \in DOMAIN b |-> CutScalar(b[i])])
    BY <1>2, <1>5, <1>11 DEF SeenField, CutField, SeenKind, ListKinds
  <2>8. [i \in DOMAIN b |-> SeenScalar(b[i])] = [i \in DOMAIN b |-> CutScalar(b[i])]
    BY <2>6
  <2>. QED
    BY <2>5, <2>7, <2>8 DEF FieldStays
<1>12. CASE kind = "messages"
  <2>1. v \in GapLists("messages", E)
    BY <1>2, <1>12, KindOf DEF EncodableFields
  <2>2. b \in Seq(E \cup {Absent}) /\ b[1] # Absent
    BY <1>2, <1>5, <2>1 DEF GapLists, Lists
  <2>3. ASSUME NEW i \in DOMAIN l, b[i] # Absent
        PROVE  /\ l[i] \in J /\ b[i] = dec[l[i]]
               /\ b[i] \in C /\ seen[b[i]] = cut[b[i]]
    <3>1. IsObject(l[i]) /\ b[i] = dec[l[i]]
        BY <1>4, <1>12, <2>3 DEF DecodeElement
    <3>2. l[i] \in J
        BY <1>6, <3>1 DEF IsObject, JsonElements, JsonLeaves, Scalars, Null, InnerArray,
                          Absent, Scalar
    <3>3. b[i] \in E
        BY <1>4, <2>2, <2>3
    <3>. QED
        BY <3>1, <3>2, <3>3 DEF DecodedStay
  <2>4. b \in Seq(C \cup {Absent})
    <3>1. \A i \in DOMAIN l : b[i] \in C \cup {Absent}
        BY <2>3
    <3>. QED
        BY <1>4, <3>1, MapSeq
  <2>5. ~HeadLooksTagged(b[1])
    <3>1. l[1] \in J /\ b[1] = dec[l[1]]
        BY <1>1, <2>2, <2>3
    <3>2. /\ ~Has(l[1], "_o_", "str") /\ ~Has(l[1], "_d_", "num")
          /\ ~Has(l[1], "_m_", "num")
        BY <1>12 DEF ListKind
    <3>. QED
        BY <3>1, <3>2 DEF DecodedStay, Has, SameTags, HeadLooksTagged
  <2>6. v \in ClearLists(C)
    BY <1>12, <2>2, <2>4, <2>5 DEF ClearLists, GapLists, Lists, List
  <2>7. /\ SeenField(v, seen)
            = List("messages", [i \in DOMAIN b |-> IF b[i] = Absent THEN Absent ELSE seen[b[i]]])
        /\ CutField(v, cut)
            = List("messages", [i \in DOMAIN b |-> IF b[i] = Absent THEN Absent ELSE cut[b[i]]])
    BY <1>2, <1>5, <1>12 DEF SeenField, CutField, ListKinds
  <2>8. [i \in DOMAIN b |-> IF b[i] = Absent THEN Absent ELSE seen[b[i]]]
            = [i \in DOMAIN b |-> IF b[i] = Absent THEN Absent ELSE cut[b[i]]]
    BY <1>4, <2>3
  <2>. QED
    BY <2>6, <2>7, <2>8 DEF FieldStays
<1>. QED
    BY <1>1, <1>3, <1>8, <1>9, <1>10, <1>11, <1>12 DEF ListKinds

\* A field of a decoded message.
LEMMA DecodedFieldStays ==
    ASSUME NEW E, \A m \in E : m.k = "message",
           NEW C, NEW dec, NEW seen, NEW cut, NEW J, DecodedStay(E, C, dec, seen, cut, J),
           NEW w \in JsonFields(J) \cup {Absent},
           NEW v, v = DecodeField(w, dec), v \in EncodableFields(E)
    PROVE  FieldStays(v, seen, cut, C)
<1>1. CASE w \in J
  <2>1. w.k = "obj"
    BY <1>1 DEF DecodedStay
  <2>2. v = DecodeObject(w, dec)
    BY <2>1 DEF DecodeField
  <2>. QED
    BY <1>1, <2>2, ObjectStays
<1>2. CASE w \in Lists("arr", JsonElements(J))
  <2>1. w.k = "arr" /\ w.l \in Seq(JsonElements(J))
    BY <1>2 DEF Lists
  <2>2. CASE Dropped(w)
    <3>1. v = Absent
        BY <2>1, <2>2 DEF DecodeField
    <3>. QED
        BY <3>1 DEF FieldStays, SeenField, SeenScalar, CutField, CutScalar, Absent, NilList,
                    Scalar, ListKinds
  <2>3. CASE ~Dropped(w)
    <3>. DEFINE kind == ListKind(w.l)
                b == [i \in DOMAIN w.l |-> DecodeElement(kind, w.l[i], dec)]
    <3>1. kind # "none"
        BY <2>1, <2>3 DEF Dropped
    <3>2. v = List(kind, b)
        BY <2>1, <2>3 DEF DecodeField
    <3>. HIDE DEF kind
    <3>3. PICK l : l = w.l
        OBVIOUS
    <3>4. kind = ListKind(l) /\ b = [i \in DOMAIN l |-> DecodeElement(kind, l[i], dec)]
        BY <3>3 DEF kind
    <3>. QED
        BY <2>1, <3>1, <3>2, <3>3, <3>4, ArrayStays
  <2>. QED
    BY <2>2, <2>3
<1>3. CASE w.k = "num" /\ w \in Scalars("num", Numbers)
  <2>1. v = Scalar("int", ToInt(ToFloat(w.n))) /\ w.n \in Numbers
    BY <1>3 DEF DecodeField, Scalars
  <2>2. v.k = "int"
    BY <2>1 DEF Scalar
  <2>3. v \in SimpleValues({})
    BY <2>2, KindOf DEF EncodableFields
  <2>4. SeenScalar(v) = v
    BY <2>1, IntStays
  <2>5. SeenField(v, seen) = SeenScalar(v) /\ CutField(v, cut) = v
    BY <2>2 DEF SeenField, CutField, CutScalar, NilList, Scalar, ListKinds
  <2>. QED
    BY <2>3, <2>4, <2>5, SimpleMonotone DEF FieldStays
<1>4. CASE w \in Scalars("str", Texts)
  <2>1. v.k = "string"
    BY <1>4 DEF DecodeField, Scalars, Scalar
  <2>2. v \in SimpleValues({})
    BY <2>1, KindOf DEF EncodableFields
  <2>3. SeenField(v, seen) = v /\ CutField(v, cut) = v
    BY <2>1 DEF SeenField, SeenScalar, CutField, CutScalar, NilList, Scalar, ListKinds
  <2>. QED
    BY <2>2, <2>3, SimpleMonotone DEF FieldStays
<1>5. CASE w \in Scalars("bool", {0, 1}) \cup {Null}
  <2>1. v.k \in {"bool", "null"}
    BY <1>5 DEF DecodeField, Scalars, Null, Scalar
  <2>. QED
    BY <2>1, KindOf DEF ScalarKinds, ListKinds, EncodableFields
<1>6. CASE w = Absent
  <2>1. v = Absent
    BY <1>6 DEF DecodeField, Absent, Scalar
  <2>. QED
    BY <2>1 DEF FieldStays, SeenField, SeenScalar, CutField, CutScalar, Absent, NilList,
                Scalar, ListKinds
<1>7. \A u \in Scalars("num", Numbers) : u.k = "num"
    BY DEF Scalars
<1>. QED
    BY <1>1, <1>2, <1>3, <1>4, <1>5, <1>6, <1>7 DEF JsonFields, JsonLeaves

\* A decoded message has the tags of the object it is from.
LEMMA DecodedTags ==
    ASSUME NEW d \in Nat, NEW w \in Json[d]
    PROVE  Decode[d][w].k = "message" /\ SameTags(Decode[d][w], w)
<1>. DEFINE dec == Decode[d - 1]
            J == Json[d - 1]
<1>1. d - 1 \in Nat /\ w \in JsonOver(J) /\ Decode[d][w] = DecodeMessage(w, dec)
    BY JsonKind
<1>2. ASSUME NEW u \in JsonFields(J) \cup {Absent}
      PROVE  /\ DecodeField(u, dec).k = "string" <=> u.k = "str"
             /\ DecodeField(u, dec).k = "int" <=> u.k = "num"
  <2>1. CASE u \in J
    <3>1. u.k = "obj" /\ dec[u] = DecodeMessage(u, Decode[(d - 1) - 1])
        BY <1>1, <2>1, JsonKind
    <3>2. dec[u].k = "message"
        BY <3>1 DEF DecodeMessage, Struct
    <3>3. DecodeField(u, dec) = DecodeObject(u, dec)
        BY <3>1 DEF DecodeField
    <3>4. DecodeObject(u, dec).k \in {"bytes", "float", "time", "message"}
        BY <3>2 DEF DecodeObject, Scalar
    <3>. QED
        BY <3>1, <3>3, <3>4
  <2>2. CASE u \in Lists("arr", JsonElements(J))
    <3>1. u.k = "arr"
        BY <2>2 DEF Lists
    <3>2. CASE Dropped(u)
        BY <3>1, <3>2 DEF DecodeField, Absent, Scalar
    <3>3. CASE ~Dropped(u)
      <4>1. DecodeField(u, dec).k = ListKind(u.l)
        BY <3>1, <3>3 DEF DecodeField, List
      <4>2. ListKind(u.l) \notin {"int", "string"}
        BY DEF ListKind
      <4>. QED
        BY <3>1, <4>1, <4>2
    <3>. QED
        BY <3>2, <3>3
  <2>3. CASE u \in JsonLeaves \cup {Absent}
    BY <2>3 DEF DecodeField, JsonLeaves, Scalars, Null, Absent, Scalar
  <2>. QED
    BY <2>1, <2>2, <2>3 DEF JsonFields
<1>3. \A x \in Names : w.f[x] \in JsonFields(J) \cup {Absent}
    BY <1>1 DEF JsonOver, Structs, JsonFields
<1>4. DecodeMessage(w, dec).k = "message"
    BY DEF DecodeMessage, Struct
<1>5. \A x \in Names : DecodeMessage(w, dec).f[x] = DecodeField(w.f[x], dec)
    BY DEF DecodeMessage, Struct
<1>6. \A x \in Names : /\ DecodeMessage(w, dec).f[x].k = "string" <=> w.f[x].k = "str"
                       /\ DecodeMessage(w, dec).f[x].k = "int" <=> w.f[x].k = "num"
    BY <1>2, <1>3, <1>5
<1>. QED
    BY <1>1, <1>4, <1>6, CodecAssumption DEF SameTags, Reserved

\* What was decoded and can be encoded, at whatever depth, is a clear message,
\* and is seen as it is but for its times.
LEMMA DecodeStable ==
    ASSUME NEW d \in Nat
    PROVE  \A e \in Nat :
                DecodedStay(Encodable[e], Clear[e], Decode[d], Seen[e], CutTimes[e], Json[d])
<1>. DEFINE Stay(n) ==
                \A e \in Nat :
                    DecodedStay(Encodable[e], Clear[e], Decode[n], Seen[e], CutTimes[e], Json[n])
            T == {n \in Nat : Stay(n)}
<1>1. 0 \in T
    BY JsonDef DEF DecodedStay
<1>2. ASSUME NEW n \in T \cap Nat PROVE n + 1 \in T
  <2>1. n \in Nat /\ n + 1 \in Nat /\ Stay(n)
    OBVIOUS
  <2>. HIDE DEF T
  <2>2. ASSUME NEW e \in Nat, NEW w \in Json[n + 1]
        PROVE  /\ w.k = "obj"
               /\ \A x \in Names : w.f[x].k = "num" => w.f[x].n \in Numbers
               /\ Decode[n + 1][w].k = "message"
               /\ SameTags(Decode[n + 1][w], w)
               /\ Decode[n + 1][w] \in Encodable[e] =>
                    /\ Decode[n + 1][w] \in Clear[e]
                    /\ Seen[e][Decode[n + 1][w]] = CutTimes[e][Decode[n + 1][w]]
    <3>1. /\ w.k = "obj"
          /\ \A x \in Names : w.f[x].k = "num" => w.f[x].n \in Numbers
        BY <2>1, JsonKind
    <3>2. Decode[n + 1][w].k = "message" /\ SameTags(Decode[n + 1][w], w)
        BY <2>1, DecodedTags
    <3>3. ASSUME Decode[n + 1][w] \in Encodable[e]
          PROVE  /\ Decode[n + 1][w] \in Clear[e]
                 /\ Seen[e][Decode[n + 1][w]] = CutTimes[e][Decode[n + 1][w]]
      <4>. DEFINE c == e - 1
                  E == Encodable[c]
                  C == Clear[c]
                  dec == Decode[n]
                  seen == Seen[c]
                  cut == CutTimes[c]
                  J == Json[n]
                  m == DecodeMessage(w, dec)
      <4>1. e # 0
        BY <3>3, EncodableDef
      <4>2. c \in Nat /\ c + 1 = e
        BY <4>1
      <4>3. /\ Encodable[e] = EncodableOver(E) /\ Clear[e] = ClearOver(C)
            /\ Seen[e] = [x \in Encodable[e] |-> SeenMessage(x, seen)]
            /\ CutTimes[e] = [x \in Encodable[e] |-> CutMessage(x, cut)]
        BY <4>2, EncodableDef, ClearDef, SeenDef, CutDef
      <4>4. /\ Decode[n + 1][w] = m
            /\ w \in JsonOver(J)
        BY <2>1, DecodeDef, JsonDef
      <4>5. DecodedStay(E, C, dec, seen, cut, J)
        BY <2>1, <4>2
      <4>6. \A x \in E : x.k = "message"
        BY <4>2, EncodableKind
      <4>7. /\ m.k = "message" /\ m = Struct("message", m.f)
            /\ m.f = [x \in Names |-> DecodeField(w.f[x], dec)]
        BY DEF DecodeMessage, Struct
      <4>8. m \in EncodableOver(E)
        BY <3>3, <4>3, <4>4
      <4>. HIDE DEF m, c, E, C, dec, seen, cut, J
      <4>9. \A x \in Names : FieldStays(m.f[x], seen, cut, C)
        <5>. TAKE x \in Names
        <5>1. w.f[x] \in JsonFields(J) \cup {Absent}
            BY <4>4 DEF JsonOver, Structs, JsonFields
        <5>2. m.f[x] \in EncodableFields(E)
            BY <4>8 DEF EncodableOver, Structs, EncodableFields, FieldsOf
        <5>3. m.f[x] = DecodeField(w.f[x], dec)
            BY <4>7
        <5>. QED
            BY <4>5, <4>6, <5>1, <5>2, <5>3, DecodedFieldStays
      <4>10. m \in ClearOver(C)
        <5>1. DOMAIN m.f = Names /\ m.f = [x \in Names |-> m.f[x]]
            BY <4>7
        <5>2. m.f \in [Names -> SimpleValues(SpanTimes) \cup {x \in C : ~LooksTagged(x)}
                                    \cup ClearLists(C) \cup {Absent}]
            BY <4>9, <5>1 DEF FieldStays
        <5>. QED
            BY <4>7, <5>2 DEF ClearOver, Structs, Struct
      <4>11. SeenMessage(m, seen) = CutMessage(m, cut)
        <5>1. [x \in Names |-> SeenField(m.f[x], seen)] = [x \in Names |-> CutField(m.f[x], cut)]
            BY <4>9 DEF FieldStays
        <5>. QED
            BY <5>1 DEF SeenMessage, CutMessage
      <4>12. Seen[e][m] = SeenMessage(m, seen) /\ CutTimes[e][m] = CutMessage(m, cut)
        BY <4>3, <4>8
      <4>. QED
        BY <4>3, <4>4, <4>10, <4>11, <4>12
    <3>. QED
        BY <3>1, <3>2, <3>3
  <2>3. Stay(n + 1)
    BY <2>2 DEF DecodedStay
  <2>. QED
    BY <2>1, <2>3 DEF T
<1>3. Nat \subseteq T
    BY <1>1, <1>2, DecodeLevels!SetInduction
<1>. QED
    BY <1>3

-----------------------------------------------------------------------------
(* What is seen of a message without nil lists can be encoded. *)

LEMMA SeenScalarEncodable ==
    /\ \A v \in Ints : SeenScalar(v) \in Ints
    /\ \A v \in Singles : SeenScalar(v) \in Floats
    /\ \A v \in Times : SeenScalar(v) \in Times
    /\ \A v : v.k \notin {"int", "float32", "time"} => SeenScalar(v) = v
<1>1. ASSUME NEW v \in Ints PROVE SeenScalar(v) \in Ints
  <2>1. v.k = "int" /\ v.n \in Int /\ Whole(v.n) \in Numbers
    BY DEF Ints, Scalars
  <2>2. SeenScalar(v) = Scalar("int", SeenInt(v.n))
    BY <2>1 DEF SeenScalar
  <2>3. SeenInt(v.n) \in Int /\ Whole(SeenInt(v.n)) \in Numbers
    BY <2>1, IntExact DEF SeenInt
  <2>. QED
    BY <2>2, <2>3 DEF Ints, Scalars, Scalar
<1>2. ASSUME NEW v \in Singles PROVE SeenScalar(v) \in Floats
  <2>1. v.k = "float32" /\ v.n \in Numbers
    BY DEF Singles, Scalars
  <2>2. SeenScalar(v) = Scalar("float", ToFloat(v.n))
    BY <2>1 DEF SeenScalar
  <2>3. ToFloat(v.n) \in Numbers /\ ToFloat(ToFloat(v.n)) = ToFloat(v.n)
    BY <2>1, FloatExact
  <2>. QED
    BY <2>2, <2>3 DEF Floats, Scalars, Scalar
<1>3. ASSUME NEW v \in Times PROVE SeenScalar(v) \in Times
  <2>1. v.k = "time" /\ v.n \in Int
    BY DEF Times, Scalars
  <2>2. SeenScalar(v) = Scalar("time", SeenTime(v.n))
    BY <2>1 DEF SeenScalar
  <2>3. SeenTime(v.n) \in Int
    BY <2>1, CodecAssumption DEF SeenTime, Trunc
  <2>. QED
    BY <2>2, <2>3 DEF Times, Scalars, Scalar
<1>4. \A v : v.k \notin {"int", "float32", "time"} => SeenScalar(v) = v
    BY DEF SeenScalar
<1>. QED
    BY <1>1, <1>2, <1>3, <1>4

\* A list of scalars is seen as a list that can be encoded.
LEMMA SeenList ==
    ASSUME NEW kind \in ListKinds \ {"messages"}, NEW S, NEW l \in Seq(S), l # <<>>,
           NEW U, \A s \in S : SeenScalar(s) \in U, NEW seen
    PROVE  \E b \in Seq(U) : /\ SeenField(List(kind, l), seen) = List(SeenKind(kind), b)
                             /\ b[1] = SeenScalar(l[1])
<1>. DEFINE v == List(kind, l)
            b == [i \in DOMAIN l |-> SeenScalar(l[i])]
<1>1. v.k = kind /\ v.l = l /\ v # NilList
    BY DEF List, NilList, Scalar, ListKinds
<1>2. SeenField(v, seen) = List(SeenKind(kind), b)
    BY <1>1 DEF SeenField, ListKinds
<1>3. /\ DOMAIN b = DOMAIN l /\ b = [i \in DOMAIN l |-> b[i]]
      /\ \A i \in DOMAIN l : b[i] = SeenScalar(l[i]) /\ b[i] \in U
    OBVIOUS
<1>. HIDE DEF b
<1>4. b \in Seq(U)
    BY <1>3, MapSeq
<1>. QED
    BY <1>2, <1>3, <1>4

\* A field without nil lists.
LEMMA SeenFieldEncodable ==
    ASSUME NEW N, \A m \in N : m.k = "message", NEW seen, NEW E, \A m \in E : m.k = "message",
           \A m \in N : seen[m] \in E,
           NEW v \in (SimpleValues(Times) \ {NilList}) \cup N \cup GapLists("messages", N)
                        \cup {Absent}
    PROVE  SeenField(v, seen) \in EncodableFields(E)
<1>1. CASE v \in Strings \cup Ints \cup Singles \cup Floats \cup Times
                    \cup Scalars("bytes", Texts)
  <2>1. v.k \in ScalarKinds
    BY <1>1 DEF Strings, Ints, Singles, Floats, Times, Scalars, ScalarKinds
  <2>2. SeenField(v, seen) = SeenScalar(v)
    BY <2>1 DEF SeenField, ScalarKinds, ListKinds, NilList, Scalar
  <2>3. CASE v \in Ints \cup Singles \cup Times
    BY <2>2, <2>3, SeenScalarEncodable DEF EncodableFields, FieldsOf, SimpleValues
  <2>4. CASE v \in Strings \cup Floats \cup Scalars("bytes", Texts)
    <3>1. v.k \notin {"int", "float32", "time"}
        BY <2>4 DEF Strings, Floats, Scalars
    <3>. QED
        BY <2>2, <2>4, <3>1, SeenScalarEncodable DEF EncodableFields, FieldsOf, SimpleValues
  <2>. QED
    BY <1>1, <2>3, <2>4
<1>2. CASE \E k, S : v \in Lists(k, S) /\ k \in ListKinds /\ v.l = <<>>
  <2>1. v.k \in ListKinds /\ v # NilList
    BY <1>2 DEF Lists, NilList, Scalar, ListKinds
  <2>2. SeenField(v, seen) = Absent
    BY <1>2, <2>1 DEF SeenField, ListKinds
  <2>. QED
    BY <2>2 DEF EncodableFields, FieldsOf
<1>3. CASE v \in Lists("strings", Strings)
  <2>1. PICK l \in Seq(Strings) : v = List("strings", l) /\ v.l = l
    BY <1>3 DEF Lists, List
  <2>2. \A s \in Strings : SeenScalar(s) \in Strings
    BY SeenScalarEncodable DEF Strings, Scalars
  <2>3. l # <<>> => \E b \in Seq(Strings) : SeenField(v, seen) = List("strings", b)
    BY <2>1, <2>2, SeenList DEF ListKinds, SeenKind
  <2>4. \A b \in Seq(Strings) : List("strings", b) \in SimpleValues(Times)
    BY DEF SimpleValues, Lists, List
  <2>. QED
    BY <1>2, <1>3, <2>1, <2>3, <2>4 DEF EncodableFields, FieldsOf, ListKinds
<1>4. CASE v \in Lists("ints", Ints)
  <2>1. PICK l \in Seq(Ints) : v = List("ints", l) /\ v.l = l
    BY <1>4 DEF Lists, List
  <2>2. \A s \in Ints : SeenScalar(s) \in Ints
    BY SeenScalarEncodable
  <2>3. l # <<>> => \E b \in Seq(Ints) : SeenField(v, seen) = List("ints", b)
    BY <2>1, <2>2, SeenList DEF ListKinds, SeenKind
  <2>4. \A b \in Seq(Ints) : List("ints", b) \in SimpleValues(Times)
    BY DEF SimpleValues, Lists, List
  <2>. QED
    BY <1>2, <1>4, <2>1, <2>3, <2>4 DEF EncodableFields, FieldsOf, ListKinds
<1>5. ASSUME NEW kind \in {"float32s", "floats", "times"}, NEW S, NEW U,
             \A s \in S : SeenScalar(s) \in U,
             \A u \in U : u.k \in {"float", "time"},
             NEW l \in Seq(S \cup {Absent}), v = List(kind, l), l # <<>> => l[1] # Absent
      PROVE  SeenField(v, seen) \in GapLists(SeenKind(kind), U) \cup {Absent}
  <2>1. \A s \in S \cup {Absent} : SeenScalar(s) \in U \cup {Absent}
    BY <1>5, SeenScalarEncodable DEF Absent, Scalar
  <2>2. CASE l = <<>>
    <3>1. v.k \in ListKinds /\ v # NilList /\ v.l = l
        BY <1>5 DEF List, NilList, Scalar, ListKinds
    <3>2. SeenField(v, seen) = Absent
        BY <2>2, <3>1 DEF SeenField, ListKinds
    <3>. QED
        BY <3>2
  <2>3. CASE l # <<>>
    <3>1. kind \in ListKinds \ {"messages"}
        BY DEF ListKinds
    <3>2. PICK b \in Seq(U \cup {Absent}) :
            SeenField(v, seen) = List(SeenKind(kind), b) /\ b[1] = SeenScalar(l[1])
        BY <1>5, <2>1, <2>3, <3>1, SeenList
    <3>3. l[1] \in S
        BY <1>5, <2>3
    <3>4. SeenScalar(l[1]) \in U
        BY <1>5, <3>3
    <3>5. b[1] # Absent
        BY <1>5, <3>2, <3>4 DEF Absent, Scalar
    <3>. QED
        BY <3>2, <3>5 DEF GapLists, Lists, List
  <2>. QED
    BY <2>2, <2>3
<1>6. CASE v \in Lists("float32s", Singles) \cup GapLists("floats", Floats)
  <2>1. (\A s \in Singles : SeenScalar(s) \in Floats) /\ (\A s \in Floats : SeenScalar(s) \in Floats)
    BY SeenScalarEncodable DEF Floats, Scalars
  <2>2. \A u \in Floats : u.k \in {"float", "time"}
    BY DEF Floats, Scalars
  <2>3. CASE v \in Lists("float32s", Singles)
    <3>1. PICK l \in Seq(Singles) : v = List("float32s", l)
        BY <2>3 DEF Lists, List
    <3>2. l # <<>> => l[1] \in Singles
        OBVIOUS
    <3>3. l \in Seq(Singles \cup {Absent}) /\ (l # <<>> => l[1] # Absent)
      <4>1. Absent \notin Singles
        BY DEF Singles, Scalars, Absent, Scalar
      <4>2. l \in Seq(Singles \cup {Absent})
        OBVIOUS
      <4>. QED
        BY <3>2, <4>1, <4>2
    <3>4. SeenField(v, seen) \in GapLists(SeenKind("float32s"), Floats) \cup {Absent}
        BY <1>5, <2>1, <2>2, <3>1, <3>3
    <3>. QED
        BY <3>4 DEF EncodableFields, FieldsOf, SimpleValues, SeenKind
  <2>4. CASE v \in GapLists("floats", Floats)
    <3>1. PICK l \in Seq(Floats \cup {Absent}) :
            v = List("floats", l) /\ (l # <<>> => l[1] # Absent)
        BY <2>4 DEF GapLists, Lists, List
    <3>2. SeenField(v, seen) \in GapLists(SeenKind("floats"), Floats) \cup {Absent}
        BY <1>5, <2>1, <2>2, <3>1
    <3>. QED
        BY <3>2 DEF EncodableFields, FieldsOf, SimpleValues, SeenKind
  <2>. QED
    BY <1>6, <2>3, <2>4
<1>7. CASE v \in GapLists("times", Times)
  <2>1. PICK l \in Seq(Times \cup {Absent}) :
            v = List("times", l) /\ (l # <<>> => l[1] # Absent)
    BY <1>7 DEF GapLists, Lists, List
  <2>2. \A u \in Times : SeenScalar(u) \in Times /\ u.k \in {"float", "time"}
    BY SeenScalarEncodable DEF Times, Scalars
  <2>3. SeenField(v, seen) \in GapLists(SeenKind("times"), Times) \cup {Absent}
    BY <1>5, <2>1, <2>2
  <2>. QED
    BY <2>3 DEF EncodableFields, FieldsOf, SimpleValues, SeenKind
<1>8. CASE v \in N
  <2>1. SeenField(v, seen) = seen[v]
    BY <1>8 DEF SeenField, NilList, Scalar, ListKinds
  <2>. QED
    BY <1>8, <2>1 DEF EncodableFields, FieldsOf
<1>9. CASE v \in GapLists("messages", N)
  <2>1. PICK l \in Seq(N \cup {Absent}) :
            v = List("messages", l) /\ v.l = l /\ (l # <<>> => l[1] # Absent)
    BY <1>9 DEF GapLists, Lists, List
  <2>. DEFINE b == [i \in DOMAIN l |-> IF l[i] = Absent THEN Absent ELSE seen[l[i]]]
  <2>2. v.k = "messages" /\ v # NilList
    BY <2>1 DEF List, NilList, Scalar
  <2>3. SeenField(v, seen) = IF l = <<>> THEN Absent ELSE List("messages", b)
    BY <2>1, <2>2 DEF SeenField, ListKinds
  <2>4. \A i \in DOMAIN l : l[i] = Absent \/ l[i] \in N
    OBVIOUS
  <2>5. /\ DOMAIN b = DOMAIN l /\ b = [i \in DOMAIN l |-> b[i]]
        /\ \A i \in DOMAIN l : b[i] \in E \cup {Absent} /\ (l[i] # Absent => b[i] \in E)
    BY <2>4
  <2>. HIDE DEF b
  <2>6. b \in Seq(E \cup {Absent})
    BY <2>5, MapSeq
  <2>7. CASE l # <<>>
    <3>1. b[1] \in E
        BY <2>1, <2>5, <2>7
    <3>2. b[1] # Absent
        BY <3>1 DEF Absent, Scalar
    <3>. QED
        BY <2>3, <2>6, <2>7, <3>2 DEF EncodableFields, FieldsOf, GapLists, Lists, List
  <2>. QED
    BY <2>3, <2>7 DEF EncodableFields, FieldsOf
<1>10. CASE v = Absent
    BY <1>10 DEF EncodableFields, FieldsOf, SeenField, SeenScalar, Absent, NilList, Scalar, ListKinds
<1>. QED
    BY <1>1, <1>3, <1>4, <1>6, <1>7, <1>8, <1>9, <1>10 DEF SimpleValues

LEMMA NilFreeEncodable ==
    ASSUME NEW d \in Nat
    PROVE  NilFree[d] \subseteq Encodable[d]
<1>. DEFINE T == {n \in Nat : NilFree[n] \subseteq Encodable[n]}
<1>1. 0 \in T
    BY NilFreeDef
<1>2. ASSUME NEW n \in T \cap Nat PROVE n + 1 \in T
  <2>1. GapLists("messages", NilFree[n]) \subseteq GapLists("messages", Encodable[n])
    BY DEF GapLists, Lists
  <2>2. NilFreeOver(NilFree[n]) \subseteq EncodableOver(Encodable[n])
    BY <2>1 DEF NilFreeOver, EncodableOver, Structs
  <2>. QED
    BY <2>2, NilFreeDef, EncodableDef
<1>3. Nat \subseteq T
    BY <1>1, <1>2, NilFreeLevels!SetInduction
<1>. QED
    BY <1>3

\* What is seen of a message without nil lists can be encoded again.
LEMMA SeenEncodable ==
    ASSUME NEW d \in Nat
    PROVE  \A m \in NilFree[d] : Seen[d][m] \in Encodable[d]
<1>. DEFINE T == {n \in Nat : \A m \in NilFree[n] : Seen[n][m] \in Encodable[n]}
<1>1. 0 \in T
    BY NilFreeDef
<1>2. ASSUME NEW n \in T \cap Nat PROVE n + 1 \in T
  <2>. DEFINE N == NilFree[n]
              E == Encodable[n]
              seen == Seen[n]
  <2>1. n \in Nat /\ n + 1 \in Nat /\ \A m \in N : seen[m] \in E
    OBVIOUS
  <2>2. /\ NilFree[n + 1] = NilFreeOver(N)
        /\ Encodable[n + 1] = EncodableOver(E)
        /\ Seen[n + 1] = [m \in Encodable[n + 1] |-> SeenMessage(m, seen)]
    BY <2>1, NilFreeDef, EncodableDef, SeenDef
  <2>3. N \subseteq E /\ NilFree[n + 1] \subseteq Encodable[n + 1]
    BY <2>1, NilFreeEncodable
  <2>4. \A m \in E : m.k = "message"
    BY <2>1, EncodableKind
  <2>. HIDE DEF N, E, seen
  <2>5. ASSUME NEW m \in NilFreeOver(N) PROVE SeenMessage(m, seen) \in EncodableOver(E)
    <3>1. \A x \in Names :
            m.f[x] \in (SimpleValues(Times) \ {NilList}) \cup N \cup GapLists("messages", N)
                        \cup {Absent}
        BY DEF NilFreeOver, Structs
    <3>2. \A x \in Names : SeenField(m.f[x], seen) \in EncodableFields(E)
        BY <2>1, <2>3, <2>4, <3>1, SeenFieldEncodable
    <3>. QED
        BY <3>2 DEF SeenMessage, EncodableOver, Structs, Struct, EncodableFields, FieldsOf
  <2>6. \A m \in NilFree[n + 1] : Seen[n + 1][m] \in Encodable[n + 1]
    BY <2>2, <2>3, <2>5
  <2>. QED
    BY <2>1, <2>6
<1>3. Nat \subseteq T
    BY <1>1, <1>2, SeenLevels!SetInduction
<1>. QED
    BY <1>3

\* Objects may be nested as deep as one likes less.
LEMMA JsonMonotone ==
    ASSUME NEW d \in Nat
    PROVE  Json[d] \subseteq Json[d + 1]
<1>. DEFINE T == {n \in Nat : Json[n] \subseteq Json[n + 1]}
<1>1. 0 \in T
    BY JsonDef
<1>2. ASSUME NEW n \in T \cap Nat PROVE n + 1 \in T
  <2>1. n \in Nat /\ n + 1 \in Nat /\ Json[n] \subseteq Json[n + 1]
    OBVIOUS
  <2>2. Lists("arr", JsonElements(Json[n])) \subseteq Lists("arr", JsonElements(Json[n + 1]))
    <3>1. JsonElements(Json[n]) \subseteq JsonElements(Json[n + 1])
        BY <2>1 DEF JsonElements
    <3>. QED
        BY <3>1 DEF Lists
  <2>3. JsonOver(Json[n]) \subseteq JsonOver(Json[n + 1])
    BY <2>1, <2>2 DEF JsonOver, Structs
  <2>4. Json[n + 1] = JsonOver(Json[n]) /\ Json[(n + 1) + 1] = JsonOver(Json[n + 1])
    BY <2>1, JsonDef
  <2>. QED
    BY <2>1, <2>3, <2>4
<1>3. Nat \subseteq T
    BY <1>1, <1>2, JsonLevels!SetInduction
<1>. QED
    BY <1>3

-----------------------------------------------------------------------------
(* A message under "body". *)

LEMMA DepthType ==
    /\ Depth \in Nat /\ Depth + 1 \in Nat /\ Depth + 2 \in Nat
    /\ Depth - 1 \in Nat /\ (Depth - 1) + 1 = Depth /\ (Depth + 1) + 1 = Depth + 2
    BY CodecAssumption

LEMMA BodyField ==
    ASSUME NEW m
    PROVE  /\ InBody(m).k = "message" /\ InBody(m).f["body"] = m
           /\ InBody(m) = Struct("message", InBody(m).f)
           /\ InBody(m).f = [x \in Names |-> IF x = "body" THEN m ELSE Absent]
    BY CodecAssumption DEF InBody, Struct

\* A message is encoded under "body" if it can be encoded.
LEMMA BodyEncodable ==
    ASSUME NEW m
    PROVE  /\ m \in Encodable[Depth] => CanEncode(InBody(m))
           /\ CanEncode(InBody(m)) => m \in EncodableFields(Encodable[Depth])
<1>1. Encodable[Depth + 1] = EncodableOver(Encodable[Depth])
    BY DepthType, EncodableDef
<1>2. ASSUME m \in Encodable[Depth] PROVE CanEncode(InBody(m))
    BY <1>1, <1>2 DEF CanEncode, InBody, EncodableOver, Structs, Struct
<1>3. ASSUME CanEncode(InBody(m)) PROVE m \in EncodableFields(Encodable[Depth])
  <2>1. InBody(m).f["body"] \in EncodableFields(Encodable[Depth])
    BY <1>1, <1>3, CodecAssumption DEF CanEncode, EncodableOver, Structs, EncodableFields, FieldsOf
  <2>. QED
    BY <2>1, BodyField
<1>. QED
    BY <1>2, <1>3

LEMMA ClearBody ==
    ASSUME NEW m \in Clear[Depth], ~LooksTagged(m)
    PROVE  InBody(m) \in Clear[Depth + 1]
<1>1. Clear[Depth + 1] = ClearOver(Clear[Depth])
    BY DepthType, ClearDef
<1>. QED
    BY <1>1 DEF InBody, ClearOver, Structs, Struct

\* A message that does not look like an encoded value is delivered from under
\* "body" as it should be seen.
LEMMA BodyTrip ==
    ASSUME NEW m \in Clear[Depth], ~LooksTagged(m)
    PROVE  BodyOf(Unmarshal(Marshal(InBody(m)))) = Seen[Depth][m]
<1>1. InBody(m) \in Clear[Depth + 1] /\ InBody(m) \in Encodable[Depth + 1]
    BY ClearBody, ClearEncodable, DepthType
<1>2. Unmarshal(Marshal(InBody(m))) = Seen[Depth + 1][InBody(m)]
  <2>1. MessagesTrip(Clear[Depth + 1], Encode[Depth + 1], Decode[(Depth + 1) + 1],
                     Seen[Depth + 1], Json[(Depth + 1) + 1])
    BY DepthType, LevelTrip
  <2>. QED
    BY <1>1, <2>1, DepthType DEF MessagesTrip, Unmarshal, Marshal
<1>3. Seen[Depth + 1][InBody(m)] = SeenMessage(InBody(m), Seen[Depth])
    BY <1>1, DepthType, SeenDef
<1>4. SeenMessage(InBody(m), Seen[Depth]).f["body"] = SeenField(m, Seen[Depth])
    BY BodyField, CodecAssumption DEF SeenMessage, Struct
<1>5. m \in Encodable[Depth] /\ m.k = "message"
    BY DepthType, ClearEncodable, EncodableKind
<1>6. SeenField(m, Seen[Depth]) = Seen[Depth][m]
    BY <1>5 DEF SeenField, NilList, Scalar, ListKinds
<1>7. Seen[Depth][m].k = "message"
  <2>1. Seen[Depth] = [c \in Encodable[Depth] |-> SeenMessage(c, Seen[Depth - 1])]
    BY DepthType, SeenDef
  <2>. QED
    BY <1>5, <2>1 DEF SeenMessage, Struct
<1>. QED
    BY <1>2, <1>3, <1>4, <1>6, <1>7 DEF BodyOf

\* One that does is delivered as a nil Message.
LEMMA TaggedBody ==
    ASSUME NEW m \in Clear[Depth], LooksTagged(m)
    PROVE  BodyOf(Unmarshal(Marshal(InBody(m)))) = NilMessage
<1>. DEFINE u == Encode[Depth][m]
            w == Marshal(InBody(m))
<1>1. m \in Encodable[Depth] /\ m.k = "message"
    BY DepthType, ClearEncodable, EncodableKind
<1>2. SameTags(m, u) /\ u.k = "obj"
    BY DepthType, LevelTrip DEF MessagesTrip
<1>3. InBody(m) \in Encodable[Depth + 1]
    BY <1>1, BodyEncodable DEF CanEncode
<1>4. w \in Json[Depth + 2] /\ w = EncodeMessage(InBody(m), Encode[Depth])
    BY <1>3, DepthType, EncodeType, EncodeDef DEF Marshal
<1>5. EncodeMessage(InBody(m), Encode[Depth]).f["body"] = u
  <2>1. EncodeField(m, Encode[Depth]) = u
    BY <1>1 DEF EncodeField, NilList, Scalar, ListKinds
  <2>. QED
    BY <2>1, BodyField, CodecAssumption DEF EncodeMessage, Struct
<1>6. Decode[Depth + 2] = [o \in Json[Depth + 2] |-> DecodeMessage(o, Decode[Depth + 1])]
    BY DepthType, DecodeDef
<1>. HIDE DEF u, w
<1>7. Unmarshal(w).f["body"] = DecodeField(u, Decode[Depth + 1])
    BY <1>4, <1>5, <1>6, CodecAssumption DEF Unmarshal, DecodeMessage, Struct
<1>8. DecodeField(u, Decode[Depth + 1]) = DecodeObject(u, Decode[Depth + 1])
    BY <1>2 DEF DecodeField
<1>9. DecodeObject(u, Decode[Depth + 1]).k \in {"bytes", "float", "time"}
    BY <1>2 DEF DecodeObject, Has, SameTags, LooksTagged, HeadLooksTagged, Scalar
<1>. QED
    BY <1>7, <1>8, <1>9 DEF BodyOf, w

\* A message without fields can be published.
LEMMA NilClear ==
    /\ NilMessage \in Clear[Depth] /\ ~LooksTagged(NilMessage)
    /\ Seen[Depth][NilMessage] = NilMessage /\ CutTimes[Depth][NilMessage] = NilMessage
<1>1. NilMessage.f = [x \in Names |-> Absent] /\ NilMessage = Struct("message", NilMessage.f)
    BY DEF NilMessage, Struct
<1>2. NilMessage \in Clear[Depth]
  <2>1. Clear[Depth] = ClearOver(Clear[Depth - 1])
    BY DepthType, ClearDef
  <2>. QED
    BY <2>1, <1>1 DEF ClearOver, Structs, Struct
<1>3. ~LooksTagged(NilMessage)
    BY <1>1, CodecAssumption DEF LooksTagged, HeadLooksTagged, Reserved, Absent, Scalar
<1>4. /\ Seen[Depth][NilMessage] = SeenMessage(NilMessage, Seen[Depth - 1])
      /\ CutTimes[Depth][NilMessage] = CutMessage(NilMessage, CutTimes[Depth - 1])
  <2>1. /\ Seen[Depth] = [c \in Encodable[Depth] |-> SeenMessage(c, Seen[Depth - 1])]
        /\ CutTimes[Depth] = [c \in Encodable[Depth] |-> CutMessage(c, CutTimes[Depth - 1])]
    BY DepthType, SeenDef, CutDef
  <2>. QED
    BY <1>2, <2>1, DepthType, ClearEncodable
<1>5. /\ SeenMessage(NilMessage, Seen[Depth - 1]) = NilMessage
      /\ CutMessage(NilMessage, CutTimes[Depth - 1]) = NilMessage
  <2>1. \A inner : SeenField(Absent, inner) = Absent /\ CutField(Absent, inner) = Absent
    BY DEF SeenField, SeenScalar, CutField, CutScalar, Absent, NilList, Scalar, ListKinds
  <2>. QED
    BY <1>1, <2>1 DEF SeenMessage, CutMessage
<1>. QED
    BY <1>2, <1>3, <1>4, <1>5

-----------------------------------------------------------------------------
(* A message on its way. *)

\* What the receiver has was decoded from what was sent, and what is sent on
\* is the encoding of what was decoded from some object.
CodecInv ==
    /\ phase \in {"idle", "refused", "sent", "received", "stuck", "resent", "again"}
    /\ op \in {"event", "heartbeat"}
    /\ phase = "idle" => app = Absent /\ op = "event"
    /\ phase \notin {"idle", "refused"} => wire \in Json[Depth + 2]
    /\ phase \in {"sent", "received", "stuck"} =>
            \/ app = Absent
            \/ op = "event" /\ CanEncode(InBody(app)) /\ wire = Marshal(InBody(app))
    /\ phase \in {"received", "stuck"} => got = Incoming(wire)
    /\ phase = "stuck" => ~CanEncode(Outgoing(got))
    /\ phase = "resent" =>
            /\ CanEncode(Outgoing(got)) /\ wire = Marshal(Outgoing(got))
            /\ \E w \in Json[Depth + 2] : got = Incoming(w)

\* What is encoded is JSON.
LEMMA MarshalType ==
    ASSUME NEW m, CanEncode(m)
    PROVE  Marshal(m) \in Json[Depth + 2]
    BY EncodeType, DepthType DEF CanEncode, Marshal

\* The body of a decoded event that can be published is clear.
LEMMA EventBody ==
    ASSUME NEW w \in Json[Depth + 2], NEW m, m = BodyOf(Unmarshal(w)), CanEncode(InBody(m))
    PROVE  /\ m \in Clear[Depth] /\ ~LooksTagged(m)
           /\ Seen[Depth][m] = CutTimes[Depth][m]
<1>. DEFINE E == Encodable[Depth]
            C == Clear[Depth]
            dec == Decode[Depth + 1]
            seen == Seen[Depth]
            cut == CutTimes[Depth]
            J == Json[Depth + 1]
            v == DecodeField(w.f["body"], dec)
<1>1. w.f["body"] \in JsonFields(J) \cup {Absent}
  <2>1. w \in JsonOver(J)
    BY DepthType, JsonDef
  <2>. QED
    BY <2>1, CodecAssumption DEF JsonOver, Structs, JsonFields
<1>2. Unmarshal(w).f["body"] = v
  <2>1. Decode[Depth + 2] = [o \in Json[Depth + 2] |-> DecodeMessage(o, dec)]
    BY DepthType, DecodeDef
  <2>. QED
    BY <2>1, CodecAssumption DEF Unmarshal, DecodeMessage, Struct
<1>3. DecodedStay(E, C, dec, seen, cut, J)
    BY DepthType, DecodeStable
<1>4. \A c \in E : c.k = "message"
    BY DepthType, EncodableKind
<1>5. CASE v.k = "message"
  <2>1. m = v
    BY <1>2, <1>5 DEF BodyOf
  <2>2. v \in EncodableFields(E)
    BY <2>1, BodyEncodable
  <2>. HIDE DEF E, C, dec, seen, cut, J
  <2>3. FieldStays(v, seen, cut, C)
    BY <1>1, <1>3, <1>4, <2>2, DecodedFieldStays
  <2>. HIDE DEF v
  <2>4. v \notin SimpleValues(SpanTimes)
    <3>1. v \in SimpleValues(SpanTimes) => v \in FieldsOf(SpanTimes, {})
        BY DEF FieldsOf
    <3>. QED
        BY <1>5, <3>1, SpanSimple, KindOf
  <2>5. v \notin ClearLists(C) /\ v # Absent
    BY <1>5 DEF ClearLists, GapLists, Lists, Absent, Scalar
  <2>6. v \in C /\ ~LooksTagged(v)
    BY <2>3, <2>4, <2>5 DEF FieldStays
  <2>7. SeenField(v, seen) = CutField(v, cut)
    BY <2>3 DEF FieldStays
  <2>8. SeenField(v, seen) = seen[v] /\ CutField(v, cut) = cut[v]
    BY <1>5 DEF SeenField, CutField, NilList, Scalar, ListKinds
  <2>. QED
    BY <2>1, <2>6, <2>7, <2>8 DEF C, seen, cut
<1>6. CASE v.k # "message"
  <2>1. m = NilMessage
    BY <1>2, <1>6 DEF BodyOf
  <2>. QED
    BY <2>1, NilClear
<1>. QED
    BY <1>5, <1>6

\* A message that was decoded, and can be sent on, arrives as it was, but that its
\* times are cut to milliseconds.
LEMMA SentOnSeen ==
    ASSUME op \in {"event", "heartbeat"},
           NEW w \in Json[Depth + 2], NEW m, m = Incoming(w), CanEncode(Outgoing(m))
    PROVE  Incoming(Marshal(Outgoing(m))) = CutTimes[SentOnDepth][m]
<1>1. CASE op = "event"
  <2>1. m = BodyOf(Unmarshal(w)) /\ CanEncode(InBody(m))
    BY <1>1 DEF Incoming, Outgoing
  <2>2. /\ m \in Clear[Depth] /\ ~LooksTagged(m)
        /\ Seen[Depth][m] = CutTimes[Depth][m]
    BY <2>1, EventBody
  <2>3. BodyOf(Unmarshal(Marshal(InBody(m)))) = Seen[Depth][m]
    BY <2>2, BodyTrip
  <2>. QED
    BY <1>1, <2>2, <2>3 DEF Incoming, Outgoing, SentOnDepth
<1>2. CASE op = "heartbeat"
  <2>1. m = Decode[Depth + 2][w] /\ m \in Encodable[Depth + 1]
    BY <1>2 DEF Incoming, Outgoing, Unmarshal, CanEncode
  <2>2. DecodedStay(Encodable[Depth + 1], Clear[Depth + 1], Decode[Depth + 2], Seen[Depth + 1],
                    CutTimes[Depth + 1], Json[Depth + 2])
    BY DepthType, DecodeStable
  <2>3. /\ m \in Clear[Depth + 1]
        /\ Seen[Depth + 1][m] = CutTimes[Depth + 1][m]
    BY <2>1, <2>2 DEF DecodedStay
  <2>4. MessagesTrip(Clear[Depth + 1], Encode[Depth + 1], Decode[(Depth + 1) + 1],
                     Seen[Depth + 1], Json[(Depth + 1) + 1])
    BY DepthType, LevelTrip
  <2>5. Unmarshal(Marshal(m)) = Seen[Depth + 1][m]
    BY <2>3, <2>4, DepthType DEF MessagesTrip, Unmarshal, Marshal
  <2>. QED
    BY <1>2, <2>3, <2>5 DEF Incoming, Outgoing, SentOnDepth
<1>. QED
    BY <1>1, <1>2

\* The invariant holds of every step, whatever the messages and the objects.
THEOREM CodecInvariant ==
    Spec => []CodecInv
<1>1. Init => CodecInv
    BY DEF Init, CodecInv
<1>2. CodecInv /\ [Next]_vars => CodecInv'
  <2>. SUFFICES ASSUME CodecInv, [Next]_vars PROVE CodecInv'
    OBVIOUS
  <2>. USE DEF CodecInv
  <2>1. CASE Publish
    <3>1. PICK m \in Messages :
            /\ phase = "idle" /\ app' = m /\ got' = got /\ op' = op
            /\ IF CanEncode(InBody(m))
               THEN phase' = "sent" /\ wire' = Marshal(InBody(m))
               ELSE phase' = "refused" /\ wire' = wire
        BY <2>1 DEF Publish
    <3>2. CASE CanEncode(InBody(m))
      <4>1. Marshal(InBody(m)) \in Json[Depth + 2]
        BY <3>2, MarshalType
      <4>2. phase' = "sent" /\ app' = m /\ wire' = Marshal(InBody(m)) /\ op' = "event"
        BY <3>1, <3>2
      <4>. QED
        BY <3>2, <4>1, <4>2 DEF CanEncode, Marshal, InBody
    <3>3. CASE ~CanEncode(InBody(m))
        BY <3>1, <3>3
    <3>. QED
        BY <3>2, <3>3
  <2>2. CASE ServerSend
    <3>1. PICK w \in Objects, o \in {"event", "heartbeat"} :
            phase = "idle" /\ phase' = "sent" /\ wire' = w /\ op' = o
        BY <2>2 DEF ServerSend
    <3>2. app' = Absent
        BY <2>2 DEF ServerSend
    <3>3. w \in Json[Depth + 2]
        BY ObjectsAssumption, JsonMonotone, DepthType
    <3>. QED
        BY <3>1, <3>2, <3>3
  <2>3. CASE Receive
    <3>1. \/ phase = "sent" /\ phase' = "received"
          \/ phase = "resent" /\ phase' = "again"
        BY <2>3 DEF Receive
    <3>2. op' = op /\ app' = app /\ wire' = wire /\ got' = Incoming(wire)
        BY <2>3 DEF Receive
    <3>3. Incoming(wire)' = Incoming(wire)
        BY <3>2 DEF Incoming, BodyOf, Unmarshal, NilMessage
    <3>. QED
        BY <3>1, <3>2, <3>3 DEF CanEncode, Marshal, InBody
  <2>4. CASE SendOn
    <3>1. phase = "received" /\ op' = op /\ app' = app /\ got' = got
        BY <2>4 DEF SendOn
    <3>2. CASE CanEncode(Outgoing(got))
      <4>1. phase' = "resent" /\ wire' = Marshal(Outgoing(got))
        BY <2>4, <3>2 DEF SendOn
      <4>2. wire \in Json[Depth + 2] /\ got = Incoming(wire)
        BY <3>1
      <4>3. wire' \in Json[Depth + 2]
        BY <3>2, <4>1, MarshalType
      <4>4. CanEncode(Outgoing(got))' /\ Marshal(Outgoing(got))' = Marshal(Outgoing(got))
        BY <3>1, <3>2 DEF CanEncode, Marshal, Outgoing, InBody
      <4>5. \E w \in Json[Depth + 2] : got' = Incoming(w)'
        BY <3>1, <4>2 DEF Incoming, BodyOf, Unmarshal, NilMessage
      <4>. QED
        BY <3>1, <4>1, <4>3, <4>4, <4>5
    <3>3. CASE ~CanEncode(Outgoing(got))
      <4>1. phase' = "stuck" /\ wire' = wire
        BY <2>4, <3>3 DEF SendOn
      <4>2. ~CanEncode(Outgoing(got))'
        BY <3>1, <3>3 DEF CanEncode, Outgoing, InBody
      <4>3. Incoming(wire)' = Incoming(wire)
        BY <3>1, <4>1 DEF Incoming, BodyOf, Unmarshal, NilMessage
      <4>. QED
        BY <3>1, <4>1, <4>2, <4>3 DEF CanEncode, Marshal, InBody
    <3>. QED
        BY <3>2, <3>3
  <2>5. CASE UNCHANGED vars
    BY <2>5 DEF vars, CanEncode, Marshal, Unmarshal, Incoming, Outgoing, InBody, BodyOf, NilMessage
  <2>. QED
    BY <2>1, <2>2, <2>3, <2>4, <2>5 DEF Next
<1>. QED
    BY <1>1, <1>2, PTL DEF Spec

\* An application is not told of a message that is no message.
LEMMA AppKind ==
    ASSUME app \in Clear[Depth]
    PROVE  app # Absent
    BY ClearEncodable, EncodableKind, DepthType DEF Absent, Scalar

\* A message is received as it was published, for messages of any depth: what
\* decode makes under "body" of what encode wrote there is what SeenMessage says
\* of it, if it does not look like an encoded value and its times are within
\* the span of an int64.
THEOREM RoundTripHolds ==
    Spec => []RoundTrip
<1>1. CodecInv => RoundTrip
  <2>. SUFFICES ASSUME CodecInv, phase = "received", app \in Clear[Depth], ~LooksTagged(app)
                PROVE  got = Seen[Depth][app]
    BY DEF RoundTrip
  <2>1. op = "event" /\ wire = Marshal(InBody(app)) /\ got = Incoming(wire)
    BY AppKind DEF CodecInv
  <2>2. got = BodyOf(Unmarshal(Marshal(InBody(app))))
    BY <2>1 DEF Incoming
  <2>. QED
    BY <2>2, BodyTrip
<1>. QED
    BY <1>1, CodecInvariant, PTL

\* What a client received of a message that another could publish, without
\* ambiguous tags inside or nil lists, it can publish itself: encode does not
\* refuse what decode yields.
THEOREM SentOnHolds ==
    Spec => []SentOnIfPublished
<1>1. CodecInv => SentOnIfPublished
  <2>. SUFFICES ASSUME CodecInv, phase = "stuck", app \in Clear[Depth], app \in NilFree[Depth]
                PROVE  FALSE
    BY DEF SentOnIfPublished
  <2>1. op = "event" /\ wire = Marshal(InBody(app)) /\ got = Incoming(wire)
    BY AppKind DEF CodecInv
  <2>2. got = BodyOf(Unmarshal(Marshal(InBody(app)))) /\ ~CanEncode(InBody(got))
    BY <2>1 DEF Incoming, Outgoing, CodecInv
  <2>3. CASE LooksTagged(app)
    <3>1. got = NilMessage
        BY <2>2, <2>3, TaggedBody
    <3>2. NilMessage \in Encodable[Depth]
        BY NilClear, ClearEncodable, DepthType
    <3>. QED
        BY <2>2, <3>1, <3>2, BodyEncodable
  <2>4. CASE ~LooksTagged(app)
    <3>1. got = Seen[Depth][app]
        BY <2>2, <2>4, BodyTrip
    <3>2. got \in Encodable[Depth]
        BY <3>1, SeenEncodable, DepthType
    <3>. QED
        BY <2>2, <3>2, BodyEncodable
  <2>. QED
    BY <2>3, <2>4
<1>. QED
    BY <1>1, CodecInvariant, PTL

\* Whatever JSON a message came from, the server's own included, and whether it
\* is a heartbeat or is published again: a message that can be sent on arrives
\* as it was first received, but that its times are cut to milliseconds, which
\* changes those only that overflowed on the first way.
THEOREM SecondTripHolds ==
    Spec => SecondTripExact
<1>1. CodecInv /\ [Next]_vars =>
        [phase = "resent" => got' = CutTimes[SentOnDepth][got]]_vars
  <2>. SUFFICES ASSUME CodecInv, Next, phase = "resent"
                PROVE  got' = CutTimes[SentOnDepth][got]
    BY DEF vars
  <2>1. CASE Receive
    <3>1. got' = Incoming(wire)
        BY <2>1 DEF Receive
    <3>2. PICK w \in Json[Depth + 2] : got = Incoming(w)
        BY DEF CodecInv
    <3>3. CanEncode(Outgoing(got)) /\ wire = Marshal(Outgoing(got)) /\ op \in {"event", "heartbeat"}
        BY DEF CodecInv
    <3>4. Incoming(Marshal(Outgoing(got))) = CutTimes[SentOnDepth][got]
        BY <3>2, <3>3, SentOnSeen
    <3>. QED
        BY <3>1, <3>3, <3>4
  <2>. QED
    BY <2>1 DEF Next, Publish, ServerSend, SendOn
<1>. QED
    BY <1>1, CodecInvariant, PTL DEF Spec, SecondTripExact
=============================================================================
