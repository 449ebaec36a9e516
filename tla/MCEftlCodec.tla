---------------------------- MODULE MCEftlCodec ----------------------------
(***************************************************************************)
(* Messages and JSON objects of every kind, nested twice, for TLC.  An       *)
(* int64 is so small that a count of 3 milliseconds overflows it, and wraps  *)
(* to a time between two milliseconds.                                      *)
(***************************************************************************)
EXTENDS EftlCodec

MCNames == {"body"} \cup Reserved

Field(k, x, v) ==
    Struct(k, [y \in Names |-> IF y = x THEN v ELSE Absent])
Empty(k) == Struct(k, [y \in Names |-> Absent])

SomeScalars ==
    {Scalar("string", 0), Scalar("string", NaNText), Scalar("int", 1),
     Scalar("int", 5), Scalar("int", -7), Scalar("bytes", 1), Scalar("float32", 5),
     Scalar("float32", NotANumber), Scalar("float", -3), Scalar("float", NotANumber),
     Scalar("time", 3), Scalar("time", -13), Scalar("time", 21), Scalar("bool", 0),
     Scalar("nil", 0)}

SomeLists ==
    {List("strings", <<>>), List("messages", <<>>), NilList,
     List("strings", <<Scalar("string", 2), Scalar("string", 0)>>),
     List("ints", <<Scalar("int", 1), Scalar("int", -5)>>),
     List("float32s", <<Scalar("float32", 3), Scalar("float32", -9)>>),
     List("floats", <<Scalar("float", 3), Scalar("float", 0)>>),
     List("floats", <<Scalar("float", 1), Scalar("float", NotANumber)>>),
     List("times", <<Scalar("time", -7), Scalar("time", 12)>>),
     List("bytesList", <<Scalar("bytes", 1)>>)}

Inner ==
    {Field("message", x, v) : x \in Names, v \in SomeScalars \cup SomeLists}
        \cup {Empty("message")}
MessageLists ==
    {List("messages", <<m>>) : m \in Inner}
        \cup {List("messages", <<Empty("message"), m>>) : m \in Inner}

MCMessages ==
    Inner \cup {Field("message", "body", v) : v \in Inner \cup MessageLists}

Leaves ==
    {Scalar("str", 0), Scalar("str", NaNText), Scalar("str", 11), Scalar("num", 3),
     Scalar("num", 6), Scalar("num", -10), Scalar("num", Top), Scalar("bool", 0), Null}
InnerObjects == {Field("obj", x, w) : x \in Names, w \in Leaves}
Arrays ==
    {List("arr", <<v, w>>) : v \in Leaves \cup InnerObjects \cup {Empty("obj")},
                             w \in {Scalar("num", 2), Scalar("str", 12),
                                    Tagged("_d_", Scalar("num", 3)),
                                    Tagged("_m_", Scalar("num", 6)),
                                    Tagged("_o_", Scalar("str", 12))}}
Values ==
    Leaves \cup InnerObjects \cup Arrays
        \cup {List("arr", <<>>), List("arr", <<InnerArray>>)}
        \cup {Field("obj", x, i) : x \in Names, i \in InnerObjects}
MCObjects ==
    {Field("obj", "body", w) : w \in Values}
        \cup {Field("obj", "body", Field("obj", "body", w)) : w \in Arrays}
=============================================================================
