-------------------------- MODULE FcmNotifyProofs --------------------------
(***************************************************************************)
(* The safety of FcmNotify, for any number of users, browsers and           *)
(* containers.                                                              *)
(***************************************************************************)
EXTENDS FcmNotify, TLAPS

\* A follower who keeps his preference and his token is on his way through the
\* call: still to be read, read with the token he has, or notified.  What the
\* call has in hand are followers of some moment since it was made.
FanOutInv ==
    /\ fn # "users" => todo = {}
    /\ fn \in {"idle", "followers"} => found = {} /\ asked = {}
    /\ fn = "users" => asked = {}
    /\ Running => \A u \in steady : follower[u] = "on" /\ record[u] \in Browsers
    /\ fn = "users" => \A u \in steady : u \in todo \/ <<u, record[u]>> \in found
    /\ Running => \A u \in Users : follower[u] = "on" => u \in ever
    /\ todo \subseteq ever /\ asked \subseteq ever
    /\ \A f \in found : f[1] \in ever
    /\ NotifiesFollowers

\* An app is there only while the call that initialized it runs.
ContainerInv ==
    /\ \A i \in Lambda : app[i] => Running /\ at = i
    /\ ContainerReusable

Inv == TypeInv /\ FanOutInv /\ ContainerInv

LEMMA InvInit == Init => Inv
<1> SUFFICES ASSUME Init PROVE Inv
  OBVIOUS
<1>1. TypeInv  BY DEF Init, TypeInv
<1>2. FanOutInv  BY DEF Init, FanOutInv, Running, NotifiesFollowers
<1>3. ContainerInv  BY DEF Init, ContainerInv, ContainerReusable
<1> QED  BY <1>1, <1>2, <1>3 DEF Inv

-----------------------------------------------------------------------------
(* The page. *)

PageTypeOK ==
    /\ auth \in [Browsers -> Users \cup {Nobody}]
    /\ currentUid \in [Browsers -> Users \cup {Nobody}]
    /\ asking \in [Browsers -> BOOLEAN] /\ deleting \in [Browsers -> BOOLEAN]
    /\ follower \in [Users -> {"none", "off", "on"}]
    /\ record \in [Users -> {"none", "named"} \cup Browsers]

LEMMA PageType ==
    ASSUME PageTypeOK, NEW b \in Browsers, PageStep(b)
    PROVE  PageTypeOK'
<1> USE DEF PageTypeOK, page, tables
<1>1. CASE SignIn(b)  BY <1>1 DEF SignIn
<1>2. CASE SignOut(b)  BY <1>2 DEF SignOut
<1>3. CASE OnAuthStateChanged(b)  BY <1>3 DEF OnAuthStateChanged
<1>4. CASE SaveToken(b)  BY <1>4 DEF SaveToken
<1>5. CASE Toggle(b)  BY <1>5 DEF Toggle
<1>6. CASE DeleteAccount(b)  BY <1>6 DEF DeleteAccount
<1>7. CASE DeleteUser(b)  BY <1>7 DEF DeleteUser
<1> QED  BY <1>1, <1>2, <1>3, <1>4, <1>5, <1>6, <1>7 DEF PageStep

\* Whatever the page does, who is steady afterwards was, and has the same record.
LEMMA PageInv ==
    ASSUME Inv, NEW b \in Browsers, PageStep(b), Observe, UNCHANGED call
    PROVE  Inv'
<1> USE DEF call
<1>1. PageTypeOK'
  BY PageType DEF Inv, TypeInv, PageTypeOK
<1>2. steady' \subseteq steady /\ ever \subseteq ever' /\ ever' \subseteq Users
  BY DEF Inv, TypeInv, Observe, Following
<1>3. TypeInv'
  BY <1>1, <1>2 DEF Inv, TypeInv, PageTypeOK
<1>4. Running' = Running
  BY DEF Running
<1>5. Running => \A u \in steady' : follower'[u] = "on" /\ record'[u] = record[u]
  BY DEF Observe
<1>6. Running' => \A u \in Users : follower'[u] = "on" => u \in ever'
  BY <1>4 DEF Observe, Following
<1>7. FanOutInv'
  <2>1. Tokenless' = Tokenless
    BY DEF Tokenless
  <2>2. NotifiesFollowers'
    BY <1>2, <2>1 DEF Inv, FanOutInv, NotifiesFollowers
  <2> QED
    BY <1>2, <1>4, <1>5, <1>6, <2>2 DEF Inv, FanOutInv, Running
<1>8. ContainerInv'
  BY <1>4 DEF Inv, ContainerInv, ContainerReusable
<1> QED  BY <1>3, <1>7, <1>8 DEF Inv

-----------------------------------------------------------------------------
(* The functions. *)

LEMMA InvokeInv ==
    ASSUME Inv, NEW i \in Containers, Invoke(i)
    PROVE  Inv'
<1> USE DEF Inv, Invoke, page, tables
<1>1. TypeInv'
  BY DEF TypeInv, Reachable, Following
<1>2. FanOutInv'
  <2>1. NotifiesFollowers'
    BY ContainersAssumption DEF NotifiesFollowers
  <2> QED
    BY <2>1 DEF FanOutInv, TypeInv, Running, Reachable, Following
<1>3. \A j \in Lambda : ~app[j]
  BY DEF ContainerInv
<1>4. ContainerInv'
  BY <1>3 DEF ContainerInv, ContainerReusable, TypeInv, Running
<1> QED  BY <1>1, <1>2, <1>4

\* A call touches neither the tables nor what is recorded about them.
Frame == UNCHANGED <<page, tables, steady, ever>>

LEMMA ReadFollowersInv == ASSUME Inv, ReadFollowers, Frame PROVE Inv'
<1> USE DEF Inv, ReadFollowers, Frame, page, tables, End
<1>1. TypeInv'
  BY DEF TypeInv, Followers, Following, AppAfter
<1>2. FanOutInv'
  BY DEF FanOutInv, TypeInv, Running, NotifiesFollowers, Followers, Following
<1>3. ContainerInv'
  BY DEF ContainerInv, ContainerReusable, TypeInv, Running, AppAfter
<1> QED  BY <1>1, <1>2, <1>3

LEMMA ReadUserInv == ASSUME Inv, ReadUser, Frame PROVE Inv'
<1> USE DEF Inv, ReadUser, Frame, page, tables
<1> PICK u \in todo :
        /\ todo' = todo \ {u}
        /\ found' = found \cup ({<<u, record[u]>>} \ {<<u, "none">>})
  OBVIOUS
<1>1. TypeInv'
  <2>1. u \in Users /\ record[u] \in {"none", "named"} \cup Browsers
    BY DEF TypeInv
  <2>2. found' \subseteq Users \X ({"named"} \cup Browsers)
    BY <2>1 DEF TypeInv
  <2> QED  BY <2>2 DEF TypeInv
<1>2. FanOutInv'
  <2>1. \A v \in steady : v \in todo' \/ <<v, record[v]>> \in found'
    BY BrowsersAssumption DEF FanOutInv, TypeInv, Running
  <2>2. \A f \in found' : f[1] \in ever
    BY DEF FanOutInv
  <2> QED  BY <2>1, <2>2 DEF FanOutInv, TypeInv, Running, NotifiesFollowers
<1>3. ContainerInv'
  BY DEF ContainerInv, ContainerReusable, Running
<1> QED  BY <1>1, <1>2, <1>3

\* Who was read with a token is a follower of some moment, and nobody who is
\* steady is missing when everybody has been read.
LEMMA WithTokenFacts ==
    ASSUME Inv, fn = "users", todo = {}
    PROVE  /\ WithToken \subseteq Users /\ WithToken \subseteq ever
           /\ steady \subseteq WithToken
           /\ found = {} => steady = {}
<1>1. WithToken \subseteq Users
  BY DEF WithToken, Inv, TypeInv
<1>2. WithToken \subseteq ever
  BY DEF WithToken, Inv, FanOutInv
<1>3. ASSUME NEW u \in steady PROVE u \in WithToken
  <2>1. <<u, record[u]>> \in found /\ record[u] \in Browsers
    BY DEF Inv, FanOutInv, Running
  <2> QED  BY <2>1 DEF WithToken
<1>4. found = {} => steady = {}
  BY DEF Inv, FanOutInv
<1> QED  BY <1>1, <1>2, <1>3, <1>4

LEMMA SendEachInv == ASSUME Inv, SendEach, Frame PROVE Inv'
<1> USE DEF Inv, SendEach, Frame, page, tables
<1>1. /\ asked' \subseteq WithToken /\ pending' = asked' /\ sent' = {}
      /\ fn' \in {"done", "failed"} /\ reply' = reply
      /\ fn' = "done" => asked' = WithToken
      /\ fn' = "failed" => Tokenless'
  BY DEF TypeInv, FanOutInv, Tokenless
<1>2. TypeInv'
  BY <1>1, WithTokenFacts DEF TypeInv
<1>3. at \notin Lambda /\ \A i \in Lambda : ~app[i]
  BY ContainersAssumption DEF ContainerInv
<1>4. NotifiesFollowers'
  BY <1>1, <1>3, WithTokenFacts DEF NotifiesFollowers
<1>5. FanOutInv'
  BY <1>1, <1>4, WithTokenFacts DEF FanOutInv, TypeInv, Running
<1>6. ContainerInv'
  BY <1>3 DEF ContainerInv, ContainerReusable
<1> QED  BY <1>2, <1>5, <1>6

\* FCM answers no call that is still reading, and none of the Lambda, which
\* waits for it.
LEMMA FcmAnswerInv == ASSUME Inv, FcmAnswer, Frame PROVE Inv'
<1> USE DEF Inv, FcmAnswer, Frame, page, tables
<1> PICK u \in pending :
        /\ pending' = pending \ {u}
        /\ sent' \in {sent, sent \cup {u}}
        /\ UNCHANGED <<at, fn, todo, found, asked, reply, app>>
  OBVIOUS
<1>1. TypeInv'
  BY DEF TypeInv
<1>2. sent \subseteq sent' /\ Tokenless' = Tokenless /\ Running' = Running
  BY DEF Tokenless, Running
<1>3. NotifiesFollowers'
  BY <1>2 DEF FanOutInv, NotifiesFollowers
<1>4. FanOutInv'
  BY <1>2, <1>3 DEF FanOutInv
<1>5. ContainerInv'
  BY <1>2 DEF ContainerInv, ContainerReusable
<1> QED  BY <1>1, <1>4, <1>5

LEMMA SendAllInv == ASSUME Inv, SendAll, Frame PROVE Inv'
<1> USE DEF Inv, SendAll, Frame, page, tables, End
<1>1. TypeInv'
  <2>1. asked = {} /\ pending' = {} /\ sent = {}
    BY DEF TypeInv, FanOutInv
  <2> QED
    BY <2>1, WithTokenFacts DEF TypeInv, AppAfter
<1>2. FanOutInv'
  BY WithTokenFacts DEF FanOutInv, TypeInv, Running, NotifiesFollowers
<1>3. ContainerInv'
  BY DEF ContainerInv, ContainerReusable, TypeInv, AppAfter
<1> QED  BY <1>1, <1>2, <1>3

LEMMA StopInv == ASSUME Inv, Stop, Frame PROVE Inv'
<1> USE DEF Inv, Stop, Frame, page, tables
<1>1. TypeInv'
  BY DEF TypeInv, AppAfter
<1>2. FanOutInv'
  BY DEF FanOutInv, TypeInv, Running, NotifiesFollowers
<1>3. ContainerInv'
  BY DEF ContainerInv, ContainerReusable, TypeInv, AppAfter
<1> QED  BY <1>1, <1>2, <1>3

LEMMA InvNext == Inv /\ [Next]_vars => Inv'
<1> SUFFICES ASSUME Inv, [Next]_vars PROVE Inv'
  OBVIOUS
<1>1. CASE \E b \in Browsers : PageStep(b) /\ Observe /\ UNCHANGED call
  BY <1>1, PageInv
<1>2. CASE \E i \in Containers : Invoke(i)
  BY <1>2, InvokeInv
<1>3. CASE CallStep /\ Frame
  BY <1>3, ReadFollowersInv, ReadUserInv, SendEachInv, SendAllInv, FcmAnswerInv, StopInv
     DEF CallStep
<1>4. CASE UNCHANGED vars
  BY <1>4 DEF vars, page, tables, call, Inv, TypeInv, FanOutInv, ContainerInv,
              Running, NotifiesFollowers, Tokenless, ContainerReusable
<1> QED  BY <1>1, <1>2, <1>3, <1>4 DEF Next, Frame

LEMMA InvCorrect == Spec => []Inv
  BY InvInit, InvNext, PTL DEF Spec

\* Every variable keeps its type.
THEOREM FcmTypeCorrect == Spec => []TypeInv
<1>1. Inv => TypeInv
  BY DEF Inv
<1> QED  BY <1>1, InvCorrect, PTL

\* A call of the Lambda without an error has notified everyone who followed
\* throughout, and one of the Google function that comes upon no follower
\* without a token has asked FCM for each of them.
THEOREM FollowersNotified == Spec => []NotifiesFollowers
<1>1. Inv => NotifiesFollowers
  BY DEF Inv, FanOutInv
<1> QED  BY <1>1, InvCorrect, PTL

\* Nobody is notified who never followed while the call ran.
THEOREM OnlyFollowersNotified == Spec => []OnlyFollowers
<1>1. Inv => OnlyFollowers
  BY DEF Inv, FanOutInv, TypeInv, OnlyFollowers
<1> QED  BY <1>1, InvCorrect, PTL

\* No call of the Lambda finds an app in its container.
THEOREM ContainersReusable == Spec => []ContainerReusable
<1>1. Inv => ContainerReusable
  BY DEF Inv, ContainerInv
<1> QED  BY <1>1, InvCorrect, PTL
=============================================================================
