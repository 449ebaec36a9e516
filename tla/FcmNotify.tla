----------------------------- MODULE FcmNotify -----------------------------
(***************************************************************************)
(* Push notifications of recipes/fcm: the page where users sign in, follow  *)
(* and unfollow (public/main.js), and the two functions that notify the     *)
(* followers, a Google function (fcm-project/functions/index.js) and a      *)
(* Lambda (functions/sendPushNotification/index.js).  They meet in the      *)
(* tables mashlingfollowers and mashlingusers of the database.  A container   *)
(* (a process with its variables) runs one call of a function after the      *)
(* other.  Calls only read the tables, so that two of them meet in nothing    *)
(* but what the first leaves in a container: the model follows one at a time. *)
(***************************************************************************)
EXTENDS FiniteSets

CONSTANTS
    Users, Browsers,        \* a browser has one registration token
    Google, Lambda,         \* the containers of the two functions
    Nobody                  \* signed out

ASSUME NobodyAssumption == Nobody \notin Users
ASSUME BrowsersAssumption == Browsers \cap {"none", "named"} = {}
ASSUME ContainersAssumption == Google \cap Lambda = {}

Containers == Google \cup Lambda

VARIABLES
    auth,           \* auth[b]: who the SDK in the browser b has signed in
    currentUid,     \* currentUid[b]: who the page knows of
    asking,         \* asking[b]: a getToken is under way
    deleting,       \* deleting[b]: deleteAccount waits for the remove
    follower,       \* mashlingfollowers: "none", "off" (false) or "on" (true)
    record,         \* mashlingusers: "none", "named", or with a token
    at, fn,         \* the container of the call, and where the call is
    todo, found,    \* records still to be read; those read: <<user, record>>
    asked, pending, \* users for whom FCM is asked; requests it has not answered
    sent, reply,    \* users notified; the answer to the call
    app,            \* app[i]: the Lambda has an initialized app in i
    steady, ever    \* followers with one token since the call; at any time since

page == <<auth, currentUid, asking, deleting>>
tables == <<follower, record>>
call == <<at, fn, todo, found, asked, pending, sent, reply, app>>
vars == <<page, tables, call, steady, ever>>

Init ==
    /\ auth = [b \in Browsers |-> Nobody] /\ currentUid = auth
    /\ asking = [b \in Browsers |-> FALSE] /\ deleting = asking
    /\ follower = [u \in Users |-> "none"] /\ record = follower
    /\ at \in Containers /\ fn = "idle" /\ reply = "none"
    /\ todo = {} /\ found = {} /\ asked = {} /\ pending = {} /\ sent = {}
    /\ steady = {} /\ ever = {}
    /\ app = [i \in Lambda |-> FALSE]

-----------------------------------------------------------------------------
(* The page. *)

\* The buttons are there while the page takes the user for signed out, or in.
SignIn(b) ==
    /\ currentUid[b] = Nobody
    /\ \E u \in Users : auth' = [auth EXCEPT ![b] = u]
    /\ UNCHANGED <<currentUid, asking, deleting, tables>>

SignOut(b) ==
    /\ currentUid[b] # Nobody
    /\ auth' = [auth EXCEPT ![b] = Nobody]
    /\ UNCHANGED <<currentUid, asking, deleting, tables>>

\* The database's rules: a user writes what is stored under his own id.
MayWrite(b, u) == u # Nobody /\ auth[b] = u

OnAuthStateChanged(b) ==
    /\ currentUid[b] # auth[b]
    /\ currentUid' = [currentUid EXCEPT ![b] = auth[b]]
    /\ IF auth[b] = Nobody THEN UNCHANGED <<asking, record>>
       ELSE /\ record' = [record EXCEPT ![auth[b]] = IF @ = "none" THEN "named" ELSE @]
            /\ asking' = [asking EXCEPT ![b] = TRUE]
    /\ UNCHANGED <<auth, deleting, follower>>

\* The token is there, and is stored for who is the current user by now; or
\* there is none, and the user may be asked for permission, or refuses it.
SaveToken(b) ==
    /\ asking[b]
    /\ \/ /\ record' = IF MayWrite(b, currentUid[b])
                       THEN [record EXCEPT ![currentUid[b]] = b] ELSE record
       \/ UNCHANGED record
    /\ \E more \in BOOLEAN : asking' = [asking EXCEPT ![b] = more]
    /\ UNCHANGED <<auth, currentUid, deleting, follower>>

Toggle(b) ==
    /\ MayWrite(b, currentUid[b])
    /\ \E v \in {"off", "on"} : follower' = [follower EXCEPT ![currentUid[b]] = v]
    /\ UNCHANGED <<page, record>>

DeleteAccount(b) ==
    /\ MayWrite(b, currentUid[b])
    /\ follower' = [follower EXCEPT ![currentUid[b]] = "none"]
    /\ record' = [record EXCEPT ![currentUid[b]] = "none"]
    /\ deleting' = [deleting EXCEPT ![b] = TRUE]
    /\ UNCHANGED <<auth, currentUid, asking>>

\* The records are gone; the user who is signed in by now is deleted, or
\* signed out because the login is too old, or the call fails.
DeleteUser(b) ==
    /\ deleting[b]
    /\ deleting' = [deleting EXCEPT ![b] = FALSE]
    /\ \E u \in {auth[b], Nobody} : auth' = [auth EXCEPT ![b] = u]
    /\ UNCHANGED <<currentUid, asking, tables>>

PageStep(b) ==
    \/ SignIn(b) \/ SignOut(b) \/ OnAuthStateChanged(b) \/ SaveToken(b)
    \/ Toggle(b) \/ DeleteAccount(b) \/ DeleteUser(b)

-----------------------------------------------------------------------------
(* The functions. *)

Following == {u \in Users : follower[u] = "on"}
Reachable == {u \in Following : record[u] \in Browsers}

End(where, answer) == fn' = where /\ reply' = answer

Running == fn \in {"followers", "users"}

\* The Lambda initializes the app, which fails if its container has one.  What
\* is pending of the call before is not followed any more.
Invoke(i) ==
    /\ ~Running
    /\ at' = i /\ reply' = "none"
    /\ found' = {} /\ asked' = {} /\ pending' = {} /\ sent' = {}
    /\ fn' = IF i \in Lambda /\ app[i] THEN "failed" ELSE "followers"
    /\ app' = [j \in Lambda |-> app[j] \/ j = i]
    /\ steady' = Reachable /\ ever' = Following
    /\ UNCHANGED <<page, tables, todo>>

\* Mutant: the app stays.
AppKept == app

\* The Lambda deletes its app before each answer.
AppAfter == [j \in Lambda |-> app[j] /\ j # at]

\* Mutant: whoever has an entry is a follower.
Entries == {u \in Users : follower[u] # "none"}

\* Who has true in the snapshot.
Followers == Following

\* No entry at all: the Google function does not answer, the Lambda says so.
\* Otherwise the Google function answers at once.
ReadFollowers ==
    /\ fn = "followers"
    /\ IF \A u \in Users : follower[u] = "none"
       THEN /\ End("done", IF at \in Lambda THEN "nobody" ELSE "none")
            /\ app' = AppAfter /\ UNCHANGED todo
       ELSE /\ End("users", IF at \in Lambda THEN "none" ELSE "200")
            /\ todo' = Followers /\ UNCHANGED app
    /\ UNCHANGED <<at, found, asked, pending, sent>>

\* One read of Promise.all.
ReadUser ==
    /\ fn = "users"
    /\ \E u \in todo :
        /\ todo' = todo \ {u}
        /\ found' = found \cup ({<<u, record[u]>>} \ {<<u, "none">>})
    /\ UNCHANGED <<at, fn, asked, pending, sent, reply, app>>

\* Mutant: the tokens in the place of the users.
TokensOnly == {f[2] : f \in {g \in found : g[2] \in Browsers}}

WithToken == {f[1] : f \in {g \in found : g[2] \in Browsers}}
Tokenless == \E f \in found : f[2] = "named"

\* Mutant: does not wait for all reads.
SendEarly ==
    /\ at \in Google /\ fn = "users"
    /\ asked' \in IF Tokenless THEN SUBSET WithToken ELSE {WithToken}
    /\ pending' = asked'
    /\ fn' = IF Tokenless THEN "failed" ELSE "done"
    /\ UNCHANGED <<at, todo, found, sent, reply, app>>

\* FCM is asked for one after the other, and no answer is waited for; the first
\* without a token throws, and for those after it FCM is not asked.
SendEach ==
    /\ at \in Google /\ fn = "users" /\ todo = {}
    /\ asked' \in IF Tokenless THEN SUBSET WithToken ELSE {WithToken}
    /\ pending' = asked'
    /\ fn' = IF Tokenless THEN "failed" ELSE "done"
    /\ UNCHANGED <<at, todo, found, sent, reply, app>>

\* FCM notifies a user, or rejects the request, which nothing handles.
FcmAnswer ==
    \E u \in pending :
        /\ pending' = pending \ {u}
        /\ sent' \in {sent, sent \cup {u}}
        /\ UNCHANGED <<at, fn, todo, found, asked, reply, app>>

\* All at once, and FCM's answer is waited for: without a token among them, or
\* if FCM fails, nobody is notified.
SendAll ==
    /\ at \in Lambda /\ fn = "users" /\ todo = {}
    /\ \/ found = {} /\ End("done", "nobody") /\ UNCHANGED <<asked, sent>>
       \/ /\ found # {} /\ ~Tokenless
          /\ End("done", "sent")
          /\ asked' = WithToken /\ sent' = WithToken
       \/ /\ found # {}
          /\ End("done", "error")
          /\ asked' = WithToken /\ UNCHANGED sent
    /\ app' = AppAfter
    /\ UNCHANGED <<at, todo, found, pending>>

\* A read fails and nothing handles it, or the platform ends the call: the
\* process goes with it, and the app.
Stop ==
    /\ Running
    /\ fn' = "stopped" /\ app' = AppAfter /\ todo' = {}
    /\ UNCHANGED <<at, found, asked, pending, sent, reply>>

CallStep == ReadFollowers \/ ReadUser \/ SendEach \/ SendAll \/ FcmAnswer \/ Stop

-----------------------------------------------------------------------------
\* What a step of the page changes in the history of the call.
Observe ==
    /\ steady' = {u \in steady : Running =>
                    (follower'[u] = "on" /\ record'[u] = record[u])}
    /\ ever' = ever \cup IF Running THEN Following' ELSE {}

Next ==
    \/ \E b \in Browsers : PageStep(b) /\ Observe /\ UNCHANGED call
    \/ \E i \in Containers : Invoke(i)
    \/ CallStep /\ UNCHANGED <<page, tables, steady, ever>>

Spec == Init /\ [][Next]_vars

-----------------------------------------------------------------------------
\* Every variable has its type: a record has no token but a browser's, and only
\* users are read and notified.
TypeInv ==
    /\ auth \in [Browsers -> Users \cup {Nobody}]
    /\ currentUid \in [Browsers -> Users \cup {Nobody}]
    /\ asking \in [Browsers -> BOOLEAN] /\ deleting \in [Browsers -> BOOLEAN]
    /\ follower \in [Users -> {"none", "off", "on"}]
    /\ record \in [Users -> {"none", "named"} \cup Browsers]
    /\ at \in Containers /\ app \in [Lambda -> BOOLEAN]
    /\ fn \in {"idle", "followers", "users", "done", "failed", "stopped"}
    /\ reply \in {"none", "200", "nobody", "sent", "error"}
    /\ found \subseteq Users \X ({"named"} \cup Browsers)
    /\ todo \subseteq Users /\ asked \subseteq Users
    /\ pending \subseteq asked /\ sent \subseteq asked
    /\ steady \subseteq Users /\ ever \subseteq Users

\* A call of the Lambda that does not answer with an error has notified everyone
\* who followed, with one token, throughout.  The Google function, which waits
\* for no answer of FCM, has asked FCM for each of them, unless it comes upon a
\* follower without a token.  Both functions are meant to notify all followers
\* (functions/index.js:8), and the Google function has answered 200 by then: the
\* exception, and an FCM that rejects what it was asked, are failures that its
\* caller is not told of.
NotifiesFollowers ==
    /\ at \in Lambda /\ fn = "done" /\ reply # "error" => steady \subseteq sent
    /\ at \in Google /\ fn \in {"done", "failed"} =>
            steady \subseteq asked \/ (fn = "failed" /\ Tokenless)

\* Nobody is notified who did not follow at any time since the call was made.
OnlyFollowers == sent \subseteq ever

\* A call of the Lambda never finds the app of an earlier one in its container.
ContainerReusable == at \in Lambda => fn # "failed"
=============================================================================
