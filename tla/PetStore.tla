------------------------------ MODULE PetStore ------------------------------
(***************************************************************************)
(* The pet store of recipes/rest-to-grpc-gateway/main.go: gRPC runs each    *)
(* request in a goroutine of its own, and the handlers share two maps       *)
(* without a lock.                                                          *)
(*                                                                         *)
(* m[k] = v is two steps of the compiled code: the runtime finds or makes   *)
(* the entry, a blank one, while its flag says that the map is written; the *)
(* value is copied into the entry after that, unnoticed.  A goroutine that  *)
(* meets the flag ends the process (fatal error: concurrent map writes).    *)
(* The runtime may miss it, and then nothing is known of the map: the model *)
(* ends there as well.                                                      *)
(***************************************************************************)
EXTENDS Integers

CONSTANTS
    Pets, Users,    \* ids of pets and names of users, but for NoPet and NoUser
    NoPet, NoUser,  \* id 0 and the empty name
    Stored,         \* what main puts into the maps (petArr and userArr)
    Requests        \* the requests; each PUT brings a value of its own

Keys == Pets \cup Users
NoKeys == {NoPet, NoUser}

\* What an entry holds: nothing, zeroes, what main put there, what a PUT
\* brought, or fields of several of these.
Absent == "absent"
Blank == "blank"
Initial == "initial"
Mixed == "mixed"
Values == {Blank, Initial, Mixed} \cup Requests

ASSUME KeysAssumption ==
    /\ Pets \cap Users = {} /\ NoPet # NoUser
    /\ NoKeys \cap Keys = {} /\ Stored \subseteq Keys
ASSUME StoredAssumption ==      \* neither map is empty
    Stored \cap Pets # {} /\ Stored \cap Users # {}
ASSUME RequestsAssumption ==
    Requests \cap {Absent, Blank, Initial, Mixed, "none", "refused"} = {}

VARIABLES
    server,     \* "up" or "fatal"
    entry,      \* entry[k]: petMapArr and userMapArr
    pc,         \* pc[r]: where the handler of r is
    op, key,    \* the method of r and the key it names
    must, seen, \* range: entries there at its start, entries it has been at
    reply,      \* reply[r]: what r was answered
    before      \* before[r]: the PUTs of its key answered when r was made

requestVars == <<op, key, before>>
vars == <<server, entry, pc, must, seen, reply, requestVars>>

Init ==
    /\ server = "up"
    /\ entry = [k \in Keys \cup NoKeys |-> IF k \in Stored THEN Initial ELSE Absent]
    /\ pc = [r \in Requests |-> "idle"]
    /\ op = [r \in Requests |-> "none"]
    /\ key = [r \in Requests |-> NoPet]
    /\ must = [r \in Requests |-> {}]
    /\ seen = [r \in Requests |-> {}]
    /\ reply = [r \in Requests |-> "none"]
    /\ before = [r \in Requests |-> {}]

\* The map that k is a key of.
Table(k) == IF k \in Pets \cup {NoPet} THEN Pets ELSE Users
Zero(k) == IF k \in Pets THEN NoPet ELSE NoUser
Entries(r) == {k \in Table(key[r]) : entry[k] # Absent}

\* Another handler is in the runtime, writing the same map.
MeetsWriter(r) ==
    \E q \in Requests \ {r} : pc[q] = "insert" /\ Table(key[q]) = Table(key[r])

Copying(k) == {q \in Requests : pc[q] \in {"copy", "mix"} /\ key[q] = k}

\* What a handler may find in the entry of k: while others copy, any of it.
Reads(k) ==
    LET whole == [id |-> IF entry[k] = Blank THEN Zero(k) ELSE k, value |-> entry[k]]
    IN  {whole}
        \cup [id : {k}, value : Copying(k)]
        \cup [id : {k, whole.id}, value : IF Copying(k) = {} THEN {} ELSE {Mixed}]

Answer(r, value) ==
    /\ reply' = [reply EXCEPT ![r] = value]
    /\ pc' = [pc EXCEPT ![r] = "done"]

AnsweredPuts(k) ==
    {p \in Requests : op[p] = "put" /\ key[p] = k /\ pc[p] = "done"}

-----------------------------------------------------------------------------
\* A client or the gateway makes a request.  The client's -param of PetById
\* is id 0 if it is not a number.
Call(r, o, k) ==
    /\ server = "up" /\ pc[r] = "idle"
    /\ pc' = [pc EXCEPT ![r] = "called"]
    /\ op' = [op EXCEPT ![r] = o]
    /\ key' = [key EXCEPT ![r] = k]
    /\ before' = [before EXCEPT ![r] = AnsweredPuts(k)]
    /\ UNCHANGED <<server, entry, must, seen, reply>>

\* Mutant: a pet with id 0 is stored.
BeginUnchecked(r) ==
    /\ server = "up" /\ pc[r] = "called" /\ ~MeetsWriter(r)
    /\ pc' = [pc EXCEPT ![r] = "range"]
    /\ must' = [must EXCEPT ![r] = Entries(r)]
    /\ UNCHANGED <<server, entry, seen, reply, requestVars>>

\* The checks of a PUT, and the start of the range over the map.
Begin(r) ==
    /\ server = "up" /\ pc[r] = "called"
    /\ \/ /\ op[r] = "put" /\ key[r] \in NoKeys
          /\ Answer(r, "refused")
          /\ UNCHANGED must
       \/ /\ op[r] = "get" \/ key[r] \notin NoKeys
          /\ ~MeetsWriter(r)
          /\ pc' = [pc EXCEPT ![r] = "range"]
          /\ must' = [must EXCEPT ![r] = Entries(r)]
          /\ UNCHANGED reply
    /\ UNCHANGED <<server, entry, seen, requestVars>>

\* Mutant: the lookup is over at the first entry that is another's.
LookOnce(r) ==
    /\ server = "up" /\ pc[r] = "range" /\ op[r] = "get" /\ ~MeetsWriter(r)
    /\ \E k \in Entries(r) : \E v \in Reads(k) :
        Answer(r, IF v.id = key[r] THEN v.value ELSE Absent)
    /\ UNCHANGED <<server, entry, must, seen, requestVars>>

\* Mutant: a lookup notes in the map that the entry was asked for.
LookNotes(r) ==
    /\ server = "up" /\ pc[r] = "range" /\ op[r] = "get" /\ ~MeetsWriter(r)
    /\ \E k \in Entries(r) \ seen[r] : \E v \in Reads(k) :
        /\ seen' = [seen EXCEPT ![r] = @ \cup {k}]
        /\ pc' = [pc EXCEPT ![r] = IF v.id = key[r] THEN "insert" ELSE @]
    /\ UNCHANGED <<server, entry, must, reply, requestVars>>

\* PetById, UserByName: the range of a lookup ends at the entry it looks for.
\* Entries made meanwhile may be passed over.
Look(r) ==
    /\ server = "up" /\ pc[r] = "range" /\ op[r] = "get" /\ ~MeetsWriter(r)
    /\ \/ \E k \in Entries(r) \ seen[r] : \E v \in Reads(k) :
            IF v.id = key[r] THEN Answer(r, v.value) /\ UNCHANGED seen
            ELSE /\ seen' = [seen EXCEPT ![r] = @ \cup {k}]
                 /\ UNCHANGED <<pc, reply>>
       \/ /\ must[r] \subseteq seen[r]
          /\ Answer(r, Absent)
          /\ UNCHANGED seen
    /\ UNCHANGED <<server, entry, must, requestVars>>

\* PetPUT, UserPUT: at every entry, whichever it is, the value is stored, and
\* at the end the entry is read for the answer.
Put(r) ==
    /\ server = "up" /\ pc[r] = "range" /\ op[r] = "put" /\ ~MeetsWriter(r)
    /\ \/ \E k \in Entries(r) \ seen[r] :
            /\ seen' = [seen EXCEPT ![r] = @ \cup {k}]
            /\ pc' = [pc EXCEPT ![r] = "insert"]
       \/ /\ must[r] \subseteq seen[r]
          /\ pc' = [pc EXCEPT ![r] = "reply"]
          /\ UNCHANGED seen
    /\ UNCHANGED <<server, entry, must, reply, requestVars>>

\* The runtime has found or made the entry; now the value is copied, together
\* with those of others that copy into the same entry.
Insert(r) ==
    /\ server = "up" /\ pc[r] = "insert"
    /\ entry' = [entry EXCEPT ![key[r]] = IF @ = Absent THEN Blank ELSE @]
    /\ pc' = [q \in Requests |->
                IF q \in Copying(key[r]) THEN "mix"
                ELSE IF q = r THEN (IF Copying(key[r]) = {} THEN "copy" ELSE "mix")
                ELSE pc[q]]
    /\ UNCHANGED <<server, must, seen, reply, requestVars>>

\* Mutant: an entry that was there is kept.
CopyIfBlank(r) ==
    /\ server = "up" /\ pc[r] \in {"copy", "mix"}
    /\ entry' = [entry EXCEPT ![key[r]] = IF @ = Blank THEN r ELSE @]
    /\ pc' = [pc EXCEPT ![r] = "range"]
    /\ UNCHANGED <<server, must, seen, reply, requestVars>>

Copy(r) ==
    /\ server = "up"
    /\ \/ pc[r] = "copy" /\ entry' = [entry EXCEPT ![key[r]] = r]
       \/ pc[r] = "mix" /\ \E v \in {r, Mixed} : entry' = [entry EXCEPT ![key[r]] = v]
    /\ pc' = [pc EXCEPT ![r] = "range"]
    /\ UNCHANGED <<server, must, seen, reply, requestVars>>

Reply(r) ==
    /\ server = "up" /\ pc[r] = "reply" /\ ~MeetsWriter(r)
    /\ \E v \in Reads(key[r]) : Answer(r, v.value)
    /\ UNCHANGED <<server, entry, must, seen, requestVars>>

Fatal(r) ==
    /\ server = "up" /\ MeetsWriter(r)
    /\ \/ pc[r] \in {"range", "reply"}
       \/ pc[r] = "called" /\ (op[r] = "get" \/ key[r] \notin NoKeys)
    /\ server' = "fatal"
    /\ UNCHANGED <<entry, pc, must, seen, reply, requestVars>>

Next == \E r \in Requests :
    \/ \E o \in {"get", "put"}, k \in Keys \cup NoKeys : Call(r, o, k)
    \/ Begin(r) \/ Look(r) \/ Put(r) \/ Insert(r) \/ Copy(r) \/ Reply(r) \/ Fatal(r)

Spec == Init /\ [][Next]_vars

-----------------------------------------------------------------------------
\* Every variable has its type, and nothing is stored under id 0 or no name.
TypeInv ==
    /\ server \in {"up", "fatal"}
    /\ entry \in [Keys \cup NoKeys -> Values \cup {Absent}]
    /\ \A k \in NoKeys : entry[k] = Absent
    /\ pc \in [Requests -> {"idle", "called", "range", "insert", "copy", "mix",
                            "reply", "done"}]
    /\ op \in [Requests -> {"none", "get", "put"}]
    /\ key \in [Requests -> Keys \cup NoKeys]
    /\ must \in [Requests -> SUBSET Keys] /\ seen \in [Requests -> SUBSET Keys]
    /\ reply \in [Requests -> Values \cup {Absent, "none", "refused"}]
    /\ before \in [Requests -> SUBSET Requests]

\* What was in the entry of k before the PUT p, and must not come back after it.
First(k) == IF k \in Stored THEN Initial ELSE Absent
Outdated(p) == before[p] \cup {First(key[p]), Blank, Absent}

\* While nobody puts k, its entry holds nothing that a PUT which is answered
\* has overwritten: no update is lost, although every PUT stores its value
\* many times, between the stores of others.
NoLostPut ==
    \A k \in Keys :
        (\A r \in Requests : op[r] = "put" /\ key[r] = k => pc[r] \in {"called", "done"})
            => \A p \in AnsweredPuts(k) : entry[k] \notin Outdated(p)

\* A PUT is answered with its own value or that of one that overlaps it, and a
\* lookup finds nothing older than the last PUT answered before it was made.
AnswersCurrent ==
    \A r \in Requests : pc[r] = "done" /\ key[r] \in Keys =>
        IF op[r] = "put" THEN reply[r] \notin Outdated(r)
        ELSE /\ \A p \in before[r] : reply[r] \notin Outdated(p)
             /\ key[r] \in Stored => reply[r] # Absent

\* Lookups do not hurt one another: the process dies only while a PUT is at work.
OnlyPutsKill ==
    [][server' # server =>
        \E r \in Requests : op[r] = "put" /\ pc[r] \notin {"called", "done"}]_vars
=============================================================================
