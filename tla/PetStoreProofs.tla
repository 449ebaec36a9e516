--------------------------- MODULE PetStoreProofs ---------------------------
(***************************************************************************)
(* No answered PUT is lost, no answer is outdated, and only PUTs end the    *)
(* process, for any number of requests, pets and users.                     *)
(***************************************************************************)
EXTENDS PetStore, TLAPS

Storing == {"insert", "copy", "mix"}

\* The PUT p has stored its value once and is not about to do it again.
Written(p) ==
    /\ op[p] = "put" /\ key[p] \in Keys
    /\ pc[p] \in {"reply", "done"} \/ (pc[p] = "range" /\ seen[p] # {})

\* Where requests are.  As no map is empty, a PUT meets an entry and stores its
\* value before it answers.
WhereInv ==
    \A r \in Requests :
        /\ pc[r] \in Storing \cup {"reply"} => op[r] = "put"
        /\ op[r] = "put" /\ pc[r] \in Storing \cup {"range", "reply"} => key[r] \in Keys
        /\ op[r] = "put" /\ pc[r] \in Storing \cup {"range"} => must[r] # {}
        /\ pc[r] \in Storing => seen[r] # {}
        /\ pc[r] \in {"idle", "called"} => seen[r] = {}
        /\ \A p \in before[r] : op[p] = "put" /\ key[p] = key[r] /\ pc[p] = "done"

\* Once p has stored its value, its entry only gets values of PUTs that are at
\* work, and none of those was answered before p was made.
EntryInv ==
    /\ \A k \in Stored : entry[k] \notin {Absent, Blank}
    /\ \A p \in Requests : Written(p) => entry[key[p]] \notin Outdated(p)

\* A lookup for what was there when it was made has not been at its entry.
LookInv ==
    \A r \in Requests :
        op[r] = "get" /\ pc[r] = "range" /\ key[r] \in Keys
            /\ (key[r] \in Stored \/ before[r] # {}) => key[r] \in must[r] \ seen[r]

Inv == TypeInv /\ WhereInv /\ EntryInv /\ LookInv /\ AnswersCurrent

LEMMA Constants ==
    /\ Absent # Blank /\ Absent # Initial /\ Absent # Mixed
    /\ Blank # Initial /\ Blank # Mixed /\ Initial # Mixed
    /\ \A r \in Requests : r \notin {Absent, Blank, Initial, Mixed, "none", "refused"}
    /\ \A k \in Keys : k \notin NoKeys /\ First(k) \in {Initial, Absent}
  BY RequestsAssumption, KeysAssumption DEF Absent, Blank, Initial, Mixed, First

LEMMA TableFacts ==
    ASSUME NEW k \in Keys \cup NoKeys
    PROVE  /\ Table(k) \subseteq Keys
           /\ k \in Keys => k \in Table(k)
           /\ \E s \in Stored : s \in Table(k)
<1>1. Table(k) \subseteq Keys
  BY DEF Table, Keys
<1>2. k \in Keys => k \in Table(k)
  BY KeysAssumption DEF Table, Keys, NoKeys
<1>3. \E s \in Stored : s \in Table(k)
  BY StoredAssumption DEF Table
<1> QED  BY <1>1, <1>2, <1>3

\* What is read in the entry k by the name k is a value, and is what the entry
\* holds or what a PUT at work brings.
LEMMA ReadsFacts ==
    ASSUME TypeInv, NEW k \in Keys, entry[k] # Absent, NEW v \in Reads(k)
    PROVE  /\ v.value \in Values
           /\ v.value \in {entry[k], Mixed} \cup Copying(k)
           /\ v.value = Mixed => entry[k] = Mixed \/ Copying(k) # {}
           /\ v.id = k \/ (v.id \in NoKeys /\ entry[k] = Blank)
<1> DEFINE whole == [id |-> IF entry[k] = Blank THEN Zero(k) ELSE k, value |-> entry[k]]
<1>1. Copying(k) \subseteq Requests
  BY DEF Copying
<1>2. entry[k] \in Values
  BY DEF TypeInv
<1>3. whole.id = k \/ (whole.id \in NoKeys /\ entry[k] = Blank)
  BY DEF Zero, NoKeys
<1>4. CASE v = whole
  BY <1>2, <1>3, <1>4
<1>5. CASE v \in [id : {k}, value : Copying(k)]
  BY <1>1, <1>5 DEF Values
<1>6. CASE v \in [id : {k, whole.id}, value : IF Copying(k) = {} THEN {} ELSE {Mixed}]
  BY <1>3, <1>6 DEF Values
<1> HIDE DEF whole
<1> QED  BY <1>4, <1>5, <1>6 DEF Reads, whole

LEMMA InvInit == Init => Inv
<1> SUFFICES ASSUME Init PROVE Inv
  OBVIOUS
<1> USE DEF Init
<1>1. TypeInv
  BY KeysAssumption DEF TypeInv, Values, NoKeys
<1>2. WhereInv  BY DEF WhereInv, Storing
<1>3. EntryInv
  BY Constants, KeysAssumption DEF EntryInv, Written
<1>4. LookInv /\ AnswersCurrent  BY DEF LookInv, AnswersCurrent
<1> QED  BY <1>1, <1>2, <1>3, <1>4 DEF Inv

-----------------------------------------------------------------------------
(* One lemma for each action; r is the request that takes the step. *)

LEMMA CallInv ==
    ASSUME Inv, NEW r \in Requests, NEW o \in {"get", "put"},
           NEW k \in Keys \cup NoKeys, Call(r, o, k)
    PROVE  Inv'
<1> USE DEF Inv, Call
<1>1. TypeInv'
  BY DEF TypeInv, AnsweredPuts
<1>2. \A p \in AnsweredPuts(k) : p # r /\ op[p] = "put" /\ key[p] = k /\ pc[p] = "done"
  BY DEF AnsweredPuts
<1>3. WhereInv'
  BY <1>2 DEF WhereInv, Storing, TypeInv
<1>4. EntryInv'
  <2>1. ASSUME NEW p \in Requests, Written(p)' PROVE Written(p) /\ Outdated(p)' = Outdated(p) /\ key'[p] = key[p]
    BY <2>1 DEF Written, Outdated, First, TypeInv
  <2> QED  BY <2>1 DEF EntryInv
<1>5. LookInv'
  BY DEF LookInv, TypeInv
<1>6. AnswersCurrent'
  <2> SUFFICES ASSUME NEW q \in Requests, (pc[q] = "done")', (key[q] \in Keys)'
               PROVE  IF (op[q] = "put")' THEN (reply[q] \notin Outdated(q))'
                      ELSE /\ \A p \in (before[q])' : (reply[q])' \notin Outdated(p)'
                           /\ key[q]' \in Stored => reply[q]' # Absent
    BY DEF AnswersCurrent
  <2>1. q # r /\ pc[q] = "done" /\ op'[q] = op[q] /\ key'[q] = key[q] /\ before'[q] = before[q]
    BY DEF TypeInv
  <2>2. \A p \in before[q] : p \in Requests /\ p # r
    BY <2>1 DEF WhereInv, TypeInv
  <2>3. \A p \in before[q] \cup {q} : Outdated(p)' = Outdated(p)
    BY <2>1, <2>2 DEF Outdated, First, TypeInv
  <2> QED  BY <2>1, <2>3 DEF AnswersCurrent
<1> QED  BY <1>1, <1>3, <1>4, <1>5, <1>6

\* All other steps leave op, key and before alone: what is outdated stays so.
LEMMA OutdatedStays ==
    ASSUME UNCHANGED requestVars, NEW p
    PROVE  Outdated(p)' = Outdated(p)
  BY DEF requestVars, Outdated, First

\* An entry something was stored in is found by whoever begins later.
LEMMA BeginInv ==
    ASSUME Inv, NEW r \in Requests, Begin(r)
    PROVE  Inv'
<1> USE DEF Inv, Begin, Answer, requestVars
<1>0. /\ key[r] \in Keys \cup NoKeys /\ pc[r] = "called" /\ seen[r] = {}
      /\ Entries(r) \subseteq Keys
      /\ \E s \in Stored : s \in Entries(r)
      /\ key[r] \in Keys /\ (key[r] \in Stored \/ before[r] # {}) => key[r] \in Entries(r)
  <2>1. key[r] \in Keys \cup NoKeys /\ pc[r] = "called" /\ seen[r] = {}
    BY DEF TypeInv, WhereInv
  <2>2. \E s \in Stored : s \in Entries(r)
    BY <2>1, TableFacts DEF EntryInv, Entries
  <2>3. ASSUME key[r] \in Keys, before[r] # {} PROVE entry[key[r]] # Absent
    <3> PICK p \in before[r] : TRUE  BY <2>3
    <3>1. p \in Requests /\ Written(p) /\ key[p] = key[r]
      BY <2>3 DEF WhereInv, Written, TypeInv
    <3> QED  BY <3>1 DEF EntryInv, Outdated
  <2>4. key[r] \in Keys /\ (key[r] \in Stored \/ before[r] # {}) => key[r] \in Entries(r)
    BY <2>1, <2>3, TableFacts DEF EntryInv, Entries
  <2> QED  BY <2>1, <2>2, <2>4, TableFacts DEF Entries
<1>1. TypeInv'
  BY <1>0 DEF TypeInv
<1>2. WhereInv'
  BY <1>0, KeysAssumption DEF WhereInv, Storing, TypeInv
<1>3. EntryInv'
  <2>1. \A p \in Requests : Written(p)' => Written(p)
    BY <1>0, Constants DEF Written, TypeInv
  <2> QED  BY <2>1, OutdatedStays DEF EntryInv
<1>4. LookInv'
  BY <1>0 DEF LookInv, TypeInv
<1>5. AnswersCurrent'
  <2>1. \A q \in Requests : pc'[q] = "done" /\ key[q] \in Keys => pc[q] = "done" /\ reply'[q] = reply[q]
    BY <1>0, Constants DEF TypeInv
  <2> QED  BY <2>1, OutdatedStays DEF AnswersCurrent
<1> QED  BY <1>1, <1>2, <1>3, <1>4, <1>5

\* What a PUT p has made outdated before r was made is not found any more.
LEMMA LookInvNext ==
    ASSUME Inv, NEW r \in Requests, Look(r)
    PROVE  Inv'
<1> USE DEF Inv, requestVars
<1>1. UNCHANGED <<server, entry, must, requestVars>>
  BY DEF Look
<1>2. op[r] = "get" /\ pc[r] = "range" /\ key[r] \in Keys \cup NoKeys
  BY DEF Look, TypeInv
<1>3. ASSUME key[r] \in Keys, key[r] \in Stored \/ before[r] # {}
      PROVE  entry[key[r]] \notin {Absent, Blank}
  <2>1. CASE key[r] \in Stored
    BY <2>1 DEF EntryInv
  <2>2. CASE before[r] # {}
    <3> PICK p \in before[r] : TRUE  BY <2>2
    <3>1. p \in Requests /\ Written(p) /\ key[p] = key[r]
      BY <1>3 DEF WhereInv, Written, TypeInv
    <3> QED  BY <3>1 DEF EntryInv, Outdated
  <2> QED  BY <1>3, <2>1, <2>2
<1>4. CASE \E k \in Entries(r) \ seen[r] : \E v \in Reads(k) :
             v.id = key[r] /\ Answer(r, v.value) /\ UNCHANGED seen
  <2> PICK k \in Entries(r) \ seen[r] : \E v \in Reads(k) :
             v.id = key[r] /\ Answer(r, v.value) /\ UNCHANGED seen
    BY <1>4
  <2> PICK v \in Reads(k) :
             v.id = key[r] /\ Answer(r, v.value) /\ UNCHANGED seen
    OBVIOUS
  <2> USE DEF Answer
  <2>1. k \in Keys /\ entry[k] # Absent
    BY <1>2, TableFacts DEF Entries
  <2>2. /\ v.value \in Values
        /\ v.value \in {entry[k], Mixed} \cup Copying(k)
        /\ v.id = k \/ v.id \in NoKeys
    BY <2>1, ReadsFacts
  <2>3. key[r] \in Keys => k = key[r]
    BY <2>2, Constants
  <2>4. TypeInv'
    BY <1>1, <2>2 DEF TypeInv
  <2>5. WhereInv'
    BY <1>1, <1>2 DEF WhereInv, Storing, TypeInv
  <2>6. EntryInv'
    <3>1. \A p \in Requests : Written(p)' => Written(p)
      BY <1>1, <1>2 DEF Written, TypeInv
    <3> QED  BY <1>1, <3>1, OutdatedStays DEF EntryInv
  <2>7. LookInv'
    BY <1>1, <1>2 DEF LookInv, TypeInv
  <2>8. ASSUME key[r] \in Keys, NEW p \in before[r] PROVE v.value \notin Outdated(p)
    <3>1. p \in Requests /\ Written(p) /\ key[p] = key[r]
      BY <2>8 DEF WhereInv, Written, TypeInv
    <3>2. entry[k] \notin Outdated(p)
      BY <3>1, <2>3, <2>8 DEF EntryInv
    <3>3. ASSUME NEW q \in Copying(k) PROVE q \notin Outdated(p)
      <4>1. q \in Requests /\ pc[q] # "done"
        BY DEF Copying
      <4>2. q \notin before[p]
        BY <3>1, <4>1 DEF WhereInv
      <4> QED  BY <4>1, <4>2, <3>1, Constants DEF Outdated, Written
    <3>4. Mixed \notin Outdated(p)
      BY <3>1, Constants DEF Outdated, Written, WhereInv, TypeInv
    <3> QED  BY <2>2, <3>2, <3>3, <3>4
  <2>9. key[r] \in Stored => v.value # Absent
    BY <2>2, Constants DEF Values
  <2>10. AnswersCurrent'
    <3>1. \A q \in Requests : q # r /\ pc'[q] = "done" => pc[q] = "done" /\ reply'[q] = reply[q]
      BY DEF TypeInv
    <3>2. reply'[r] = v.value
      BY DEF TypeInv
    <3> QED  BY <1>1, <1>2, <2>8, <2>9, <3>1, <3>2, OutdatedStays DEF AnswersCurrent
  <2> QED  BY <2>4, <2>5, <2>6, <2>7, <2>10
<1>5. CASE \E k \in Entries(r) \ seen[r] : \E v \in Reads(k) :
             v.id # key[r] /\ seen' = [seen EXCEPT ![r] = @ \cup {k}] /\ UNCHANGED <<pc, reply>>
  <2> PICK k \in Entries(r) \ seen[r] : \E v \in Reads(k) :
             v.id # key[r] /\ seen' = [seen EXCEPT ![r] = @ \cup {k}] /\ UNCHANGED <<pc, reply>>
    BY <1>5
  <2> PICK v \in Reads(k) :
             v.id # key[r] /\ seen' = [seen EXCEPT ![r] = @ \cup {k}] /\ UNCHANGED <<pc, reply>>
    OBVIOUS
  <2>1. k \in Keys /\ entry[k] # Absent
    BY <1>2, TableFacts DEF Entries
  <2>2. v.id = k \/ entry[k] = Blank
    BY <2>1, ReadsFacts
  <2>3. TypeInv'
    BY <1>1, <2>1 DEF TypeInv
  <2>4. WhereInv'
    BY <1>1, <1>2 DEF WhereInv, Storing, TypeInv
  <2>5. EntryInv'
    <3>1. \A p \in Requests : Written(p)' => Written(p)
      BY <1>1, <1>2 DEF Written, TypeInv
    <3> QED  BY <1>1, <3>1, OutdatedStays DEF EntryInv
  <2>6. LookInv'
    BY <1>1, <1>3, <2>2 DEF LookInv, TypeInv
  <2>7. AnswersCurrent'
    BY <1>1, OutdatedStays DEF AnswersCurrent
  <2> QED  BY <2>3, <2>4, <2>5, <2>6, <2>7
<1>6. CASE must[r] \subseteq seen[r] /\ Answer(r, Absent) /\ UNCHANGED seen
  <2> USE <1>6 DEF Answer
  <2>1. ~(key[r] \in Keys /\ (key[r] \in Stored \/ before[r] # {}))
    BY <1>2 DEF LookInv
  <2>2. TypeInv'
    BY <1>1 DEF TypeInv
  <2>3. WhereInv'
    BY <1>1, <1>2 DEF WhereInv, Storing, TypeInv
  <2>4. EntryInv'
    <3>1. \A p \in Requests : Written(p)' => Written(p)
      BY <1>1, <1>2 DEF Written, TypeInv
    <3> QED  BY <1>1, <3>1, OutdatedStays DEF EntryInv
  <2>5. LookInv'
    BY <1>1, <1>2 DEF LookInv, TypeInv
  <2>6. AnswersCurrent'
    <3>1. \A q \in Requests : q # r /\ pc'[q] = "done" => pc[q] = "done" /\ reply'[q] = reply[q]
      BY DEF TypeInv
    <3> QED  BY <1>1, <1>2, <2>1, <3>1, OutdatedStays DEF AnswersCurrent
  <2> QED  BY <2>2, <2>3, <2>4, <2>5, <2>6
<1> QED  BY <1>4, <1>5, <1>6 DEF Look

LEMMA PutInv ==
    ASSUME Inv, NEW r \in Requests, Put(r)
    PROVE  Inv'
<1> USE DEF Inv, requestVars
<1>1. UNCHANGED <<server, entry, must, reply, requestVars>>
  BY DEF Put
<1>2. op[r] = "put" /\ pc[r] = "range" /\ key[r] \in Keys /\ must[r] # {}
  BY DEF Put, WhereInv
<1>3. \/ \E k \in Keys : seen' = [seen EXCEPT ![r] = @ \cup {k}]
                         /\ pc' = [pc EXCEPT ![r] = "insert"]
      \/ pc' = [pc EXCEPT ![r] = "reply"] /\ seen' = seen /\ seen[r] # {}
  BY <1>2, TableFacts DEF Put, Entries
<1>4. TypeInv'
  BY <1>1, <1>3 DEF TypeInv
<1>5. WhereInv'
  BY <1>1, <1>2, <1>3 DEF WhereInv, Storing, TypeInv
<1>6. EntryInv'
  <2>1. \A p \in Requests : Written(p)' => Written(p)
    BY <1>1, <1>2, <1>3 DEF Written, TypeInv
  <2> QED  BY <1>1, <2>1, OutdatedStays DEF EntryInv
<1>7. LookInv'
  BY <1>1, <1>2, <1>3 DEF LookInv, TypeInv
<1>8. AnswersCurrent'
  <2>1. \A q \in Requests : pc'[q] = "done" => pc[q] = "done"
    BY <1>3 DEF TypeInv
  <2> QED  BY <1>1, <2>1, OutdatedStays DEF AnswersCurrent
<1> QED  BY <1>4, <1>5, <1>6, <1>7, <1>8

LEMMA InsertInv ==
    ASSUME Inv, NEW r \in Requests, Insert(r)
    PROVE  Inv'
<1> USE DEF Inv, requestVars
<1>1. UNCHANGED <<server, must, seen, reply, requestVars>>
  BY DEF Insert
<1>2. op[r] = "put" /\ key[r] \in Keys /\ pc[r] = "insert"
  BY DEF Insert, WhereInv, Storing
<1>3. entry' = [entry EXCEPT ![key[r]] = IF @ = Absent THEN Blank ELSE @]
  BY DEF Insert
<1>4. /\ pc' \in [Requests -> {"idle", "called", "range", "insert", "copy", "mix",
                               "reply", "done"}]
      /\ \A q \in Requests : \/ pc'[q] = pc[q]
                             \/ pc[q] \in Storing /\ pc'[q] \in Storing
  BY <1>2 DEF Insert, Copying, Storing, TypeInv
<1>5. TypeInv'
  BY <1>1, <1>2, <1>3, <1>4, Constants DEF TypeInv, Values
<1>6. WhereInv'
  <2>1. \A q \in Requests : pc[q] = "done" => pc'[q] = "done"
    BY <1>4 DEF Storing
  <2>2. ASSUME NEW q \in Requests
        PROVE /\ pc'[q] \in Storing <=> pc[q] \in Storing
              /\ pc'[q] \notin Storing => pc'[q] = pc[q]
    BY <1>4 DEF Storing
  <2>3. \A q \in Requests : before[q] \subseteq Requests
    BY DEF TypeInv
  <2> QED  BY <1>1, <2>1, <2>2, <2>3 DEF WhereInv, Storing
<1>7. EntryInv'
  <2>1. \A p \in Requests : Written(p)' => Written(p)
    BY <1>1, <1>4 DEF Written, Storing
  <2>2. \A k \in Keys : entry[k] # Absent => entry'[k] = entry[k]
    BY <1>3 DEF TypeInv
  <2>3. \A p \in Requests : Written(p) => entry[key[p]] # Absent /\ key[p] \in Keys
    BY DEF EntryInv, Outdated, Written
  <2>4. Stored \subseteq Keys
    BY KeysAssumption
  <2> QED  BY <1>1, <2>1, <2>2, <2>3, <2>4, OutdatedStays DEF EntryInv
<1>8. LookInv'
  BY <1>1, <1>4 DEF LookInv, Storing
<1>9. AnswersCurrent'
  <2>1. \A q \in Requests : pc'[q] = "done" => pc[q] = "done"
    BY <1>4 DEF Storing
  <2> QED  BY <1>1, <2>1, OutdatedStays DEF AnswersCurrent
<1> QED  BY <1>5, <1>6, <1>7, <1>8, <1>9

LEMMA CopyInv ==
    ASSUME Inv, NEW r \in Requests, Copy(r)
    PROVE  Inv'
<1> USE DEF Inv, requestVars
<1>1. UNCHANGED <<server, must, seen, reply, requestVars>>
  BY DEF Copy
<1>2. op[r] = "put" /\ key[r] \in Keys /\ pc[r] \in {"copy", "mix"} /\ seen[r] # {}
  BY DEF Copy, WhereInv, Storing
<1>3. pc' = [pc EXCEPT ![r] = "range"]
  BY DEF Copy
<1> PICK v \in {r, Mixed} : entry' = [entry EXCEPT ![key[r]] = v]
  BY DEF Copy
<1>4. TypeInv'
  BY <1>1, <1>2, <1>3, Constants DEF TypeInv, Values
<1>5. WhereInv'
  <2> QED  BY <1>1, <1>2, <1>3 DEF WhereInv, Storing, TypeInv
<1>6. EntryInv'
  <2>1. v \notin {Absent, Blank, Initial}
    BY Constants
  <2>2. ASSUME NEW p \in Requests, op[p] = "put", key[p] = key[r] PROVE v \notin Outdated(p)
    <3>1. r \notin before[p]
      BY <1>2 DEF WhereInv
    <3>2. Mixed \notin before[p]
      BY Constants DEF TypeInv
    <3> QED  BY <2>1, <2>2, <3>1, <3>2, <1>2, Constants DEF Outdated
  <2>3. ASSUME NEW p \in Requests, Written(p)' PROVE (entry[key[p]] \notin Outdated(p))'
    <3>1. CASE key[p] = key[r]
      BY <1>1, <1>2, <2>2, <2>3, <3>1, OutdatedStays DEF Written, TypeInv
    <3>2. CASE key[p] # key[r]
      <4>1. p # r /\ Written(p)
        BY <1>1, <1>3, <2>3, <3>2 DEF Written, TypeInv
      <4> QED  BY <1>1, <3>2, <4>1, OutdatedStays DEF EntryInv, TypeInv
    <3> QED  BY <3>1, <3>2
  <2>4. \A k \in Stored : entry'[k] \notin {Absent, Blank}
    BY <2>1, KeysAssumption DEF EntryInv, TypeInv
  <2> QED  BY <2>3, <2>4 DEF EntryInv
<1>7. LookInv'
  BY <1>1, <1>2, <1>3 DEF LookInv, TypeInv
<1>8. AnswersCurrent'
  <2>1. \A q \in Requests : pc'[q] = "done" => pc[q] = "done"
    BY <1>3 DEF TypeInv
  <2> QED  BY <1>1, <2>1, OutdatedStays DEF AnswersCurrent
<1> QED  BY <1>4, <1>5, <1>6, <1>7, <1>8

LEMMA ReplyInv ==
    ASSUME Inv, NEW r \in Requests, Reply(r)
    PROVE  Inv'
<1> USE DEF Inv, requestVars, Answer
<1> DEFINE k == key[r]
<1>1. UNCHANGED <<server, entry, must, seen, requestVars>>
  BY DEF Reply
<1>2. op[r] = "put" /\ k \in Keys /\ pc[r] = "reply" /\ Written(r)
  BY DEF Reply, WhereInv, Storing, Written
<1>3. entry[k] \notin Outdated(r)
  BY <1>2 DEF EntryInv
<1> PICK v \in Reads(k) : Answer(r, v.value)
  BY DEF Reply
<1>4. entry[k] # Absent
  BY <1>3 DEF Outdated
<1>5. v.value \in Values /\ v.value \in {entry[k], Mixed} \cup Copying(k)
  BY <1>2, <1>4, ReadsFacts
<1>6. v.value \notin Outdated(r)
  <2>1. ASSUME NEW q \in Copying(k) PROVE q \notin Outdated(r)
    <3>1. q \in Requests /\ pc[q] # "done"
      BY DEF Copying
    <3> QED  BY <1>2, <3>1, Constants DEF Outdated, WhereInv
  <2>2. Mixed \notin Outdated(r)
    BY <1>2, Constants DEF Outdated, TypeInv
  <2> QED  BY <1>3, <1>5, <2>1, <2>2
<1>7. TypeInv'
  BY <1>1, <1>5 DEF TypeInv
<1>8. WhereInv'
  BY <1>1, <1>2 DEF WhereInv, Storing, TypeInv
<1>9. EntryInv'
  <2>1. \A p \in Requests : Written(p)' => Written(p)
    BY <1>1, <1>2 DEF Written, TypeInv
  <2> QED  BY <1>1, <2>1, OutdatedStays DEF EntryInv
<1>10. LookInv'
  BY <1>1, <1>2 DEF LookInv, TypeInv
<1>11. AnswersCurrent'
  <2>1. \A q \in Requests : q # r /\ pc'[q] = "done" => pc[q] = "done" /\ reply'[q] = reply[q]
    BY DEF TypeInv
  <2>2. reply'[r] = v.value
    BY DEF TypeInv
  <2> QED  BY <1>1, <1>2, <1>6, <2>1, <2>2, OutdatedStays DEF AnswersCurrent
<1> QED  BY <1>7, <1>8, <1>9, <1>10, <1>11

LEMMA FatalInv ==
    ASSUME Inv, NEW r \in Requests, Fatal(r)
    PROVE  Inv'
<1>1. UNCHANGED <<entry, pc, must, seen, reply, requestVars>> /\ server' \in {"up", "fatal"}
  BY DEF Fatal, vars, Inv, TypeInv
<1>2. \A p : Written(p)' = Written(p)
  BY <1>1 DEF Written, requestVars
<1> USE <1>1, OutdatedStays DEF Inv, requestVars
<1>3. TypeInv' /\ WhereInv'  BY DEF TypeInv, WhereInv
<1>4. EntryInv' /\ LookInv' /\ AnswersCurrent'
  BY <1>2 DEF EntryInv, LookInv, AnswersCurrent
<1> QED  BY <1>3, <1>4

LEMMA InvNext == Inv /\ [Next]_vars => Inv'
<1> SUFFICES ASSUME Inv, [Next]_vars PROVE Inv'
  OBVIOUS
<1>1. CASE Next
  <2> PICK r \in Requests :
        \/ \E o \in {"get", "put"}, k \in Keys \cup NoKeys : Call(r, o, k)
        \/ Begin(r) \/ Look(r) \/ Put(r) \/ Insert(r) \/ Copy(r) \/ Reply(r) \/ Fatal(r)
    BY <1>1 DEF Next
  <2> QED  BY CallInv, BeginInv, LookInvNext, PutInv, InsertInv, CopyInv, ReplyInv, FatalInv
<1>2. CASE UNCHANGED vars
  BY <1>2, OutdatedStays DEF vars, requestVars, Inv, TypeInv, WhereInv, EntryInv,
     LookInv, AnswersCurrent, Written
<1> QED  BY <1>1, <1>2

LEMMA InvCorrect == Spec => []Inv
  BY InvInit, InvNext, PTL DEF Spec

-----------------------------------------------------------------------------
\* Every variable keeps its type, and nothing is stored without an id or name.
THEOREM PetTypeCorrect == Spec => []TypeInv
<1>1. Inv => TypeInv
  BY DEF Inv
<1> QED  BY <1>1, InvCorrect, PTL

\* An update that was answered is not undone by an older one, although every
\* PUT stores its value many times.
THEOREM PutsKept == Spec => []NoLostPut
<1>1. ASSUME Inv, NEW k \in Keys, NEW p \in AnsweredPuts(k)
      PROVE  entry[k] \notin Outdated(p)
  <2>1. p \in Requests /\ Written(p) /\ key[p] = k
    BY DEF AnsweredPuts, Written
  <2> QED  BY <1>1, <2>1 DEF Inv, EntryInv
<1>2. Inv => NoLostPut
  BY <1>1 DEF NoLostPut
<1> QED  BY <1>2, InvCorrect, PTL

\* No request is answered with what was overwritten before it was made.
THEOREM AnswersStayCurrent == Spec => []AnswersCurrent
<1>1. Inv => AnswersCurrent
  BY DEF Inv
<1> QED  BY <1>1, InvCorrect, PTL

\* The process ends only while a PUT is at work.
THEOREM PutsKill == Spec => OnlyPutsKill
<1>1. ASSUME Inv, [Next]_vars, server' # server
      PROVE  \E r \in Requests : op[r] = "put" /\ pc[r] \notin {"called", "done"}
  <2> PICK r \in Requests : Fatal(r)
    BY <1>1 DEF Next, vars, Call, Begin, Look, Put, Insert, Copy, Reply
  <2> PICK q \in Requests : pc[q] = "insert"
    BY DEF Fatal, MeetsWriter
  <2> QED  BY <1>1 DEF Inv, WhereInv, Storing
<1>2. Inv /\ [Next]_vars => [server' # server =>
        \E r \in Requests : op[r] = "put" /\ pc[r] \notin {"called", "done"}]_vars
  BY <1>1
<1> QED  BY <1>2, InvCorrect, PTL DEF Spec, OnlyPutsKill
=============================================================================
