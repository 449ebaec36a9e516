------------------------ MODULE EftlPublishContract ------------------------
(***************************************************************************)
(* What Publish and PublishAsync promise of each message: it is published   *)
(* once, its Completion is reported once, with one outcome, and outcomes    *)
(* are reported in the order in which the messages were published.          *)
(***************************************************************************)
EXTENDS Naturals

CONSTANT MaxPub     \* bound: publishes

Messages == 1..MaxPub

VARIABLE status     \* status[n] of the n-th message published

Outcomes == {"ok", "err"}
Statuses == {"new", "pending"} \cup Outcomes

ContractTypeOK == status \in [Messages -> Statuses]

ContractInit == status = [n \in Messages |-> "new"]

PublishNext(n) ==
    /\ status[n] = "new"
    /\ \A m \in Messages : m < n => status[m] # "new"
    /\ status' = [status EXCEPT ![n] = "pending"]

Report(n) ==
    /\ status[n] = "pending"
    /\ \A m \in Messages : m < n => status[m] \in Outcomes
    /\ \E o \in Outcomes : status' = [status EXCEPT ![n] = o]

ContractNext == \E n \in Messages : PublishNext(n) \/ Report(n)

ContractSpec == ContractInit /\ [][ContractNext]_status
=============================================================================
