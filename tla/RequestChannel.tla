--------------------------- MODULE RequestChannel ---------------------------
(***************************************************************************)
(* What BrokerConnection.send() promises its callers, with no socket, no   *)
(* correlation id and no timer: a call is pending from the moment it is    *)
(* accepted until it is settled, once, and only with its own response.     *)
(***************************************************************************)
CONSTANTS Requests, NoAnswer

VARIABLES status, answer

vars == <<status, answer>>

Init ==
    /\ status = [r \in Requests |-> "idle"]
    /\ answer = [r \in Requests |-> NoAnswer]

\* A call that is not pending may be made (again), with no answer yet.
Issue(r) ==
    /\ status[r] # "pending"
    /\ status' = [status EXCEPT ![r] = "pending"]
    /\ answer' = [answer EXCEPT ![r] = NoAnswer]

\* It may also be refused at once.
Refuse(r) ==
    /\ status[r] # "pending"
    /\ status' = [status EXCEPT ![r] = "rejected"]
    /\ answer' = [answer EXCEPT ![r] = NoAnswer]

\* Pending calls get their responses, each its own.
Answer(R) ==
    /\ \A r \in R : status[r] = "pending"
    /\ status' = [r \in Requests |-> IF r \in R THEN "resolved" ELSE status[r]]
    /\ answer' = [r \in Requests |-> IF r \in R THEN r ELSE answer[r]]

\* Any number of pending calls fail together.
Fail(R) ==
    /\ \A r \in R : status[r] = "pending"
    /\ status' = [r \in Requests |-> IF r \in R THEN "rejected" ELSE status[r]]
    /\ UNCHANGED answer

Next ==
    \/ \E r \in Requests : Issue(r) \/ Refuse(r)
    \/ \E R \in SUBSET Requests : Answer(R) \/ Fail(R)

Spec == Init /\ [][Next]_vars
=============================================================================
