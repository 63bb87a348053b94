---------------------------- MODULE RestRequests ----------------------------
(***************************************************************************)
(* What RestApi promises about its requests: each one that was issued gets  *)
(* exactly one outcome, or is dropped when the client is destroyed; after   *)
(* that nothing happens any more.                                          *)
(***************************************************************************)
CONSTANT Requests

Outcomes == {"message", "rateLimited", "error"}

VARIABLES
    outcome,    \* per request: "unused", "pending", "dropped" or an outcome
    client      \* "open", "closing" (inside the destructor) or "closed"

Init ==
    /\ outcome = [r \in Requests |-> "unused"]
    /\ client = "open"

\* A callback may still issue a request while the destructor waits for it.
Issue(r) ==
    /\ client # "closed" /\ outcome[r] = "unused"
    /\ outcome' = [outcome EXCEPT ![r] = "pending"]
    /\ UNCHANGED client

Complete(r) ==
    /\ client # "closed" /\ outcome[r] = "pending"
    /\ \E o \in Outcomes : outcome' = [outcome EXCEPT ![r] = o]
    /\ UNCHANGED client

BeginClose ==
    /\ client = "open"
    /\ client' = "closing"
    /\ UNCHANGED outcome

Close ==
    /\ client = "closing"
    /\ client' = "closed"
    /\ outcome' = [r \in Requests |->
                     IF outcome[r] = "pending" THEN "dropped" ELSE outcome[r]]

Next ==
    \/ \E r \in Requests : Issue(r) \/ Complete(r)
    \/ BeginClose \/ Close

Spec == Init /\ [][Next]_<<outcome, client>>
=============================================================================
