---------------------------- MODULE RequestService ----------------------------
(***************************************************************************)
(* What WebSocketServer.sendRequest promises a tool, whatever happens to   *)
(* the connection underneath: a request that is let through is settled     *)
(* once, with success only after the bridge has carried it out.  A request *)
(* that is settled otherwise may have been, or may yet be, carried out.    *)
(***************************************************************************)
CONSTANT Reqs   \* the requests

VARIABLES
    status,     \* what the caller of each request knows
    effect      \* how far the bridge has got with it

svars == <<status, effect>>

Failures == {"error", "timeout", "transport_error"}
Outcomes == Failures \cup {"success"}
Statuses == {"idle", "refused", "pending"} \cup Outcomes
Effects  == {"none", "running", "done"}

Init ==
    /\ status = [r \in Reqs |-> "idle"]
    /\ effect = [r \in Reqs |-> "none"]

Submit(r) ==
    /\ status[r] = "idle"
    /\ \E outcome \in {"pending", "refused", "transport_error"} :
          status' = [status EXCEPT ![r] = outcome]
    /\ UNCHANGED effect

Begin(r) ==
    /\ effect[r] = "none" /\ status[r] \notin {"idle", "refused", "transport_error"}
    /\ effect' = [effect EXCEPT ![r] = "running"]
    /\ UNCHANGED status

Complete(r) ==
    /\ effect[r] = "running"
    /\ effect' = [effect EXCEPT ![r] = "done"]
    /\ UNCHANGED status

Succeed(r) ==
    /\ status[r] = "pending" /\ effect[r] = "done"
    /\ status' = [status EXCEPT ![r] = "success"]
    /\ UNCHANGED effect

\* Requests fail one at a time or, when the connection is lost, together.
Fail(R) ==
    /\ \A r \in R : status[r] = "pending"
    /\ \E failure \in {"error", "timeout"} :
          status' = [r \in Reqs |-> IF r \in R THEN failure ELSE status[r]]
    /\ UNCHANGED effect

Next ==
    \/ \E r \in Reqs : Submit(r) \/ Begin(r) \/ Complete(r) \/ Succeed(r)
    \/ \E R \in SUBSET Reqs : Fail(R)

Spec == Init /\ [][Next]_svars
=============================================================================
