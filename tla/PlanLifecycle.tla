------------------------------ MODULE PlanLifecycle ------------------------------
(***************************************************************************)
(* What the status of a plan promises to a client that polls it            *)
(* (GET /api/agent/{plan_id}, GET /api/jobs), with no mention of files,    *)
(* threads or caches: PlanStatus (agent/plan_memory.py) as a state machine. *)
(* The statuses and moves are those ManagerAgent's workflow uses; "failed"  *)
(* is declared by PlanStatus and no code assigns it.                       *)
(***************************************************************************)
CONSTANT PlanId

VARIABLE status

Drafted == {"planning", "awaiting_confirmation"}

Live == Drafted \cup {"confirmed", "rejected", "executing", "completed"}

Init == status = [p \in PlanId |-> "absent"]

Become(p, s) == status' = [status EXCEPT ![p] = s]

\* plan(): a request becomes a plan, or a plan with a question to answer.
Propose(p) == status[p] = "absent" /\ \E s \in Drafted : Become(p, s)

\* preview(), run_fan_out_preview(): any resolved plan awaits (again) a decision.
Present(p) == status[p] \in Live \ {"planning"} /\ Become(p, "awaiting_confirmation")

\* request_human_confirmation(): the human may decide, and decide again.
Decide(p) == status[p] \in Live /\ \E s \in {"confirmed", "rejected"} : Become(p, s)

\* execute(), execute_fan_out(): only a confirmed plan, and only once.
Start(p) == status[p] = "confirmed" /\ Become(p, "executing")

Finish(p) == status[p] = "executing" /\ Become(p, "completed")

Next == \E p \in PlanId : Propose(p) \/ Present(p) \/ Decide(p) \/ Start(p) \/ Finish(p)

Spec == Init /\ [][Next]_status
=============================================================================
