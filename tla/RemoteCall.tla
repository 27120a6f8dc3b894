----------------------------- MODULE RemoteCall -----------------------------
(***************************************************************************)
(* What a workspace operation of the harness promises its caller, whatever *)
(* carries it: it is answered at most once, only by work that was done, and*)
(* a caller that gave up stays without an answer.                          *)
(***************************************************************************)
CONSTANT Requests

VARIABLES
  status,  \* what the caller knows
  work     \* what has become of the work it asked for

vars == <<status, work>>

Answers == {"ok", "error"}
Reasons == {"timeout", "cancelled", "failed"}
Statuses == {"idle", "pending"} \cup Answers \cup Reasons
Works == {"none", "running", "stopped"} \cup Answers

Init == status = [r \in Requests |-> "idle"] /\ work = [r \in Requests |-> "none"]

Ask(r) ==
  /\ status[r] = "idle" /\ status' = [status EXCEPT ![r] = "pending"]
  /\ UNCHANGED work

Begin(r) ==
  /\ status[r] # "idle" /\ work[r] = "none"
  /\ work' = [work EXCEPT ![r] = "running"]
  /\ UNCHANGED status

(* All the work that is under way may come to an end at once.               *)
Finish ==
  /\ \E how \in [Requests -> Answers \cup {"stopped"}], ended \in SUBSET Requests :
       /\ \A r \in ended : work[r] = "running"
       /\ work' = [r \in Requests |-> IF r \in ended THEN how[r] ELSE work[r]]
  /\ UNCHANGED status

Answer(r) ==
  /\ status[r] = "pending" /\ work[r] \in Answers
  /\ status' = [status EXCEPT ![r] = work[r]]
  /\ UNCHANGED work

GiveUp(r) ==
  /\ status[r] = "pending"
  /\ \E why \in Reasons : status' = [status EXCEPT ![r] = why]
  /\ UNCHANGED work

Next == Finish \/ \E r \in Requests : Ask(r) \/ Begin(r) \/ Answer(r) \/ GiveUp(r)

Spec == Init /\ [][Next]_vars
=============================================================================
