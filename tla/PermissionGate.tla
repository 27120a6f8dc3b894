--------------------------- MODULE PermissionGate ---------------------------
(****************************************************************************)
(* The permission prompts of one session: a tool call that needs the        *)
(* user's consent writes a PermissionRequest row, registers a future in     *)
(* _pending_permissions and waits for it (harness_service.py,               *)
(* _on_permission); the user's answers (resolve_permission) and an abort    *)
(* (_reject_pending_user_gates) write the row and then settle the future.   *)
(*                                                                          *)
(* A database access is one step and a continuation on the event loop       *)
(* another: between writing or reading a row and acting on it, every other  *)
(* coroutine may run.                                                       *)
(****************************************************************************)
EXTENDS Naturals, FiniteSets

CONSTANTS
  Calls,      (* tool calls for which the evaluator says "ask"              *)
  Tool,       (* the tool of each call                                      *)
  Action,     (* its action: the command, the path, ...                     *)
  RunOf,      (* the number of the run it belongs to                        *)
  Runs,       (* number of runs of the session, one after the other         *)
  Users,      (* requests that answer a prompt                              *)
  Aborts,     (* abort requests                                             *)
  None

ASSUME RunsAssumption == Runs \in Nat /\ RunOf \in [Calls -> 1..Runs]
ASSUME ActorsAssumption == Users \cap Aborts = {} /\ None \notin Calls

VARIABLES
  run,        (* phase of each run                                          *)
  gate,       (* phase of each call                                         *)
  request,    (* PermissionRequest.status                                   *)
  registry,   (* _pending_permissions: the calls whose future it holds      *)
  future,     (* the outcome each call's future holds                       *)
  once,       (* RunOptions.once_approved of the current run                *)
  step,       (* phase of each answer and of each abort                     *)
  verdict,    (* what it decides                                            *)
  cursor,     (* the prompt it is resolving                                 *)
  todo,       (* those it still has to handle                               *)
  about,      (* history: the prompt each user answered                     *)
  aborted,    (* the runs each abort found running                          *)
  early       (* history: calls whose prompt was resolved before the future *)
              (* was registered                                             *)

callVars  == <<gate, early>>
rowVars   == <<request, registry, future>>
actorVars == <<step, verdict, cursor, todo, about, aborted>>
vars == <<run, callVars, rowVars, once, actorVars>>

-----------------------------------------------------------------------------
Actors == Users \cup Aborts

Verdicts == {"once", "always", "reject"}

(* Variant: a status the model does not have.                               *)
StatusMisspelt(v) == IF v \in {"once", "always"} THEN "allowed" ELSE "rejected"

(* What mark_resolved writes, and what the future receives.                 *)
StatusOf(v) == IF v \in {"once", "always"} THEN "approved" ELSE "rejected"
OutcomeOf == [once |-> "allow", always |-> "allow", reject |-> "deny",
              abort |-> "cancelled"]

Waits(c) == gate[c] \in {"created", "emitting", "waiting"}
Pair(c)  == <<Tool[c], Action[c]>>

Init ==
  /\ run = [r \in 1..Runs |-> IF r = 1 THEN "on" ELSE "off"]
  /\ gate = [c \in Calls |-> "idle"]
  /\ request = [c \in Calls |-> "none"]
  /\ registry = {}
  /\ future = [c \in Calls |-> "open"]
  /\ once = {}
  /\ step = [x \in Actors |-> "ready"]
  /\ verdict = [x \in Actors |-> IF x \in Aborts THEN "abort" ELSE "once"]
  /\ cursor = [x \in Actors |-> None]
  /\ todo = [x \in Actors |-> {}]
  /\ about = [u \in Users |-> None]
  /\ aborted = [a \in Aborts |-> {}]
  /\ early = {}

-----------------------------------------------------------------------------
(* The runs                                                                 *)

(* A session has one run at a time; each starts with an empty cache.        *)
StartRun(r) ==
  /\ run[r] = "off"
  /\ \A q \in 1..Runs : q < r => run[q] = "over"
  /\ run' = [run EXCEPT ![r] = "on"]
  /\ once' = {}
  /\ UNCHANGED <<callVars, rowVars, actorVars>>

(* A run ends once its tool calls have.                                     *)
EndRun(r) ==
  /\ run[r] \in {"on", "cancelled"}
  /\ \A c \in Calls : RunOf[c] = r => ~Waits(c)
  /\ run' = [run EXCEPT ![r] = "over"]
  /\ UNCHANGED <<callVars, rowVars, once, actorVars>>

-----------------------------------------------------------------------------
(* A tool call: _resolve_ask and _on_permission                             *)

GateStep(c, from, to) ==
  /\ gate[c] = from
  /\ gate' = [gate EXCEPT ![c] = to]

(* The cancellation of a call ends the step it belongs to.                  *)
MayCall(c) ==
  /\ run[RunOf[c]] = "on"
  /\ \A d \in Calls : RunOf[d] = RunOf[c] => gate[d] # "cancelled"

OnceApproved(c) ==
  /\ MayCall(c)
  /\ Pair(c) \in once
  /\ GateStep(c, "idle", "granted")
  /\ UNCHANGED <<run, early, rowVars, once, actorVars>>

(* The row is written ...                                                   *)
Ask(c) ==
  /\ MayCall(c)
  /\ Pair(c) \notin once
  /\ GateStep(c, "idle", "created")
  /\ request' = [request EXCEPT ![c] = "pending"]
  /\ UNCHANGED <<run, early, registry, future, once, actorVars>>

(* ... then the future is registered and the prompt is emitted ...          *)
Register(c) ==
  /\ GateStep(c, "created", "emitting")
  /\ registry' = registry \cup {c}
  /\ early' = IF request[c] = "pending" THEN early ELSE early \cup {c}
  /\ UNCHANGED <<run, request, future, once, actorVars>>

(* ... then the call awaits the future.                                     *)
Await(c) ==
  /\ GateStep(c, "emitting", "waiting")
  /\ UNCHANGED <<run, early, rowVars, once, actorVars>>

Resume(c) ==
  /\ \/ future[c] = "allow" /\ GateStep(c, "waiting", "granted")
     \/ future[c] = "deny" /\ GateStep(c, "waiting", "denied")
     \/ future[c] = "cancelled" /\ GateStep(c, "waiting", "cancelled")
  /\ once' = IF future[c] = "allow" THEN once \cup {Pair(c)} ELSE once
  /\ registry' = registry \ {c}
  /\ future' = [future EXCEPT ![c] = "open"]
  /\ UNCHANGED <<run, early, request, actorVars>>

(* The run's task is cancelled and with it the call, wherever it waits; the *)
(* finally clause only covers the await of the future.                      *)
Interrupt(c) ==
  /\ run[RunOf[c]] = "cancelled"
  /\ Waits(c)
  /\ gate' = [gate EXCEPT ![c] = "cancelled"]
  /\ registry' = IF gate[c] = "waiting" THEN registry \ {c} ELSE registry
  /\ future' = [future EXCEPT ![c] = "open"]
  /\ UNCHANGED <<run, early, request, once, actorVars>>

CallProgress(c) ==
  Register(c) \/ Await(c) \/ Resume(c) \/ Interrupt(c)

-----------------------------------------------------------------------------
(* Writing a row and settling its future                                    *)

ActorStep(x, from, to) ==
  /\ step[x] = from
  /\ step' = [step EXCEPT ![x] = to]

(* mark_resolved saves the status over whatever the row holds by now.       *)
Mark(c, v) == request' = [request EXCEPT ![c] = StatusOf(v)]

(* Pop the future and settle it, unless it is gone or settled.              *)
Pop(c, v) ==
  /\ registry' = registry \ {c}
  /\ future' = IF c \in registry /\ future[c] = "open"
                 THEN [future EXCEPT ![c] = OutcomeOf[v]]
                 ELSE future

-----------------------------------------------------------------------------
(* resolve_permission                                                       *)

(* The request reads a pending row; of another it answers "not found".      *)
Answer(u, c, v) ==
  /\ request[c] = "pending"
  /\ ActorStep(u, "ready", "read")
  /\ verdict' = [verdict EXCEPT ![u] = v]
  /\ cursor' = [cursor EXCEPT ![u] = c]
  /\ about' = [about EXCEPT ![u] = c]
  /\ UNCHANGED <<run, callVars, rowVars, once, todo, aborted>>

MarkAnswered(u) ==
  /\ ActorStep(u, "read", "marked")
  /\ Mark(cursor[u], verdict[u])
  /\ UNCHANGED <<run, callVars, registry, future, once, verdict, cursor, todo, about, aborted>>

WakeAnswered(u) ==
  /\ ActorStep(u, "marked", IF verdict[u] = "always" THEN "listing" ELSE "done")
  /\ Pop(cursor[u], verdict[u])
  /\ cursor' = [cursor EXCEPT ![u] = None]
  /\ UNCHANGED <<run, callVars, request, once, verdict, todo, about, aborted>>

(* Variant: the pending prompts for any tool.                               *)
AllSiblings(u) == {c \in Calls \ {about[u]} : request[c] = "pending"}

(* The pending prompts for the same tool.                                   *)
Siblings(u) ==
  {c \in Calls \ {about[u]} : request[c] = "pending" /\ Tool[c] = Tool[about[u]]}

ListSiblings(u) ==
  /\ u \in Users
  /\ ActorStep(u, "listing", "sweeping")
  /\ todo' = [todo EXCEPT ![u] = Siblings(u)]
  /\ UNCHANGED <<run, callVars, rowVars, once, verdict, cursor, about, aborted>>

-----------------------------------------------------------------------------
(* _resolve_sibling_permissions and _reject_pending_user_gates: for every   *)
(* request of the list as read, save the row, then settle the future.       *)

MarkListed(x) ==
  /\ ActorStep(x, "sweeping", "swept")
  /\ \E c \in todo[x] :
       /\ cursor' = [cursor EXCEPT ![x] = c]
       /\ todo' = [todo EXCEPT ![x] = @ \ {c}]
       /\ Mark(c, verdict[x])
  /\ UNCHANGED <<run, callVars, registry, future, once, verdict, about, aborted>>

(* Variant: only the row is written.                                        *)
WakeNone(x) ==
  /\ ActorStep(x, "swept", "sweeping")
  /\ UNCHANGED <<run, callVars, rowVars, once, verdict, cursor, todo, about, aborted>>

WakeListed(x) ==
  /\ ActorStep(x, "swept", "sweeping")
  /\ Pop(cursor[x], verdict[x])
  /\ cursor' = [cursor EXCEPT ![x] = None]
  /\ UNCHANGED <<run, callVars, request, once, verdict, todo, about, aborted>>

SweepEnds(x) ==
  /\ todo[x] = {}
  /\ ActorStep(x, "sweeping", "done")
  /\ UNCHANGED <<run, callVars, rowVars, once, verdict, cursor, todo, about, aborted>>

-----------------------------------------------------------------------------
(* abort_run                                                                *)

Running == {r \in 1..Runs : run[r] \in {"on", "cancelled"}}

(* Cancel the run that is registered, if any, and wait for it to end.       *)
RequestAbort(a) ==
  /\ ActorStep(a, "ready", IF Running = {} THEN "listing" ELSE "joining")
  /\ run' = [r \in 1..Runs |-> IF r \in Running THEN "cancelled" ELSE run[r]]
  /\ aborted' = [aborted EXCEPT ![a] = Running]
  /\ UNCHANGED <<callVars, rowVars, once, verdict, cursor, todo, about>>

(* Variant: the cancelled run is not awaited.                               *)
NotJoined(a) ==
  /\ ActorStep(a, "joining", "listing")
  /\ UNCHANGED <<run, callVars, rowVars, once, verdict, cursor, todo, about, aborted>>

Joined(a) ==
  /\ ActorStep(a, "joining", "listing")
  /\ \A r \in aborted[a] : run[r] = "over"
  /\ UNCHANGED <<run, callVars, rowVars, once, verdict, cursor, todo, about, aborted>>

Leftover == {c \in Calls : request[c] = "pending"}

ListLeftover(a) ==
  /\ a \in Aborts
  /\ ActorStep(a, "listing", "sweeping")
  /\ todo' = [todo EXCEPT ![a] = Leftover]
  /\ UNCHANGED <<run, callVars, rowVars, once, verdict, cursor, about, aborted>>

ActorProgress(x) ==
  \/ MarkAnswered(x) \/ WakeAnswered(x) \/ ListSiblings(x)
  \/ MarkListed(x) \/ WakeListed(x) \/ SweepEnds(x)
  \/ Joined(x) \/ ListLeftover(x)

-----------------------------------------------------------------------------
Next ==
  \/ \E r \in 1..Runs : StartRun(r) \/ EndRun(r)
  \/ \E c \in Calls : OnceApproved(c) \/ Ask(c) \/ CallProgress(c)
  \/ \E u \in Users, c \in Calls, v \in Verdicts : Answer(u, c, v)
  \/ \E a \in Aborts : RequestAbort(a)
  \/ \E x \in Actors : ActorProgress(x)

Spec == Init /\ [][Next]_vars

(* The server's coroutines make progress; users owe nothing.                *)
Fairness ==
  /\ \A c \in Calls : WF_vars(CallProgress(c))
  /\ \A x \in Actors : WF_vars(ActorProgress(x))
  /\ \A r \in 1..Runs : WF_vars(EndRun(r))

FairSpec == Spec /\ Fairness
-----------------------------------------------------------------------------
(* Properties                                                               *)

TypeOK ==
  /\ run \in [1..Runs -> {"off", "on", "cancelled", "over"}]
  /\ gate \in [Calls -> {"idle", "created", "emitting", "waiting",
                         "granted", "denied", "cancelled"}]
  /\ request \in [Calls -> {"none", "pending", "approved", "rejected"}]
  /\ registry \in SUBSET Calls
  /\ future \in [Calls -> {"open", "allow", "deny", "cancelled"}]
  /\ once \in SUBSET {Pair(c) : c \in Calls}
  /\ step \in [Actors -> {"ready", "read", "marked", "joining", "listing",
                          "sweeping", "swept", "done"}]
  /\ verdict \in [Actors -> Verdicts \cup {"abort"}]
  /\ cursor \in [Actors -> Calls \cup {None}]
  /\ todo \in [Actors -> SUBSET Calls]
  /\ about \in [Users -> Calls \cup {None}]
  /\ aborted \in [Aborts -> SUBSET (1..Runs)]
  /\ early \in SUBSET Calls

(* Some user's answer to prompt d allows call c: "always" speaks for every  *)
(* pending prompt of the same tool, "once" for the calls of the same run    *)
(* with the same tool and action.                                           *)
Allows(u, c) ==
  /\ about[u] # None
  /\ \/ verdict[u] = "always" /\ Tool[about[u]] = Tool[c]
     \/ /\ verdict[u] = "once"
        /\ Pair(about[u]) = Pair(c)
        /\ RunOf[about[u]] = RunOf[c]

(* No tool call that needs consent is executed without it, whatever the     *)
(* order of answers, sweeps over sibling prompts, aborts and a next run.    *)
GrantedIsAllowed ==
  \A c \in Calls : gate[c] = "granted" => \E u \in Users : Allows(u, c)

(* A future in the registry whose prompt was resolved while it was there is *)
(* about to be settled: an answer, a sweep or an abort is on its way to pop *)
(* it.  A call waits for ever, or leaves its future behind, only if its     *)
(* prompt was resolved before the future was registered.                    *)
ResolvedIsWoken ==
  \A c \in registry \ early :
    request[c] # "pending" =>
      \E x \in Actors : step[x] \in {"marked", "swept"} /\ cursor[x] = c

(* When abort_run returns, no call of the runs it cancelled waits for an    *)
(* answer and no prompt of theirs is shown as pending.                      *)
AbortClosesGates ==
  \A a \in Aborts : step[a] = "done" =>
    \A c \in Calls : RunOf[c] \in aborted[a] => ~Waits(c) /\ request[c] # "pending"

-----------------------------------------------------------------------------
(* What the documentation says and the code does not do.                    *)

(* "Resolve a permission request via the M3 service + wake the loop": a     *)
(* call whose prompt is resolved stops waiting.                             *)
AnsweredIsWoken ==
  \A c \in Calls :
    (gate[c] = "waiting" /\ request[c] # "pending") ~> gate[c] # "waiting"
=============================================================================
