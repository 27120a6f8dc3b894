----------------------------- MODULE HarnessRun -----------------------------
(****************************************************************************)
(* Life of the agent runs of ONE harness session, as HarnessService keeps   *)
(* it (backend/apps/harness/harness_service.py): start_run, the task that   *)
(* executes the run (_execute_run), its done-callback and abort_run.        *)
(*                                                                          *)
(* The service is one asyncio program: code between two awaits is atomic,   *)
(* every await (a database call through sync_to_async, the agent loop, a    *)
(* task being joined) lets another coroutine run.  An action is one such    *)
(* segment, up to and including the effect of the await that ends it.       *)
(*                                                                          *)
(* A run is named by the start_run call that creates it.                    *)
(****************************************************************************)
EXTENDS Naturals, FiniteSets

CONSTANTS
  Prompts,  (* start_run calls, from the REST and MCP endpoints             *)
  Aborts,   (* abort_run calls                                              *)
  NoRun,    (* "no entry" in the registries _tasks and _runs                *)
  Serial,   (* TRUE: a prompt is sent only after the previous one returned  *)
  Subagent  (* TRUE: the session of a subagent, run once by a tool call     *)

ASSUME NoRunAssumption == NoRun \notin Prompts
ASSUME KindAssumption == Serial \in BOOLEAN /\ Subagent \in BOOLEAN

VARIABLES
  status,     (* HarnessSession.status in the database                      *)
  usage,      (* HarnessSession.tokens: the runs whose usage it counts      *)
  taskOf,     (* self._tasks[session]                                       *)
  ctxOf,      (* self._runs[session]                                        *)
  call,       (* program counter of each start_run call                     *)
  loaded,     (* usage as read by the request's copy of the session row     *)
  task,       (* program counter of each run's asyncio task                 *)
  cancelReq,  (* runs with a CancelledError not yet delivered               *)
  hit,        (* history: the phases a run was thrown out of                *)
  msg,        (* HarnessMessage.finish of each run's assistant message      *)
  part,       (* state of the message's text and tool parts                 *)
  abort,      (* program counter of each abort_run call                     *)
  victim,     (* the task an abort_run call cancelled and joins             *)
  seen        (* session.status as the abort_run call last read it          *)

callVars  == <<call, loaded>>
abortVars == <<abort, victim, seen>>
rowVars   == <<msg, part>>
vars == <<status, usage, taskOf, ctxOf, call, loaded, task, cancelReq, hit,
          msg, part, abort, victim, seen>>

-----------------------------------------------------------------------------
Kinds == {"text", "tool"}

CallPhases  == {"ready", "loaded", "checked", "persisted", "busy",
                "returned", "conflict", "invalid", "failed"}
TaskPhases  == {"none", "spawned", "prelude", "loop",
                "completing", "settling",      (* the run returned           *)
                "failing", "failparts",        (* the run raised             *)
                "aborting", "abortparts",      (* the run was cancelled      *)
                "closing", "emitting", "ended"}
AbortPhases == {"ready", "loaded", "joining", "reread", "markidle", "gates",
                "returned"}

Over(r) == task[r] = "ended"
Live(r) == task[r] \notin {"none", "ended"}
CallsInFlight == {c \in Prompts : call[c] \in {"loaded", "checked", "persisted", "busy"}}

(* is_running                                                               *)
IsRunning == taskOf # NoRun /\ ~Over(taskOf)

Init ==
  /\ status = "idle"
  /\ usage = {}
  /\ taskOf = NoRun
  /\ ctxOf = NoRun
  /\ call = [c \in Prompts |-> "ready"]
  /\ loaded = [c \in Prompts |-> {}]
  /\ task = [c \in Prompts |-> "none"]
  /\ cancelReq = {}
  /\ hit = [c \in Prompts |-> {}]
  /\ msg = [c \in Prompts |-> "none"]
  /\ part = [c \in Prompts |-> [k \in Kinds |-> "absent"]]
  /\ abort = [a \in Aborts |-> "ready"]
  /\ victim = [a \in Aborts |-> NoRun]
  /\ seen = [a \in Aborts |-> "idle"]

-----------------------------------------------------------------------------
(* start_run, with the session read the endpoint does before it.            *)

CallStep(c, from, to) ==
  /\ call[c] = from
  /\ call' = [call EXCEPT ![c] = to]

(* The endpoint loads the session row; this copy is the one start_run and   *)
(* the run keep using.  A subagent's session takes no further prompts       *)
(* (ensure_user_promptable).                                                *)
LoadSession(c) ==
  /\ Serial => CallsInFlight = {}
  /\ Subagent => \A d \in Prompts : call[d] = "ready"
  /\ CallStep(c, "ready", "loaded")
  /\ loaded' = [loaded EXCEPT ![c] = usage]
  /\ UNCHANGED <<status, usage, taskOf, ctxOf, task, cancelReq, hit, rowVars, abortVars>>

(* The guard "one active run per session".                                  *)
CheckRunning(c) ==
  /\ CallStep(c, "loaded", IF IsRunning THEN "conflict" ELSE "checked")
  /\ UNCHANGED <<status, usage, taskOf, ctxOf, loaded, task, cancelReq, hit,
                 rowVars, abortVars>>

(* Skill ids in the payload reload the row (update_skill_ids); then the     *)
(* provider is validated and the user and assistant messages are created.   *)
PersistMessages(c) ==
  /\ CallStep(c, "checked", "persisted")
  /\ msg' = [msg EXCEPT ![c] = "open"]
  /\ \E reload \in BOOLEAN :
       loaded' = [loaded EXCEPT ![c] = IF reload THEN usage ELSE @]
  /\ UNCHANGED <<status, usage, taskOf, ctxOf, task, cancelReq, hit, part, abortVars>>

MarkBusy(c) ==
  /\ CallStep(c, "persisted", "busy")
  /\ status' = "busy"
  /\ UNCHANGED <<usage, taskOf, ctxOf, loaded, task, cancelReq, hit, rowVars, abortVars>>

(* validate_provider_for_run raises, or resolve_skill_bodies after the      *)
(* session was marked busy, or the client disconnects and its request is    *)
(* cancelled: nothing is undone.                                            *)
StartFails(c) ==
  /\ \/ \E from \in {"checked", "persisted"} : CallStep(c, from, "invalid")
     \/ CallStep(c, "busy", "failed")
  /\ UNCHANGED <<status, usage, taskOf, ctxOf, loaded, task, cancelReq, hit,
                 rowVars, abortVars>>

(* The run context and the task are registered in one segment.              *)
Spawn(c) ==
  /\ CallStep(c, "busy", "returned")
  /\ ctxOf' = c
  /\ taskOf' = c
  /\ task' = [task EXCEPT ![c] = "spawned"]
  /\ UNCHANGED <<status, usage, loaded, cancelReq, hit, rowVars, abortVars>>

StartRun(c) ==
  \/ LoadSession(c) \/ CheckRunning(c) \/ PersistMessages(c)
  \/ MarkBusy(c) \/ StartFails(c) \/ Spawn(c)

-----------------------------------------------------------------------------
(* _execute_run.  A step of a run that was cancelled raises CancelledError  *)
(* at the await the run is suspended in, instead of what follows it; the    *)
(* database call of that await may have taken effect or not.                *)

TaskStep(r, from, to) ==
  /\ task[r] = from
  /\ task' = [task EXCEPT ![r] = to]

Undisturbed(r) == r \notin cancelReq /\ UNCHANGED <<cancelReq, hit>>

Interrupted(r) ==
  /\ r \in cancelReq
  /\ cancelReq' = cancelReq \ {r}
  /\ hit' = [hit EXCEPT ![r] = @ \cup {task[r]}]

(* The finally clause: the three registries lose their entry, whosever it   *)
(* is, before the session is marked idle.                                   *)
Unregister ==
  /\ ctxOf' = NoRun
  /\ taskOf' = NoRun

KeepRegistry == UNCHANGED <<ctxOf, taskOf>>

(* The task is over and _on_run_task_done pops the session's entry,         *)
(* whosever it is.  The callback is the first thing the loop runs after the *)
(* task: nobody sees a finished task that is still registered by it.        *)
Ends(r, from) ==
  /\ task[r] \in from
  /\ task' = [task EXCEPT ![r] = "ended"]
  /\ taskOf' = NoRun
  /\ UNCHANGED ctxOf

Begin(r) ==
  /\ TaskStep(r, "spawned", "prelude")
  /\ Undisturbed(r)
  /\ KeepRegistry
  /\ UNCHANGED <<status, usage, rowVars, callVars, abortVars>>

(* Provider, model limits, workspace accessor, image hydration: all before  *)
(* the try block.                                                           *)
EnterLoop(r) ==
  /\ TaskStep(r, "prelude", "loop")
  /\ Undisturbed(r)
  /\ KeepRegistry
  /\ UNCHANGED <<status, usage, rowVars, callVars, abortVars>>

(* No model configured, runner offline, ...: the task ends with the         *)
(* exception and none of the handlers of the try block has run.             *)
PreludeRaises(r) ==
  /\ Ends(r, {"prelude"})
  /\ r \notin cancelReq
  /\ hit' = [hit EXCEPT ![r] = @ \cup {"prelude"}]
  /\ UNCHANGED <<status, usage, cancelReq, rowVars, callVars, abortVars>>

(* The agent loop streams parts through _on_runner_event.                   *)
SetPart(r, k, from, to) ==
  /\ part[r][k] \in from
  /\ part' = [part EXCEPT ![r][k] = to]

StreamPart(r) ==
  /\ task[r] = "loop"
  /\ Undisturbed(r)
  /\ \/ SetPart(r, "text", {"absent"}, "running")
     \/ SetPart(r, "tool", {"absent", "completed", "error"}, "running")
     \/ \E s \in {"completed", "error"} : SetPart(r, "tool", {"running"}, s)
  /\ KeepRegistry
  /\ UNCHANGED <<status, usage, task, msg, callVars, abortVars>>

(* The loop returns or raises once its tool calls are answered; session     *)
(* usage is added to the copy of the row the request loaded (add_usage).    *)
LoopReturns(r) ==
  /\ part[r]["tool"] # "running"
  /\ TaskStep(r, "loop", "completing")
  /\ Undisturbed(r)
  /\ usage' = loaded[r] \cup {r}
  /\ KeepRegistry
  /\ UNCHANGED <<status, rowVars, callVars, abortVars>>

LoopRaises(r) ==
  /\ part[r]["tool"] # "running"
  /\ TaskStep(r, "loop", "failing")
  /\ Undisturbed(r)
  /\ KeepRegistry
  /\ UNCHANGED <<status, usage, rowVars, callVars, abortVars>>

(* Variant: a finish reason the clients do not know.                        *)
FinishMisspelt == [completing |-> "stop", failing |-> "error", aborting |-> "cancelled"]

(* messages.complete, in each of the three ways the loop can end.           *)
Finish == [completing |-> "stop", failing |-> "error", aborting |-> "aborted"]
AfterFinish == [completing |-> "settling", failing |-> "failparts",
                aborting |-> "abortparts"]

CompleteMessage(r) ==
  /\ task[r] \in DOMAIN Finish
  /\ task' = [task EXCEPT ![r] = AfterFinish[task[r]]]
  /\ msg' = [msg EXCEPT ![r] = Finish[task[r]]]
  /\ Undisturbed(r)
  /\ KeepRegistry
  /\ UNCHANGED <<status, usage, part, callVars, abortVars>>

(* Variant: _fail_open_parts closes text parts only.                        *)
ClosedAsTextOnly(k, phase) == IF k = "text" THEN "completed" ELSE "running"

(* _settle_open_stream_parts and _fail_open_parts: what an open part of     *)
(* kind k becomes.                                                          *)
ClosedAs(k, phase) ==
  IF k = "text" THEN "completed" ELSE IF phase = "settling" THEN "running" ELSE "error"

CloseParts(r, ks) ==
  part' = [part EXCEPT ![r] =
             [k \in Kinds |-> IF k \in ks /\ part[r][k] = "running"
                              THEN ClosedAs(k, task[r]) ELSE part[r][k]]]

SettleParts(r) ==
  /\ task[r] \in {"settling", "failparts", "abortparts"}
  /\ task' = [task EXCEPT ![r] = "closing"]
  /\ CloseParts(r, Kinds)
  /\ Undisturbed(r)
  /\ Unregister
  /\ UNCHANGED <<status, usage, msg, callVars, abortVars>>

MarkIdle(r) ==
  /\ TaskStep(r, "closing", "emitting")
  /\ status' = "idle"
  /\ Undisturbed(r)
  /\ KeepRegistry
  /\ UNCHANGED <<usage, rowVars, callVars, abortVars>>

(* Cancelled before its first step the coroutine is never entered, and in   *)
(* its prelude no handler is in place.                                      *)
CancelledEarly(r) ==
  /\ Ends(r, {"spawned", "prelude"})
  /\ Interrupted(r)
  /\ UNCHANGED <<status, usage, rowVars, callVars, abortVars>>

(* Variant: the settling of parts is moved behind the try block, so that an *)
(* abort during it is no longer reported.                                   *)
CancelledAfterTry(r) ==
  /\ \E from \in {"loop", "completing", "settling"} :
       TaskStep(r, from, IF from = "settling" THEN "closing" ELSE "aborting")
  /\ Interrupted(r)
  /\ KeepRegistry
  /\ UNCHANGED <<status, usage, rowVars, callVars, abortVars>>

(* Cancelled inside the try block: the "except CancelledError" clause.      *)
CancelledInTry(r) ==
  /\ \E from \in {"loop", "completing", "settling"} : TaskStep(r, from, "aborting")
  /\ Interrupted(r)
  /\ \/ UNCHANGED rowVars
     \/ /\ task[r] = "completing"
        /\ msg' = [msg EXCEPT ![r] = "stop"]
        /\ UNCHANGED part
     \/ /\ task[r] = "settling"
        /\ CloseParts(r, Kinds)
        /\ UNCHANGED msg
  /\ \/ UNCHANGED usage
     \/ task[r] = "loop" /\ part[r]["tool"] # "running" /\ usage' = loaded[r] \cup {r}
  /\ KeepRegistry
  /\ UNCHANGED <<status, callVars, abortVars>>

(* Variant: no finally clause around the except clauses.                    *)
CancelledWithoutFinally(r) ==
  /\ Ends(r, {"failing", "failparts", "aborting", "abortparts"})
  /\ Interrupted(r)
  /\ UNCHANGED <<status, usage, rowVars, callVars, abortVars>>

(* Cancelled inside one of the except clauses: the rest of the clause is    *)
(* lost, finally still runs.                                                *)
CancelledInHandler(r) ==
  /\ \E from \in {"failing", "failparts", "aborting", "abortparts"} :
       TaskStep(r, from, "closing")
  /\ Interrupted(r)
  /\ \/ UNCHANGED rowVars
     \/ /\ task[r] \in DOMAIN Finish
        /\ msg' = [msg EXCEPT ![r] = Finish[task[r]]]
        /\ UNCHANGED part
     \/ /\ task[r] \in {"failparts", "abortparts"}
        /\ \E ks \in SUBSET Kinds : CloseParts(r, ks)
        /\ UNCHANGED msg
  /\ Unregister
  /\ UNCHANGED <<status, usage, callVars, abortVars>>

CancelledInFinally(r) ==
  /\ Ends(r, {"closing", "emitting"})
  /\ Interrupted(r)
  /\ \/ UNCHANGED status
     \/ task[r] = "closing" /\ status' = "idle"
  /\ UNCHANGED <<usage, rowVars, callVars, abortVars>>

(* The "idle" event is emitted and the coroutine returns (or re-raises).    *)
TaskDone(r) ==
  /\ Ends(r, {"emitting"})
  /\ Undisturbed(r)
  /\ UNCHANGED <<status, usage, rowVars, callVars, abortVars>>

(* The steps whose progress depends on the model, its tools or the user.    *)
LoopStep(r) == StreamPart(r) \/ LoopReturns(r) \/ LoopRaises(r)

(* The steps the event loop always gets to.                                 *)
ServiceStep(r) ==
  \/ Begin(r) \/ EnterLoop(r) \/ PreludeRaises(r)
  \/ CompleteMessage(r) \/ SettleParts(r) \/ MarkIdle(r)
  \/ CancelledEarly(r) \/ CancelledInTry(r) \/ CancelledInHandler(r)
  \/ CancelledInFinally(r) \/ TaskDone(r)

-----------------------------------------------------------------------------
(* abort_run                                                                *)

AbortStep(a, from, to) ==
  /\ abort[a] = from
  /\ abort' = [abort EXCEPT ![a] = to]

ReadStatus(a) == seen' = [seen EXCEPT ![a] = status]

LoadForAbort(a) ==
  /\ AbortStep(a, "ready", "loaded")
  /\ ReadStatus(a)
  /\ UNCHANGED <<status, usage, taskOf, ctxOf, callVars, task, cancelReq, hit,
                 rowVars, victim>>

NothingToCancel(a) ==
  /\ ~IsRunning
  /\ AbortStep(a, "loaded", IF seen[a] = "idle" THEN "gates" ELSE "markidle")
  /\ UNCHANGED <<status, usage, taskOf, ctxOf, callVars, task, cancelReq, hit,
                 rowVars, victim, seen>>

CancelTask(a) ==
  /\ IsRunning
  /\ AbortStep(a, "loaded", "joining")
  /\ victim' = [victim EXCEPT ![a] = taskOf]
  /\ cancelReq' = cancelReq \cup {taskOf}
  /\ UNCHANGED <<status, usage, taskOf, ctxOf, callVars, task, hit, rowVars, seen>>

(* Variant: abort_run does not await the task it cancelled.                 *)
NotJoined(a) ==
  /\ AbortStep(a, "joining", "reread")
  /\ UNCHANGED <<status, usage, taskOf, ctxOf, callVars, task, cancelReq, hit,
                 rowVars, victim, seen>>

Joined(a) ==
  /\ AbortStep(a, "joining", "reread")
  /\ Over(victim[a])
  /\ UNCHANGED <<status, usage, taskOf, ctxOf, callVars, task, cancelReq, hit,
                 rowVars, victim, seen>>

(* Variant: abort_run relies on the run's own write of "idle".              *)
NoBeltAndBraces(a) ==
  /\ AbortStep(a, "reread", "gates")
  /\ ReadStatus(a)
  /\ UNCHANGED <<status, usage, taskOf, ctxOf, callVars, task, cancelReq, hit,
                 rowVars, victim>>

Reread(a) ==
  /\ AbortStep(a, "reread", IF status = "idle" THEN "gates" ELSE "markidle")
  /\ ReadStatus(a)
  /\ UNCHANGED <<status, usage, taskOf, ctxOf, callVars, task, cancelReq, hit,
                 rowVars, victim>>

AbortMarksIdle(a) ==
  /\ AbortStep(a, "markidle", "gates")
  /\ status' = "idle"
  /\ UNCHANGED <<usage, taskOf, ctxOf, callVars, task, cancelReq, hit, rowVars,
                 victim, seen>>

(* _reject_pending_user_gates and the recursion into child sessions touch   *)
(* nothing of this module (PermissionGate models the gates).                *)
AbortReturns(a) ==
  /\ AbortStep(a, "gates", "returned")
  /\ UNCHANGED <<status, usage, taskOf, ctxOf, callVars, task, cancelReq, hit,
                 rowVars, victim, seen>>

AbortRun(a) ==
  \/ LoadForAbort(a) \/ NothingToCancel(a) \/ CancelTask(a) \/ Joined(a)
  \/ Reread(a) \/ AbortMarksIdle(a) \/ AbortReturns(a)

(* The tool call that awaits a subagent's run is cancelled, and the run     *)
(* with it, in whatever phase that is (SubagentTree models the tool call).  *)
ParentCancels(r) ==
  /\ Subagent
  /\ Live(r)
  /\ cancelReq' = cancelReq \cup {r}
  /\ UNCHANGED <<status, usage, taskOf, ctxOf, callVars, task, hit, rowVars, abortVars>>

-----------------------------------------------------------------------------
Next ==
  \/ \E c \in Prompts : StartRun(c)
  \/ \E r \in Prompts : LoopStep(r) \/ ServiceStep(r) \/ ParentCancels(r)
  \/ \E a \in Aborts : AbortRun(a)

Spec == Init /\ [][Next]_vars

(* The event loop runs every ready callback and the database answers; the   *)
(* agent loop itself may take for ever, and no client has to send anything. *)
Fairness ==
  /\ \A r \in Prompts : WF_vars(ServiceStep(r))
  /\ \A c \in Prompts : WF_vars(call[c] # "ready" /\ StartRun(c))
  /\ \A a \in Aborts : WF_vars(abort[a] # "ready" /\ AbortRun(a))

FairSpec == Spec /\ Fairness

-----------------------------------------------------------------------------
(* Properties                                                               *)

TypeOK ==
  /\ status \in {"busy", "idle"}
  /\ usage \in SUBSET Prompts
  /\ taskOf \in Prompts \cup {NoRun}
  /\ ctxOf \in Prompts \cup {NoRun}
  /\ call \in [Prompts -> CallPhases]
  /\ loaded \in [Prompts -> SUBSET Prompts]
  /\ task \in [Prompts -> TaskPhases]
  /\ cancelReq \in SUBSET Prompts
  /\ hit \in [Prompts -> SUBSET TaskPhases]
  /\ msg \in [Prompts -> {"none", "open", "stop", "error", "aborted"}]
  /\ part \in [Prompts -> [Kinds -> {"absent", "running", "completed", "error"}]]
  /\ abort \in [Aborts -> AbortPhases]
  /\ victim \in [Aborts -> Prompts \cup {NoRun}]
  /\ seen \in [Aborts -> {"busy", "idle"}]

(* The exits that skip the write of "idle": start_run failing after it      *)
(* marked the session busy, a run thrown out of its prelude, a run          *)
(* cancelled in its finally clause.                                         *)
LeftBusy(p) ==
  \/ call[p] = "failed"
  \/ hit[p] \cap {"spawned", "prelude", "closing"} # {}

IdleToCome(p) == task[p] \notin {"none", "emitting", "ended"}

(* A session shows "busy" only while a start_run call is about to spawn its *)
(* run, a run has its idle write still to come, or one of the named exits   *)
(* skipped that write.  No interleaving of prompts, runs and aborts strands *)
(* a session in "busy" in any other way.                                    *)
BusyHasOwner ==
  status = "busy" => \E p \in Prompts : call[p] = "busy" \/ IdleToCome(p) \/ LeftBusy(p)

(* When abort_run gets past its join, the task it cancelled executes        *)
(* nothing any more: the client may act on "aborted".                       *)
AbortReturnsAfterRun ==
  \A a \in Aborts :
    /\ victim[a] # NoRun
    /\ abort[a] \in {"reread", "markidle", "gates", "returned"}
    => Over(victim[a])

(* A run that entered its loop and is over has a final message and no part  *)
(* left running, unless it was interrupted while its error or abort handler *)
(* was still writing.                                                       *)
SettledUnlessInterrupted ==
  \A r \in Prompts :
    /\ Over(r)
    /\ hit[r] \cap {"spawned", "prelude", "failing", "failparts",
                    "aborting", "abortparts"} = {}
    => /\ msg[r] \in {"stop", "error", "aborted"}
       /\ \A k \in Kinds : part[r][k] # "running"

(* An interrupted run is reported as aborted, never as a normal stop: a run *)
(* whose only interruption hit the try block ends with finish "aborted".    *)
AbortedIsReported ==
  \A r \in Prompts :
    /\ Over(r)
    /\ hit[r] \cap {"loop", "completing", "settling"} # {}
    /\ hit[r] \cap {"aborting", "abortparts"} = {}
    => msg[r] = "aborted"

(* A started abort returns, whatever the agent loop does.                   *)
AbortCompletes == \A a \in Aborts : abort[a] = "loaded" ~> abort[a] = "returned"

(* An abort that cancelled a run gives the session back: it is idle at some *)
(* later moment, even if the run was thrown out of its prelude or of its    *)
(* finally clause and never wrote "idle" itself.                            *)
AbortFreesSession == \A a \in Aborts : abort[a] = "joining" ~> status = "idle"

-----------------------------------------------------------------------------
(* What the documentation of the code says and the code does not do.        *)

(* "one active run per session; a second start is rejected with             *)
(* ConflictError" (module docstring of harness_service.py).                 *)
OneActiveRun == Cardinality({r \in Prompts : task[r] \in {"prelude", "loop"}}) <= 1

(* "Accumulate cost/tokens counters on a session" (add_usage): the usage of *)
(* a run, once counted, stays counted.                                      *)
UsageAccumulates == [][usage \subseteq usage']_vars
=============================================================================
