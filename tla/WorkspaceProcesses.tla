------------------------- MODULE WorkspaceProcesses -------------------------
(***************************************************************************)
(* Background processes of one workspace. The backend keeps a row for each *)
(* and asks the runner, by calls that wait for an answer or time out, to   *)
(* start, list, look up and stop them; the runner tracks what it started in*)
(* memory only and reports it in every heartbeat. Rows are also ended when *)
(* the workspace stops. The runner may restart; the processes live on.     *)
(***************************************************************************)
EXTENDS Naturals, FiniteSets

CONSTANTS
  Procs,
  Requests,  \* calls of start_process, list_processes, get_process, stop_process
  None,      \* no process: the subject of a list
  MaxFaults  \* bound: restarts of the runner and stops of the workspace together

(* Assumed of the constants by the modules that instantiate this one.          *)
NoneAssumption == None \notin Procs
FaultsAssumption == MaxFaults \in Nat

VARIABLES
  rows,     \* the backend's record of each process
  wsStatus, \* Workspace.status at the backend
  request,  \* where each call is
  task,     \* what the runner does for it
  os,       \* the process itself
  tracked,  \* _background_processes of the runner
  box,      \* the instance: "running" or "exited"
  stopping, \* where the stop or resume of the workspace is
  doomed,   \* the entries _kill_all_background_processes has copied
  beat,     \* the heartbeat
  faults,
  known,    \* history: processes that have been tracked
  forgotten,\* history: those that lost their entry while alive
  overtaken \* history: those written off on the word of an answer that the runner formed
            \* before it tracked them

history == <<known, overtaken>>
runnerVars == <<os, tracked, known, forgotten>>
vars == <<rows, wsStatus, request, task, os, tracked, box, stopping, doomed, beat, faults,
          known, forgotten, overtaken>>

NoReport == [p \in Procs |-> "absent"]
NoRequest == [kind |-> "none", proc |-> None, at |-> "idle"]
NoTask == [at |-> "none", result |-> "none", report |-> NoReport, todo |-> {}, early |-> {}]
NoBeat == [at |-> "idle", box |-> "running", begun |-> {}, todo |-> {}, report |-> NoReport,
           early |-> {}]

Init ==
  /\ rows = [p \in Procs |-> [status |-> "none", pid |-> FALSE]]
  /\ wsStatus = "running" /\ box = "running" /\ stopping = "no" /\ doomed = {}
  /\ request = [r \in Requests |-> NoRequest]
  /\ task = [r \in Requests |-> NoTask]
  /\ os = [p \in Procs |-> "none"] /\ tracked = {}
  /\ beat = NoBeat /\ faults = 0
  /\ known = {} /\ forgotten = {} /\ overtaken = {}

-----------------------------------------------------------------------------
(* The rows                                                                 *)

Ended(status) == status \in {"exited", "killed", "failed"}
RunningRows == {p \in Procs : rows[p].status = "running"}

(* mark_finished and mark_processes_killed: unconditional, respectively of  *)
(* the rows still running.                                                  *)
MarkedAs(S, status) == [p \in Procs |-> IF p \in S THEN [rows[p] EXCEPT !.status = status] ELSE rows[p]]

(* What a report says of a process in it: gone with an exit code, or gone   *)
(* without one, which is no news.                                           *)
SaysOf(p) == IF os[p] = "alive" THEN "running" ELSE IF os[p] = "exited" THEN "exited" ELSE "unknown"

(* reconcile_workspace_processes: a row without a pid is not confirmed yet. *)
Reconciled(report, early) ==
  LET over == {p \in RunningRows : rows[p].pid /\ report[p] \in {"exited", "absent"}} IN
  /\ rows' = MarkedAs(over, "exited")
  /\ overtaken' = overtaken \cup (over \cap early)

KilledWithWorkspace(early) ==
  /\ rows' = MarkedAs(RunningRows, "killed")
  /\ overtaken' = overtaken \cup (RunningRows \cap early)

-----------------------------------------------------------------------------
(* The calls                                                                *)

Idle(r) == request[r].at = "idle"
Becomes(r, at) == request' = [request EXCEPT ![r].at = at]
Over(r) == Becomes(r, "over")

(* start_process: the check, then the row, each across an await.            *)
StartChecked(r, p) ==
  /\ Idle(r) /\ wsStatus = "running"
  /\ rows[p].status = "none" /\ \A q \in Requests : request[q].proc # p
  /\ request' = [request EXCEPT ![r] = [kind |-> "start", proc |-> p, at |-> "checked"]]
  /\ UNCHANGED <<rows, wsStatus, task, runnerVars, box, stopping, doomed, beat, faults, overtaken>>

StartCreatesRow(r) ==
  /\ request[r].kind = "start" /\ request[r].at = "checked"
  /\ rows' = [rows EXCEPT ![request[r].proc].status = "running"]
  /\ Becomes(r, "ready")
  /\ UNCHANGED <<wsStatus, task, runnerVars, box, stopping, doomed, beat, faults, overtaken>>

(* list_processes and get_process ask the runner only about what may run;   *)
(* stop_process returns an ended row as it is.                              *)
LookChecked(r, kind, p) ==
  /\ Idle(r) /\ wsStatus = "running"
  /\ \/ kind = "list" /\ p = None
     \/ kind = "get" /\ p \in RunningRows /\ rows[p].pid
     \/ kind = "stop" /\ p \in RunningRows
  /\ request' = [request EXCEPT ![r] = [kind |-> kind, proc |-> p, at |-> "ready"]]
  /\ UNCHANGED <<rows, wsStatus, task, runnerVars, box, stopping, doomed, beat, faults, overtaken>>

(* _await_process_result emits the request.                                 *)
Ask(r) ==
  /\ request[r].at = "ready" /\ Becomes(r, "asked")
  /\ task' = [task EXCEPT ![r].at = "sent"]
  /\ UNCHANGED <<rows, wsStatus, runnerVars, box, stopping, doomed, beat, faults, overtaken>>

(* It times out, or the runner turns out to be offline. Only start_process  *)
(* writes then; the others fall back on the row or fail.                    *)
AskFails(r) ==
  /\ request[r].at \in {"ready", "asked"}
  /\ IF request[r].kind = "start" THEN Becomes(r, "failed") ELSE Over(r)
  /\ UNCHANGED <<rows, wsStatus, task, runnerVars, box, stopping, doomed, beat, faults, overtaken>>

(* The caller is cancelled: no except clause of start_process names that.   *)
CallCancelled(r) ==
  /\ request[r].at \notin {"idle", "over"} /\ Over(r)
  /\ UNCHANGED <<rows, wsStatus, task, runnerVars, box, stopping, doomed, beat, faults, overtaken>>

StartFailed(r) ==
  /\ request[r].kind = "start"
  /\ \/ request[r].at = "failed"
     \/ request[r].at = "asked" /\ task[r].at = "answered" /\ task[r].result = "error"
  /\ rows' = MarkedAs({request[r].proc}, "failed")
  /\ Over(r)
  /\ UNCHANGED <<wsStatus, task, runnerVars, box, stopping, doomed, beat, faults, overtaken>>

Answered(r, kind) ==
  /\ request[r].kind = kind /\ request[r].at = "asked"
  /\ task[r].at = "answered"
  /\ UNCHANGED <<wsStatus, task, runnerVars, box, stopping, doomed, beat, faults>>

(* The row is written as running whatever has become of it meanwhile.       *)
StartSucceeds(r) ==
  /\ Answered(r, "start") /\ task[r].result = "ok"
  /\ rows' = [rows EXCEPT ![request[r].proc] = [status |-> "running", pid |-> TRUE]]
  /\ request' = [request EXCEPT ![r].at = "confirmed"]
  /\ UNCHANGED overtaken

ListTaken(r) ==
  /\ Answered(r, "list")
  /\ IF task[r].result = "ok" THEN Reconciled(task[r].report, task[r].early)
     ELSE UNCHANGED <<rows, overtaken>>
  /\ Over(r)

GetTaken(r) ==
  /\ Answered(r, "get")
  /\ IF task[r].result = "ok" /\ task[r].report[request[r].proc] = "exited"
     THEN /\ rows' = MarkedAs({request[r].proc}, "exited")
          /\ overtaken' = overtaken \cup ({request[r].proc} \cap task[r].early)
     ELSE UNCHANGED <<rows, overtaken>>
  /\ Over(r)

(* "not found" counts as gone; any other error leaves the row.              *)
StopTaken(r) ==
  /\ Answered(r, "stop")
  /\ IF task[r].result = "error" THEN UNCHANGED <<rows, overtaken>>
     ELSE /\ rows' = MarkedAs({request[r].proc},
                IF task[r].result = "unknown" THEN "killed" ELSE "exited")
          /\ overtaken' = overtaken \cup ({request[r].proc} \cap task[r].early)
  /\ Over(r)

CallRuns(r) == StartCreatesRow(r) \/ Ask(r) \/ StartFailed(r) \/ StartSucceeds(r)
               \/ ListTaken(r) \/ GetTaken(r) \/ StopTaken(r)

-----------------------------------------------------------------------------
(* The runner                                                               *)

TaskIs(r, kind, at) == request[r].kind = kind /\ task[r].at = at
Steps(r, at) == task' = [task EXCEPT ![r].at = at]
AnswersWith(r, t) == task' = [task EXCEPT ![r] = [NoTask EXCEPT !.at = "answered", !.result = t]]
Unknown == Procs \ known

(* start_background_process: the shell returns the pid of the process it has*)
(* detached; then the entry is added.                                       *)
Spawns(r) ==
  /\ TaskIs(r, "start", "sent")
  /\ IF box = "running"
     THEN os' = [os EXCEPT ![request[r].proc] = "alive"] /\ Steps(r, "spawned")
     ELSE AnswersWith(r, "error") /\ UNCHANGED os
  /\ UNCHANGED <<rows, wsStatus, request, tracked, box, stopping, doomed, beat, faults,
                 forgotten, history>>

Tracks(r) ==
  /\ TaskIs(r, "start", "spawned")
  /\ tracked' = tracked \cup {request[r].proc}
  /\ known' = known \cup {request[r].proc}
  /\ AnswersWith(r, "ok")
  /\ UNCHANGED <<rows, wsStatus, request, os, box, stopping, doomed, beat, faults, forgotten,
                 overtaken>>

(* list_background_processes copies the entries and probes one after the    *)
(* other; get_background_status has one.                                    *)
Looks(r) ==
  /\ request[r].kind \in {"list", "get"} /\ task[r].at = "sent"
  /\ LET todo == IF request[r].kind = "list" THEN tracked ELSE tracked \cap {request[r].proc} IN
     IF request[r].kind = "get" /\ todo = {}
     THEN AnswersWith(r, "error")
     ELSE task' = [task EXCEPT ![r] = [NoTask EXCEPT !.at = "probing", !.todo = todo,
                                                     !.early = Unknown]]
  /\ UNCHANGED <<rows, wsStatus, request, runnerVars, box, stopping, doomed, beat, faults,
                 overtaken>>

Probes(r) ==
  /\ task[r].at = "probing" /\ request[r].kind \in {"list", "get"}
  /\ IF task[r].todo = {}
     THEN task' = [task EXCEPT ![r].at = "answered", ![r].result = "ok"]
     ELSE \E p \in task[r].todo :
            task' = [task EXCEPT ![r].todo = @ \ {p}, ![r].report[p] = SaysOf(p)]
  /\ UNCHANGED <<rows, wsStatus, request, runnerVars, box, stopping, doomed, beat, faults,
                 overtaken>>

(* stop_background_process: a process that has ended is only dropped.       *)
StopFinds(r) ==
  /\ TaskIs(r, "stop", "sent")
  /\ IF request[r].proc \notin tracked
     THEN task' = [task EXCEPT ![r] = [NoTask EXCEPT !.at = "answered", !.result = "not found",
                                                     !.early = Unknown]]
     ELSE Steps(r, IF os[request[r].proc] = "alive" THEN "found" ELSE "dead")
  /\ UNCHANGED <<rows, wsStatus, request, runnerVars, box, stopping, doomed, beat, faults,
                 overtaken>>

(* SIGTERM: the process dies of it, ends with an exit code, or ignores it.  *)
Terminates(r) ==
  /\ TaskIs(r, "stop", "found")
  /\ \E how \in {"gone", "exited", "alive"} :
       os' = [os EXCEPT ![request[r].proc] = IF @ = "alive" THEN how ELSE @]
  /\ Steps(r, "termed")
  /\ UNCHANGED <<rows, wsStatus, request, tracked, box, stopping, doomed, beat, faults,
                 forgotten, history>>

(* Mutant: no SIGKILL after the grace period.                               *)
WaitsOnly(r) ==
  /\ TaskIs(r, "stop", "termed")
  /\ Steps(r, "dead")
  /\ UNCHANGED <<rows, wsStatus, request, runnerVars, box, stopping, doomed, beat, faults,
                 overtaken>>

(* The end of the grace period: SIGKILL for what is still alive.            *)
Escalates(r) ==
  /\ TaskIs(r, "stop", "termed")
  /\ os' = [os EXCEPT ![request[r].proc] = IF @ = "alive" THEN "gone" ELSE @]
  /\ Steps(r, "dead")
  /\ UNCHANGED <<rows, wsStatus, request, tracked, box, stopping, doomed, beat, faults,
                 forgotten, history>>

Drops(r) ==
  /\ TaskIs(r, "stop", "dead")
  /\ tracked' = tracked \ {request[r].proc}
  /\ AnswersWith(r, IF os[request[r].proc] = "exited" THEN "exited" ELSE "unknown")
  /\ UNCHANGED <<rows, wsStatus, request, os, box, stopping, doomed, beat, faults, forgotten,
                 history>>

RunnerRuns(r) == Spawns(r) \/ Tracks(r) \/ Looks(r) \/ Probes(r) \/ StopFinds(r)
                 \/ Terminates(r) \/ Escalates(r) \/ Drops(r)

(* A process ends by itself, with an exit code unless its shell is killed.  *)
ProcessEnds(p) ==
  /\ os[p] = "alive"
  /\ \E how \in {"exited", "gone"} : os' = [os EXCEPT ![p] = how]
  /\ UNCHANGED <<rows, wsStatus, request, task, tracked, box, stopping, doomed, beat, faults,
                 forgotten, history>>

(* The runner's process restarts: entries, handlers and a heartbeat under   *)
(* way are gone.                                                            *)
RunnerRestarts ==
  /\ faults < MaxFaults /\ faults' = faults + 1
  /\ tracked' = {}
  /\ forgotten' = forgotten \cup {p \in Procs : os[p] = "alive"}
  /\ task' = [r \in Requests |-> IF task[r].at = "answered" THEN task[r] ELSE [NoTask EXCEPT !.at = "lost"]]
  /\ beat' = IF beat.at = "sent" THEN beat ELSE NoBeat
  /\ stopping' = IF stopping \in {"sent", "killing"} THEN "no" ELSE stopping
  /\ doomed' = {}
  /\ known' = known \cup {p \in Procs : os[p] = "alive"}
  /\ UNCHANGED <<rows, wsStatus, request, os, box, overtaken>>

-----------------------------------------------------------------------------
(* Stop and resume of the workspace                                         *)

StopSent ==
  /\ stopping = "no" /\ wsStatus = "running" /\ faults < MaxFaults
  /\ stopping' = "sent" /\ faults' = faults + 1
  /\ UNCHANGED <<rows, wsStatus, request, task, runnerVars, box, doomed, beat, overtaken>>

(* _kill_all_background_processes kills what it has copied, then drops all  *)
(* entries of the workspace, those added meanwhile too.                     *)
KillsAll ==
  /\ stopping = "sent" /\ stopping' = "killing"
  /\ doomed' = tracked
  /\ os' = [p \in Procs |-> IF p \in tracked /\ os[p] = "alive" THEN "gone" ELSE os[p]]
  /\ UNCHANGED <<rows, wsStatus, request, task, tracked, box, beat, faults, forgotten, history>>

(* The instance stops, and with it every process; workspace:stopped follows.*)
DropsAll ==
  /\ stopping = "killing" /\ stopping' = "dropped"
  /\ IF doomed = {} THEN UNCHANGED <<tracked, forgotten>>
     ELSE /\ tracked' = {}
          /\ forgotten' = forgotten \cup {p \in tracked : os[p] = "alive"}
  /\ doomed' = {}
  /\ UNCHANGED <<rows, wsStatus, request, task, os, box, beat, faults, history>>

InstanceStops ==
  /\ stopping = "dropped" /\ stopping' = "stopped"
  /\ box' = "exited"
  /\ os' = [p \in Procs |-> IF os[p] = "alive" THEN "gone" ELSE os[p]]
  /\ UNCHANGED <<rows, wsStatus, request, task, tracked, doomed, beat, faults, forgotten, history>>

(* handle_workspace_stopped                                                 *)
HandleStopped ==
  /\ stopping = "stopped" /\ stopping' = "no"
  /\ wsStatus' = "stopped"
  /\ KilledWithWorkspace({})
  /\ UNCHANGED <<request, task, runnerVars, box, doomed, beat, faults>>

Resumes ==
  /\ stopping = "no" /\ wsStatus = "stopped" /\ box = "exited"
  /\ box' = "running" /\ stopping' = "resumed"
  /\ UNCHANGED <<rows, wsStatus, request, task, runnerVars, doomed, beat, faults, overtaken>>

HandleResumed ==
  /\ stopping = "resumed" /\ stopping' = "no" /\ wsStatus' = "running"
  /\ UNCHANGED <<rows, request, task, runnerVars, box, doomed, beat, faults, overtaken>>

-----------------------------------------------------------------------------
(* The heartbeat                                                            *)

(* get_workspace_heartbeat_statuses reads the status first, then iterates   *)
(* over the entries themselves, with awaits between them.                   *)
BeatBegins ==
  /\ beat.at = "idle"
  /\ beat' = [at |-> "collecting", box |-> box, begun |-> tracked, todo |-> tracked,
              report |-> NoReport, early |-> Unknown]
  /\ UNCHANGED <<rows, wsStatus, request, task, runnerVars, box, stopping, doomed, faults,
                 overtaken>>

(* A dictionary that changes under its iterator raises: the whole heartbeat *)
(* is given up until the next interval. Dropping all entries at once leaves *)
(* the iterator the dictionary it has.                                      *)
BeatProbes ==
  /\ beat.at = "collecting"
  /\ IF beat.begun # tracked /\ tracked # {} THEN beat' = NoBeat
     ELSE IF beat.todo = {} THEN beat' = [beat EXCEPT !.at = "sent"]
     ELSE \E p \in beat.todo :
            beat' = [beat EXCEPT !.todo = @ \ {p}, !.report[p] = SaysOf(p)]
  /\ UNCHANGED <<rows, wsStatus, request, task, runnerVars, box, stopping, doomed, faults,
                 overtaken>>

(* handle_heartbeat, as far as it concerns processes.                       *)
HandleHeartbeat ==
  /\ beat.at = "sent" /\ beat' = NoBeat
  /\ wsStatus' = IF beat.box = "running" THEN "running" ELSE "stopped"
  /\ IF beat.box = "running" THEN Reconciled(beat.report, beat.early)
     ELSE KilledWithWorkspace(beat.early)
  /\ UNCHANGED <<request, task, runnerVars, box, stopping, doomed, faults>>

HeartbeatLost ==
  /\ beat.at = "sent" /\ faults < MaxFaults
  /\ faults' = faults + 1 /\ beat' = NoBeat
  /\ UNCHANGED <<rows, wsStatus, request, task, runnerVars, box, stopping, doomed, overtaken>>

Beats == BeatBegins \/ BeatProbes \/ HandleHeartbeat
Stops == KillsAll \/ DropsAll \/ InstanceStops \/ HandleStopped \/ Resumes \/ HandleResumed

Next ==
  \/ \E r \in Requests :
       \/ \E p \in Procs : StartChecked(r, p) \/ \E kind \in {"get", "stop"} : LookChecked(r, kind, p)
       \/ LookChecked(r, "list", None)
       \/ AskFails(r) \/ CallCancelled(r) \/ CallRuns(r) \/ RunnerRuns(r)
  \/ \E p \in Procs : ProcessEnds(p)
  \/ RunnerRestarts \/ StopSent \/ Stops \/ Beats \/ HeartbeatLost

Spec == Init /\ [][Next]_vars

(* The heartbeat loop goes on, and the backend handles what it receives.    *)
Fairness == WF_vars(Beats) /\ WF_vars(Stops)
FairSpec == Spec /\ Fairness
-----------------------------------------------------------------------------
(* Properties                                                               *)

Reports == [Procs -> {"absent", "running", "exited", "unknown"}]

TypeOK ==
  /\ rows \in [Procs -> [status : {"none", "running", "exited", "killed", "failed"}, pid : BOOLEAN]]
  /\ wsStatus \in {"running", "stopped"} /\ box \in {"running", "exited"}
  /\ request \in [Requests -> [kind : {"none", "start", "list", "get", "stop"},
                               proc : Procs \cup {None},
                               at : {"idle", "checked", "ready", "asked", "failed", "confirmed",
                                     "over"}]]
  /\ task \in [Requests -> [at : {"none", "sent", "spawned", "probing", "found", "termed", "dead",
                                  "answered", "lost"},
                            result : {"none", "ok", "error", "not found", "exited", "unknown"},
                            report : Reports, todo : SUBSET Procs, early : SUBSET Procs]]
  /\ os \in [Procs -> {"none", "alive", "exited", "gone"}]
  /\ tracked \in SUBSET Procs /\ doomed \in SUBSET Procs
  /\ stopping \in {"no", "sent", "killing", "dropped", "stopped", "resumed"}
  /\ beat \in [at : {"idle", "collecting", "sent"}, box : {"running", "exited"},
               begun : SUBSET Procs, todo : SUBSET Procs, report : Reports, early : SUBSET Procs]
  /\ faults \in 0..MaxFaults
  /\ known \in SUBSET Procs /\ forgotten \in SUBSET Procs /\ overtaken \in SUBSET Procs

(* The start of p has returned a running process.                           *)
Confirmed(p) == \E r \in Requests : request[r].proc = p /\ request[r].at = "confirmed"

(* A process whose row says it exited or was killed is dead, unless the     *)
(* runner lost its entry or an answer formed before the entry was there     *)
(* wrote it off: the code has no third way to hide a live process.          *)
EndedIsDead == \A p \in Procs :
  Confirmed(p) /\ Ended(rows[p].status) /\ os[p] = "alive" => p \in forgotten \cup overtaken

(* A confirmed process that ends with an exit code, or that the runner no   *)
(* longer tracks, does not stay "running": the heartbeats see to it, though *)
(* single ones are lost, collide with a change of the entries or come late. *)
ExitIsNoticed == \A p \in Procs :
  (rows[p].status = "running" /\ rows[p].pid /\ (os[p] = "exited" \/ p \in known \ tracked))
    ~> rows[p].status # "running"
=============================================================================
