------------------------- MODULE WorkspaceLifecycle -------------------------
(***************************************************************************)
(* One workspace, the runner that hosts it and the requests made to it.    *)
(*                                                                         *)
(* API requests are coroutines whose database calls each run in the        *)
(* request's own thread. Everything the runner reports is handled in the   *)
(* one thread of the Socket.IO application, a statement at a time. The     *)
(* runner handles each command in a task of its own. A connection is an    *)
(* ordered channel in each direction; what is on its way when it breaks    *)
(* is lost.                                                                *)
(***************************************************************************)
EXTENDS Naturals, Sequences, FiniteSets

CONSTANTS
  Requests,  \* stop, resume and remove requests users (or the auto-stop) make
  Creation,  \* the request that creates the workspace
  Conns,     \* connections the runner opens, one after the other
  First,     \* the one that is open when the workspace is created
  NoConn,    \* Runner.sid = ""
  NoTask,    \* a cleanup command has no task
  Inputs,    \* bound: how many things happen to the workspace (see Input)
  FreeBeats  \* bound: heartbeats go on when that many have happened

ASSUME ConnAssumption == First \in Conns /\ NoConn \notin Conns
ASSUME TaskAssumption ==
  /\ Creation \notin Requests /\ NoTask \notin Requests \cup Conns \cup {Creation}
  /\ (Requests \cup {Creation}) \cap Conns = {}

VARIABLES
  status, op,   \* Workspace.status and Workspace.active_operation
  task,         \* Task.status; a task is named by the request or dispatch that made it
  sid,          \* Runner.sid and, with it, Runner.status
  req,          \* where each request is
  kind,         \* what each request asks for
  seen,         \* the status and the sid a request loaded
  link,         \* the transport connection that is up
  reg,          \* where the handling of each connection's runner:register is
  gone,         \* where the handling of each connection's end is
  picked,       \* the deletion task a registration dispatches
  toBackend,    \* what the runner reports, in order
  jobs,         \* commands the runner is working on
  inst,         \* the container or VM, as the runtime lists it
  cache,        \* the runner's entry for it: "noid" and "creating" while it is
                \* created, before and after its id is known; "known" afterwards
  listed,       \* what the heartbeat's sync was told by the runtime
  worker,       \* statements left to the Socket.IO thread's current handler
  beat,         \* a heartbeat received and not handled yet
  cleanup,      \* _pending_unknown_workspace_cleanup
  inputs,       \* how many inputs there have been
  raced,        \* history: a request was let through by a stale check, or a
                \* deletion in progress was overwritten with a stale status
  leaked        \* history: an instance was left behind that the cache has dropped

rowVars == <<status, op>>
reqVars == <<req, kind, seen>>
connVars == <<sid, link, reg, gone, picked>>
hostVars == <<jobs, inst, cache, listed, leaked>>
handlerVars == <<worker, beat, cleanup>>
vars == <<rowVars, task, reqVars, connVars, toBackend, hostVars, handlerVars, inputs, raced>>

Callers == Requests \cup {Creation}
Tasks == Callers \cup Conns
Kinds == {"create", "stop", "resume", "remove"}
InDeletion == {"pending_deletion", "deleting", "deleted"}
Statuses == InDeletion \cup {"creating", "running", "stopped", "failed", "delete_failed"}
Instances == {"absent", "exited", "running"}
Reports == Instances \cup {"creating"}
Active == {"pending", "in_progress"}

KindOf(t) == IF t \in Callers THEN kind[t] ELSE "remove"

(* _task_workspace_operation                                                *)
OperationOf(k) ==
  CASE k = "create" -> "creating" [] k = "stop" -> "stopping"
    [] k = "resume" -> "starting" [] k = "remove" -> "removing"

NothingSeen == [status |-> "none", sid |-> NoConn]

InitBackend ==
  /\ op = "none" /\ sid = First /\ link = First
  /\ reg = [c \in Conns |-> IF c = First THEN "done" ELSE "unused"]
  /\ gone = [c \in Conns |-> "no"]
  /\ picked = [c \in Conns |-> NoTask]
  /\ toBackend = <<>> /\ jobs = {}
  /\ worker = <<>> /\ beat = "none" /\ cleanup = FALSE
  /\ raced = FALSE /\ leaked = FALSE /\ listed = "none"

(* create_workspace has written its records and dispatches the task.        *)
BeingCreated ==
  /\ status = "creating" /\ inst = "absent" /\ cache = "absent"
  /\ task = [t \in Tasks |-> IF t = Creation THEN "pending" ELSE "none"]
  /\ req = [r \in Callers |-> IF r = Creation THEN "setop" ELSE "ready"]
  /\ seen = [r \in Callers |-> IF r = Creation THEN [status |-> "creating", sid |-> First]
                                                ELSE NothingSeen]
  /\ inputs = 1

InUse ==
  /\ status = "running" /\ inst = "running" /\ cache = "known"
  /\ task = [t \in Tasks |-> IF t = Creation THEN "completed" ELSE "none"]
  /\ req = [r \in Callers |-> IF r = Creation THEN "returned" ELSE "ready"]
  /\ seen = [r \in Callers |-> NothingSeen]
  /\ inputs = 0

Init ==
  /\ InitBackend /\ (BeingCreated \/ InUse)
  /\ kind = [r \in Callers |-> IF r = Creation THEN "create" ELSE "stop"]

-----------------------------------------------------------------------------
(* API requests                                                             *)

(* The inputs are the workspace's creation, the requests, the failures, the *)
(* losses of the connection and the heartbeats.                             *)
Input == inputs < Inputs /\ inputs' = inputs + 1

(* Mutant: what the request loaded is forgotten when its dispatch fails.    *)
LoadedNotKept(r, from, to) ==
  /\ req[r] = from
  /\ req' = [req EXCEPT ![r] = to]
  /\ seen' = IF to \in {"rollback", "returned"} THEN [seen EXCEPT ![r] = NothingSeen] ELSE seen

(* What a request loaded is forgotten when it returns.                      *)
RequestStep(r, from, to) ==
  /\ req[r] = from
  /\ req' = [req EXCEPT ![r] = to]
  /\ seen' = IF to = "returned" THEN [seen EXCEPT ![r] = NothingSeen] ELSE seen

(* A request that was accepted and has not yet written what keeps the       *)
(* others out.                                                              *)
Unmarked(r) == req[r] \in {"accepted", "marking", "setop"}

(* Mutant: a removal does not look at active_operation.                     *)
RemovesAlways(k) ==
  CASE k = "stop"   -> status = "running" /\ op = "none" /\ sid # NoConn
    [] k = "resume" -> status = "stopped" /\ op = "none" /\ sid # NoConn
    [] k = "remove" -> status \notin InDeletion

(* _ensure_workspace_available and the checks on the status and the runner  *)
Accepts(k) ==
  CASE k = "stop"   -> status = "running" /\ op = "none" /\ sid # NoConn
    [] k = "resume" -> status = "stopped" /\ op = "none" /\ sid # NoConn
    [] k = "remove" -> status \notin InDeletion /\ op \in {"none", "removing"}

(* A request that is refused leaves no trace.                               *)
Load(r, k) ==
  /\ Input
  /\ Accepts(k)
  /\ req[r] = "ready" /\ req' = [req EXCEPT ![r] = "accepted"]
  /\ kind' = [kind EXCEPT ![r] = k]
  /\ seen' = [seen EXCEPT ![r] = [status |-> status, sid |-> sid]]
  /\ raced' = (raced \/ \E s \in Callers : Unmarked(s))
  /\ UNCHANGED <<rowVars, task, connVars, toBackend, hostVars, handlerVars>>

CreateTask(r) ==
  /\ RequestStep(r, "accepted", IF kind[r] = "remove" THEN "marking" ELSE "setop")
  /\ task' = [task EXCEPT ![r] = "pending"]
  /\ UNCHANGED <<rowVars, kind, connVars, toBackend, hostVars, handlerVars, inputs, raced>>

MarkDeleting(r) ==
  /\ seen[r].sid # NoConn
  /\ RequestStep(r, "marking", "setop")
  /\ status' = "deleting" /\ op' = "none"
  /\ UNCHANGED <<task, kind, connVars, toBackend, hostVars, handlerVars, inputs, raced>>

MarkPendingDeletion(r) ==
  /\ seen[r].sid = NoConn
  /\ RequestStep(r, "marking", "returned")
  /\ status' = "pending_deletion" /\ op' = "none"
  /\ UNCHANGED <<task, kind, connVars, toBackend, hostVars, handlerVars, inputs, raced>>

(* Mutant: only creations and removals set active_operation.                *)
SetsSomeOperations(r) ==
  /\ RequestStep(r, "setop", "emitting")
  /\ op' = IF kind[r] \in {"create", "remove"} THEN OperationOf(kind[r]) ELSE op
  /\ UNCHANGED <<status, task, kind, connVars, toBackend, hostVars, handlerVars, inputs, raced>>

SetOperation(r) ==
  /\ RequestStep(r, "setop", "emitting")
  /\ op' = OperationOf(kind[r])
  /\ UNCHANGED <<status, task, kind, connVars, toBackend, hostVars, handlerVars, inputs, raced>>

(* sio.emit to the sid the request loaded: dropped when that is not (any    *)
(* more) a connection.                                                      *)
Send(m, to) == jobs' = IF to = link THEN jobs \cup {[cmd |-> m, at |-> "start"]} ELSE jobs

Emit(r) ==
  /\ RequestStep(r, "emitting", "sent")
  /\ Send([kind |-> kind[r], task |-> r, from |-> r], seen[r].sid)
  /\ UNCHANGED <<rowVars, task, kind, connVars, toBackend, inst, cache, listed, leaked,
                 handlerVars, inputs, raced>>

(* mark_in_progress saves the task object the request created, whatever has *)
(* been saved since.                                                        *)
MarkInProgress(r) ==
  /\ RequestStep(r, "sent", "returned")
  /\ task' = [task EXCEPT ![r] = "in_progress"]
  /\ UNCHANGED <<rowVars, kind, connVars, toBackend, hostVars, handlerVars, inputs, raced>>

EmitFails(r) ==
  /\ Input
  /\ RequestStep(r, "emitting", "rollback")
  /\ UNCHANGED <<rowVars, task, kind, connVars, toBackend, hostVars, handlerVars, raced>>

RollbackOperation(r) ==
  /\ RequestStep(r, "rollback", "failtask")
  /\ op' = "none"
  /\ UNCHANGED <<status, task, kind, connVars, toBackend, hostVars, handlerVars, inputs, raced>>

FailTask(r) ==
  /\ RequestStep(r, "failtask", IF kind[r] = "remove" THEN "restore" ELSE "returned")
  /\ task' = [task EXCEPT ![r] = "failed"]
  /\ UNCHANGED <<rowVars, kind, connVars, toBackend, hostVars, handlerVars, inputs, raced>>

(* Another removal is under way: requested, delivered again by a            *)
(* registration, at the runner, or answered and not yet handled.            *)
OtherRemoval(r) ==
  \/ \E s \in Callers \ {r} : kind[s] = "remove" /\ req[s] \notin {"ready", "sent", "returned"}
  \/ \E c \in Conns : reg[c] \in {"pending_deletion", "deleting", "marking", "emitting"}
  \/ \E j \in jobs : j.cmd.kind = "remove"
  \/ \E i \in DOMAIN toBackend : toBackend[i].kind = "remove"
  \/ \E i \in DOMAIN worker : worker[i].col = "deletion"

RestoreStatus(r) ==
  /\ RequestStep(r, "restore", "returned")
  /\ status' = seen[r].status
  /\ raced' = (raced \/ OtherRemoval(r))
  /\ UNCHANGED <<op, task, kind, connVars, toBackend, hostVars, handlerVars, inputs>>

RequestRuns(r) ==
  \/ CreateTask(r) \/ MarkDeleting(r) \/ MarkPendingDeletion(r) \/ SetOperation(r)
  \/ Emit(r) \/ MarkInProgress(r) \/ RollbackOperation(r) \/ FailTask(r)
  \/ RestoreStatus(r)

-----------------------------------------------------------------------------
(* The connection                                                           *)

(* sync_from_runtime replaces the cache by what the runtime lists, except   *)
(* for an entry of an instance that is being created.                       *)
Synced(l) ==
  IF l # "absent" THEN "known" ELSE IF cache \in {"noid", "creating"} THEN cache ELSE "absent"

(* The runner's connect handler syncs its cache, then registers.            *)
Connect(c) ==
  /\ link = NoConn /\ reg[c] = "unused"
  /\ link' = c /\ reg' = [reg EXCEPT ![c] = "announced"]
  /\ cache' = Synced(inst)
  /\ UNCHANGED <<rowVars, task, reqVars, sid, gone, picked, toBackend, jobs, inst, listed, leaked,
                 handlerVars, inputs, raced>>

(* The server has received some of what the runner sent, the rest is lost   *)
(* with the connection, and the runner's heartbeat task is cancelled.       *)
Disconnect ==
  /\ Input /\ \E c \in Conns : reg[c] = "unused"
  /\ link # NoConn
  /\ link' = NoConn /\ gone' = [gone EXCEPT ![link] = "dropped"]
  /\ \E lost \in SUBSET {j \in jobs : j.at = "start"} : jobs' = jobs \ lost
  /\ \E n \in 0..Len(toBackend) : toBackend' = SubSeq(toBackend, 1, n)
  /\ listed' = "none"
  /\ UNCHANGED <<rowVars, task, reqVars, sid, reg, picked, inst, cache, leaked, handlerVars,
                 raced>>

Idle == worker = <<>>

(* unregister_runner, which finds the runner by the sid that is gone        *)
Unregister(c) ==
  /\ Idle /\ gone[c] = "dropped"
  /\ gone' = [gone EXCEPT ![c] = "handled"]
  /\ sid' = IF sid = c THEN NoConn ELSE sid
  /\ UNCHANGED <<rowVars, task, reqVars, link, reg, picked, toBackend, hostVars, handlerVars,
                 inputs, raced>>

RegisterStep(c, from, to) == reg[c] = from /\ reg' = [reg EXCEPT ![c] = to]

Register(c) ==
  /\ Idle /\ RegisterStep(c, "announced", "listing")
  /\ sid' = c
  /\ UNCHANGED <<rowVars, task, reqVars, link, gone, picked, toBackend, hostVars, handlerVars,
                 inputs, raced>>

(* dispatch_pending_workspace_deletions: list, find or create the task,     *)
(* mark, emit, mark the task.                                               *)
NothingPending(c) ==
  /\ status \notin {"pending_deletion", "deleting"}
  /\ RegisterStep(c, "listing", "done")
  /\ UNCHANGED <<rowVars, task, reqVars, sid, link, gone, picked, toBackend, hostVars,
                 handlerVars, inputs, raced>>

ListPending(c) ==
  /\ status \in {"pending_deletion", "deleting"}
  /\ RegisterStep(c, "listing", status)
  /\ UNCHANGED <<rowVars, task, reqVars, sid, link, gone, picked, toBackend, hostVars,
                 handlerVars, inputs, raced>>

ActiveRemovals == {t \in Tasks : KindOf(t) = "remove" /\ task[t] \in Active}

(* Mutant: a deletion that has an open task counts as delivered.            *)
SkipsDelivered(c) ==
  /\ \E t \in ActiveRemovals :
       picked' = [picked EXCEPT ![c] = IF reg[c] = "deleting" THEN NoTask ELSE t]
  /\ \/ RegisterStep(c, "deleting", "done")
     \/ RegisterStep(c, "pending_deletion", "marking")
  /\ UNCHANGED <<rowVars, task, reqVars, sid, link, gone, toBackend, hostVars, handlerVars,
                 inputs, raced>>

ReuseTask(c) ==
  /\ \E t \in ActiveRemovals : picked' = [picked EXCEPT ![c] = t]
  /\ \/ RegisterStep(c, "deleting", "emitting")
     \/ RegisterStep(c, "pending_deletion", "marking")
  /\ UNCHANGED <<rowVars, task, reqVars, sid, link, gone, toBackend, hostVars, handlerVars,
                 inputs, raced>>

NewTask(c) ==
  /\ ActiveRemovals = {}
  /\ reg[c] \in {"deleting", "pending_deletion"}
  /\ reg' = [reg EXCEPT ![c] = "marking"]
  /\ picked' = [picked EXCEPT ![c] = c]
  /\ task' = [task EXCEPT ![c] = "pending"]
  /\ UNCHANGED <<rowVars, reqVars, sid, link, gone, toBackend, hostVars, handlerVars, inputs,
                 raced>>

DispatchMarks(c) ==
  /\ RegisterStep(c, "marking", "emitting")
  /\ status' = "deleting" /\ op' = "none"
  /\ UNCHANGED <<task, reqVars, sid, link, gone, picked, toBackend, hostVars, handlerVars,
                 inputs, raced>>

DispatchEmits(c) ==
  /\ RegisterStep(c, "emitting", "sent")
  /\ Send([kind |-> "remove", task |-> picked[c], from |-> c], c)
  /\ UNCHANGED <<rowVars, task, reqVars, sid, link, gone, picked, toBackend, inst, cache,
                 listed, leaked,
                 handlerVars, inputs, raced>>

DispatchEnds(c) ==
  /\ RegisterStep(c, "sent", "done")
  /\ task' = [task EXCEPT ![picked[c]] = "in_progress"]
  /\ picked' = [picked EXCEPT ![c] = NoTask]
  /\ UNCHANGED <<rowVars, reqVars, sid, link, gone, toBackend, hostVars, handlerVars, inputs,
                 raced>>

ConnectionHandled(c) ==
  \/ Unregister(c) \/ Register(c) \/ NothingPending(c) \/ ListPending(c) \/ ReuseTask(c)
  \/ NewTask(c) \/ DispatchMarks(c) \/ DispatchEmits(c) \/ DispatchEnds(c)

-----------------------------------------------------------------------------
(* The runner                                                               *)

JobStep(j, from, to) ==
  /\ j.at = from
  /\ jobs' = (jobs \ {j}) \cup {[j EXCEPT !.at = to]}
  /\ UNCHANGED <<rowVars, task, reqVars, connVars, toBackend, listed, handlerVars, inputs, raced>>

HasId == cache \in {"creating", "known"}
HasInstance == inst # "absent"

(* create_workspace: cache entry, VM or container defined, started, set up. *)
CreateBegins(j) ==
  /\ j.cmd.kind = "create"
  /\ JobStep(j, "start", "boot")
  /\ cache' = "noid"
  /\ UNCHANGED <<inst, leaked>>

CreateDefines(j) ==
  /\ JobStep(j, "boot", "defined")
  /\ inst' = "exited"
  /\ UNCHANGED <<cache, leaked>>

CreateBoots(j) ==
  /\ \/ JobStep(j, "boot", "setup")
     \/ JobStep(j, "defined", "setup")
  /\ inst' = "running" /\ cache' = "creating"
  /\ UNCHANGED leaked

CreateEnds(j) ==
  /\ \/ cache # "absent" /\ JobStep(j, "setup", "ok") /\ cache' = "known"
     \/ JobStep(j, "setup", "failed") /\ UNCHANGED cache
  /\ UNCHANGED <<inst, leaked>>

(* A VM that does not answer in time is left to the clean-up of unknown     *)
(* instances.                                                               *)
CreateFails(j) ==
  /\ \/ JobStep(j, "boot", "failed") /\ inst' \in {"absent", "running"}
     \/ JobStep(j, "defined", "failed") /\ inst' \in {"exited", "running"}
  /\ cache' = "absent"
  /\ leaked' = (leaked \/ inst' # "absent")

Stops(j) ==
  /\ j.cmd.kind = "stop"
  /\ \/ HasId /\ HasInstance /\ inst' = "exited" /\ cache' = "known" /\ JobStep(j, "start", "ok")
     \/ UNCHANGED <<inst, cache>> /\ JobStep(j, "start", "failed")
  /\ UNCHANGED leaked

Resumes(j) ==
  /\ j.cmd.kind = "resume"
  /\ \/ /\ HasId /\ HasInstance /\ inst' = "running" /\ cache' = "known"
        /\ JobStep(j, "start", "ok") \/ JobStep(j, "start", "failed")
     \/ UNCHANGED <<inst, cache>> /\ JobStep(j, "start", "failed")
  /\ UNCHANGED leaked

(* remove_workspace and cleanup_unknown_workspace drop the cache entry and, *)
(* if it holds an id, then remove the instance.                             *)
Uncaches(j) ==
  /\ j.cmd.kind \in {"remove", "cleanup"}
  /\ JobStep(j, "start", IF HasId THEN "removing" ELSE "ok")
  /\ cache' = "absent"
  /\ UNCHANGED <<inst, leaked>>

Removes(j) ==
  /\ JobStep(j, "removing", "ok")
  /\ inst' = "absent"
  /\ UNCHANGED <<cache, leaked>>

(* Docker's error is reported, libvirt's is logged only.                    *)
RemoveFails(j) ==
  /\ HasInstance
  /\ JobStep(j, "removing", "failed") \/ JobStep(j, "removing", "ok")
  /\ inst' \in {inst, "exited"}
  /\ leaked' = TRUE
  /\ UNCHANGED cache

Works(j) ==
  \/ CreateBegins(j) \/ CreateDefines(j) \/ CreateBoots(j) \/ CreateEnds(j)
  \/ CreateFails(j) \/ Stops(j) \/ Resumes(j) \/ Uncaches(j) \/ Removes(j) \/ RemoveFails(j)

Sends(m) == toBackend' = IF link # NoConn THEN Append(toBackend, m) ELSE toBackend

Reply(j) ==
  /\ j.at \in {"ok", "failed"}
  /\ jobs' = jobs \ {j}
  /\ Sends([kind |-> j.cmd.kind, task |-> j.cmd.task, ok |-> j.at = "ok"])
  /\ UNCHANGED <<rowVars, task, reqVars, connVars, inst, cache, listed, leaked, handlerVars,
                 inputs, raced>>

(* One heartbeat at a time is under way.                                    *)
BeatUnderWay ==
  listed # "none" \/ beat # "none" \/ \E i \in DOMAIN toBackend : toBackend[i].kind = "beat"

ListInstances ==
  /\ Input \/ (FreeBeats /\ inputs = Inputs /\ UNCHANGED inputs)
  /\ link # NoConn /\ ~BeatUnderWay
  /\ listed' = inst
  /\ UNCHANGED <<rowVars, task, reqVars, connVars, toBackend, jobs, inst, cache, leaked,
                 handlerVars,
                 raced>>

(* What the runtime listed may be out of date when it replaces the cache.   *)
SendBeat ==
  /\ listed # "none"
  /\ listed' = "none" /\ cache' = Synced(listed)
  /\ leaked' = (leaked \/ (cache' = "absent" /\ HasInstance))
  /\ Sends([kind |-> "beat",
            inst |-> IF cache' \in {"noid", "creating"} THEN "creating" ELSE listed])
  /\ UNCHANGED <<rowVars, task, reqVars, connVars, jobs, inst, handlerVars, inputs, raced>>

Heartbeat == ListInstances \/ SendBeat

(* The container or VM stops, or disappears, without the runner's doing.    *)
InstanceDies ==
  /\ Input
  /\ HasInstance
  /\ inst' \in {"exited", "absent"}
  /\ UNCHANGED <<rowVars, task, reqVars, connVars, toBackend, jobs, cache, listed, leaked,
                 handlerVars,
                 raced>>

-----------------------------------------------------------------------------
(* Handlers of what the runner reports                                      *)

Write(col, val) == [col |-> col, of |-> NoTask, val |-> val]
WriteTask(t, val) == [col |-> "task", of |-> t, val |-> val]

OnCreated(t) == <<Write("status", "running"), Write("op", "none"), WriteTask(t, "completed")>>
OnStopped(t) == <<Write("status", "stopped"), Write("op", "none"), WriteTask(t, "completed")>>
OnResumed(t) == <<Write("status", "running"), Write("op", "none"), WriteTask(t, "completed")>>
OnRemoved(t) == <<Write("deletion", "deleted"), WriteTask(t, "completed")>>
(* Mutant: only a failed creation or removal clears active_operation.       *)
ErrorKeepsOperation(t) ==
  (CASE KindOf(t) = "create" -> <<Write("op", "none"), Write("status", "failed")>>
     [] KindOf(t) = "remove" -> <<Write("deletion", "delete_failed")>>
     [] OTHER -> <<>>)
  \o <<WriteTask(t, "failed")>>

OnError(t) ==
  <<Write("op", "none")>>
  \o (CASE KindOf(t) = "create" -> <<Write("status", "failed")>>
        [] KindOf(t) = "remove" -> <<Write("deletion", "delete_failed")>>
        [] OTHER -> <<>>)
  \o <<WriteTask(t, "failed")>>

Statements(m) ==
  IF ~m.ok THEN OnError(m.task)
  ELSE CASE m.kind = "create" -> OnCreated(m.task)
         [] m.kind = "stop" -> OnStopped(m.task)
         [] m.kind = "resume" -> OnResumed(m.task)
         [] m.kind = "remove" -> OnRemoved(m.task)

HandleReply ==
  /\ Idle /\ toBackend # <<>> /\ Head(toBackend).kind \in Kinds
  /\ toBackend' = Tail(toBackend)
  /\ worker' = Statements(Head(toBackend))
  /\ UNCHANGED <<rowVars, task, reqVars, connVars, hostVars, beat, cleanup, inputs, raced>>

HandleCleanupDone ==
  /\ Idle /\ toBackend # <<>> /\ Head(toBackend).kind = "cleanup"
  /\ toBackend' = Tail(toBackend)
  /\ cleanup' = FALSE
  /\ UNCHANGED <<rowVars, task, reqVars, connVars, hostVars, worker, beat, inputs, raced>>

(* One statement of the handler. mark_deleted and mark_delete_failed write  *)
(* both columns.                                                            *)
Statement ==
  /\ ~Idle
  /\ worker' = Tail(worker)
  /\ LET w == Head(worker) IN
     /\ status' = IF w.col \in {"status", "reported", "deletion"} THEN w.val ELSE status
     /\ op' = IF w.col \in {"op", "deletion"} THEN "none" ELSE op
     /\ task' = IF w.col = "task" THEN [task EXCEPT ![w.of] = w.val] ELSE task
     /\ raced' = (raced \/ (w.col = "reported" /\ status \in InDeletion))
  /\ UNCHANGED <<reqVars, connVars, toBackend, hostVars, beat, cleanup, inputs>>

(* on_runner_heartbeat loads the runner first: later reports can overtake.  *)
ReceiveBeat ==
  /\ toBackend # <<>> /\ Head(toBackend).kind = "beat"
  /\ toBackend' = Tail(toBackend)
  /\ beat' = Head(toBackend).inst
  /\ UNCHANGED <<rowVars, task, reqVars, connVars, hostVars, worker, cleanup, inputs, raced>>

(* _map_instance_status; a status "creating" of the runner maps to nothing.   *)
Mapped(i) == CASE i = "running" -> "running" [] i = "exited" -> "stopped"

(* Mutant: a workspace that is missing from the heartbeat is passed over.   *)
PassesOverMissing(reported) ==
  IF reported \in {"absent", "creating"} \/ Mapped(reported) = status
     \/ (status = "creating" /\ reported = "running")
  THEN <<>> ELSE <<Mapped(reported)>>

Reconciled(reported) ==
  IF reported = "absent" THEN IF status \in {"running", "stopped"} THEN <<"failed">> ELSE <<>>
  ELSE IF reported = "creating" \/ Mapped(reported) = status
          \/ (status = "creating" /\ reported = "running")
       THEN <<>> ELSE <<Mapped(reported)>>

(* handle_heartbeat decides on the rows it listed; it writes when it comes  *)
(* to the workspace.                                                        *)
HandleBeat ==
  /\ Idle /\ beat # "none"
  /\ beat' = "none"
  /\ LET asks == status = "failed" /\ beat # "absent" IN
     /\ cleanup' = (asks \/ /\ cleanup /\ beat # "absent"
                            /\ status \in InDeletion \cup {"delete_failed"})
     /\ IF asks /\ ~cleanup
        THEN Send([kind |-> "cleanup", task |-> NoTask, from |-> NoTask], sid)
        ELSE UNCHANGED jobs
     /\ worker' = IF status \in InDeletion \cup {"failed", "delete_failed"} THEN <<>>
                  ELSE [i \in DOMAIN Reconciled(beat) |-> Write("reported", Reconciled(beat)[i])]
  /\ UNCHANGED <<rowVars, task, reqVars, connVars, toBackend, inst, cache, listed, leaked,
                 inputs, raced>>

Socket == HandleReply \/ HandleCleanupDone \/ Statement \/ ReceiveBeat

Backend ==
  \/ \E r \in Callers : RequestRuns(r)
  \/ \E c \in Conns : ConnectionHandled(c)
  \/ Socket \/ HandleBeat

Runner == \E j \in jobs : Works(j) \/ Reply(j)

Next ==
  \/ \E r \in Requests, k \in Kinds \ {"create"} : Load(r, k)
  \/ \E r \in Callers : EmitFails(r)
  \/ Backend \/ Runner \/ Heartbeat \/ InstanceDies
  \/ Disconnect \/ \E c \in Conns : Connect(c)

Spec == Init /\ [][Next]_vars

(* The event loops of the backend and of the runner run what is ready, the  *)
(* calls that wait for the Socket.IO thread get it in turn, the runner      *)
(* reconnects without end and sends heartbeats.                             *)
Fairness ==
  /\ WF_vars(Runner) /\ WF_vars(Heartbeat) /\ WF_vars(\E c \in Conns : Connect(c))
  /\ \A r \in Callers : WF_vars(RequestRuns(r))
  /\ \A c \in Conns : SF_vars(ConnectionHandled(c))
  /\ WF_vars(Socket) /\ SF_vars(HandleBeat)

FairSpec == Spec /\ Fairness

-----------------------------------------------------------------------------
(* Properties                                                               *)

RequestPhases == {"ready", "accepted", "marking", "setop", "emitting", "sent",
                  "rollback", "failtask", "restore", "returned"}

TypeOK ==
  /\ status \in Statuses
  /\ op \in {"none", "creating", "stopping", "starting", "removing"}
  /\ task \in [Tasks -> {"none", "pending", "in_progress", "completed", "failed"}]
  /\ req \in [Callers -> RequestPhases]
  /\ kind \in [Callers -> Kinds]
  /\ seen \in [Callers -> [status : Statuses \cup {"none"}, sid : Conns \cup {NoConn}]]
  /\ sid \in Conns \cup {NoConn} /\ link \in Conns \cup {NoConn}
  /\ inst \in Instances
  /\ cache \in {"absent", "noid", "creating", "known"}
  /\ listed \in Instances \cup {"none"} /\ beat \in Reports \cup {"none"}
  /\ cleanup \in BOOLEAN /\ raced \in BOOLEAN /\ leaked \in BOOLEAN

(* A workspace is blocked only by an operation whose task is still open:    *)
(* every handler that closes the task (created, stopped, resumed, error) and*)
(* the rollback of a failed dispatch clear active_operation first.          *)
BlockedByOpenTask ==
  op \in {"creating", "stopping", "starting"}
    => \E t \in Callers : OperationOf(kind[t]) = op /\ task[t] \in Active

Commands == {m \in {j.cmd : j \in jobs} : m.kind \in Kinds}

(* active_operation keeps the operations of a workspace apart: as long as no*)
(* request slipped through between another's check and its write, and no    *)
(* removal whose dispatch failed put its old status back over one a         *)
(* registration was delivering again, the runner is never given two         *)
(* different operations to work on at once.                                 *)
ExclusiveAtRunner == ~raced => \A m, n \in Commands : m.kind = n.kind

(* With the same proviso, a workspace the backend calls deleted has no      *)
(* container or VM, or one that the runner is removing, whatever creation,  *)
(* resume or stop preceded the removal and however often the removal was    *)
(* delivered again after a reconnect (the runner answers a removal at once  *)
(* when its cache has no entry, be it that an earlier one is still at it).  *)
(* Excepted are the instances the cache has lost: those the runtime failed  *)
(* to remove, those a failed creation left, and those that were created     *)
(* while sync_from_runtime was listing.                                     *)
DeletedIsGone == status = "deleted" /\ ~raced /\ ~leaked =>
  inst = "absent" \/ \E j \in jobs : j.at = "removing"

ToDelete == status \in {"pending_deletion", "deleting"}

(* A deletion that is pending or under way while the runner is offline comes*)
(* to an end: dispatch_pending_workspace_deletions delivers it, again if    *)
(* need be, when the runner registers.                                      *)
DeletionCompletes == (ToDelete /\ sid = NoConn) ~> ~ToDelete

(* A workspace that is shown as running although its container or VM has    *)
(* stopped or disappeared is corrected, by a heartbeat if nothing else.     *)
DeathIsNoticed ==
  (status = "running" /\ inst \in {"absent", "exited"}) ~> (status # "running" \/ inst = "running")

(* remove_workspace: "If the runner is offline, sets status to              *)
(* pending_deletion - the job will be delivered on reconnect."              *)
PendingDelivered == status = "pending_deletion" ~> status # "pending_deletion"
=============================================================================
