------------------------------ MODULE Credentials ------------------------------
(* The credentials of one workspace: those attached to its row, those on its   *)
(* disk, and the flag credentials_present that tells of the disk. A user's     *)
(* update attaches and waits for the runner to inject; a heartbeat that finds  *)
(* the flag at odds with the attachment injects without waiting; a stop        *)
(* removes, a resume injects. The runner runs the handlers concurrently, and   *)
(* its answers reach the backend in the order they were sent.                  *)
(* Left out: a lost connection and a deletion (WorkspaceLifecycle), the other  *)
(* fields of update_workspace (Capacity).                                      *)
EXTENDS Naturals, Sequences

CONSTANTS
  Secrets,    \* the sets of credentials that can be attached
  None,       \* no credentials, no task
  Users,      \* concurrent requests to the backend
  Tasks,      \* bound: tasks under way at a time
  MaxInputs,  \* bound: requests of the users
  MaxFaults   \* bound: failed commands, timeouts, external stops

(* Assumed of the constants by the modules that instantiate this one.          *)
CredentialsAssumption ==
  /\ None \notin Secrets \cup Tasks
  /\ MaxInputs \in Nat /\ MaxFaults \in Nat

VARIABLES
  attached, present, status, op,  \* the row of the workspace
  pending,   \* its key is in _pending_credential_inject
  request,   \* what each user's request is about to do
  sync,      \* the inject a heartbeat asked for
  task,      \* the handlers of the runner
  up, disk,  \* the instance, and the credential material on its disk
  uplink,    \* from the runner to the backend
  inputs, faults,
  mixed,     \* history: handlers overlapped on the disk
  partial    \* history: an injection failed after it had staged the material

row == <<attached, present, status, op>>
runner == <<up, disk, mixed, partial>>
vars == <<row, pending, request, sync, task, runner, uplink, inputs, faults>>

Clean == [staged |-> None, installed |-> None]
Idle == [stage |-> "none", secret |-> None, changed |-> FALSE, sync |-> FALSE, task |-> None]
Free == [kind |-> "inject", stage |-> "free", secret |-> None, waited |-> FALSE]

(* A workspace that has been created, or stopped since.                        *)
Init ==
  /\ attached \in Secrets \cup {None} /\ up \in BOOLEAN /\ op = "none"
  /\ status = (IF up THEN "running" ELSE "stopped") /\ present = (up /\ attached # None)
  /\ disk = IF up THEN [staged |-> attached, installed |-> attached] ELSE Clean
  /\ pending = FALSE
  /\ request = [u \in Users |-> Idle] /\ sync = [stage |-> "none", secret |-> None]
  /\ task = [t \in Tasks |-> Free]
  /\ mixed = FALSE /\ partial = FALSE
  /\ uplink = <<>> /\ inputs = 0 /\ faults = 0

(* A task nobody speaks of any more: ids of tasks are used again.              *)
Usable(t) ==
  /\ task[t].stage = "free" /\ \A u \in Users : request[u].task # t
  /\ \A i \in DOMAIN uplink : uplink[i].task # t
Sent(t, kind, secret, waited) ==
  /\ Usable(t)
  /\ task' = [task EXCEPT ![t] =
       [kind |-> kind, stage |-> "sent", secret |-> secret, waited |-> waited]]
-----------------------------------------------------------------------------
(* The requests of the users. A workspace with an operation under way refuses. *)

Ask(u, r) ==
  /\ op = "none" /\ request[u] = Idle /\ inputs < MaxInputs
  /\ inputs' = inputs + 1 /\ request' = [request EXCEPT ![u] = r]
  /\ UNCHANGED <<row, pending, sync, task, runner, uplink, faults>>

AskAttach(u, secret) ==
  Ask(u, [Idle EXCEPT !.stage = "attach", !.secret = secret,
            !.changed = secret # attached,
            !.sync = /\ status = "running"
                     /\ (secret # attached \/ present # (secret # None))])
AskStop(u) == status = "running" /\ Ask(u, [Idle EXCEPT !.stage = "stop"])
AskResume(u) == status = "stopped" /\ Ask(u, [Idle EXCEPT !.stage = "resolve"])

Attach(u) ==
  /\ request[u].stage = "attach"
  /\ attached' = IF request[u].changed THEN request[u].secret ELSE attached
  /\ request' = [request EXCEPT ![u] =
       IF request[u].sync THEN [request[u] EXCEPT !.stage = "inject"] ELSE Idle]
  /\ UNCHANGED <<present, status, op, pending, sync, task, runner, uplink, inputs, faults>>

(* The caller waits for the runner's answer.                                   *)
InjectAndWait(u, t) ==
  /\ request[u].stage = "inject"
  /\ Sent(t, "inject", request[u].secret, TRUE) /\ pending' = TRUE
  /\ request' = [request EXCEPT ![u].stage = "wait", ![u].task = t]
  /\ UNCHANGED <<row, sync, runner, uplink, inputs, faults>>

GiveUp(u) ==
  /\ request[u].stage = "wait" /\ faults < MaxFaults
  /\ faults' = faults + 1 /\ pending' = FALSE
  /\ request' = [request EXCEPT ![u] = Idle]
  /\ UNCHANGED <<row, sync, task, runner, uplink, inputs>>

Resolve(u) ==
  /\ request[u].stage = "resolve"
  /\ request' = [request EXCEPT ![u].stage = "resume", ![u].secret = attached]
  /\ UNCHANGED <<row, pending, sync, task, runner, uplink, inputs, faults>>

Dispatch(u, t) ==
  /\ request[u].stage \in {"stop", "resume"}
  /\ op' = request[u].stage
  /\ Sent(t, request[u].stage, request[u].secret, FALSE)
  /\ request' = [request EXCEPT ![u] = Idle]
  /\ UNCHANGED <<attached, present, status, pending, sync, runner, uplink, inputs, faults>>

RequestStep ==
  \E u \in Users : Attach(u) \/ Resolve(u) \/ (\E t \in Tasks : InjectAndWait(u, t) \/ Dispatch(u, t))
-----------------------------------------------------------------------------
(* The injection a heartbeat asked for: the row is read again, then the key is *)
(* looked up, then it is added with the task.                                  *)

SyncResolve ==
  /\ sync.stage = "due"
  /\ sync' = IF status = "running" THEN [stage |-> "check", secret |-> attached]
             ELSE [stage |-> "none", secret |-> None]
  /\ UNCHANGED <<row, pending, request, task, runner, uplink, inputs, faults>>
SyncCheck ==
  /\ sync.stage = "check"
  /\ sync' = IF pending THEN [stage |-> "none", secret |-> None]
             ELSE [sync EXCEPT !.stage = "send"]
  /\ UNCHANGED <<row, pending, request, task, runner, uplink, inputs, faults>>
SyncSend(t) ==
  /\ sync.stage = "send"
  /\ Sent(t, "inject", sync.secret, FALSE) /\ pending' = TRUE
  /\ sync' = [stage |-> "none", secret |-> None]
  /\ UNCHANGED <<row, request, runner, uplink, inputs, faults>>
SyncStep == SyncResolve \/ SyncCheck \/ \E t \in Tasks : SyncSend(t)
-----------------------------------------------------------------------------
(* The runner. A resume starts the instance and goes on as an injection; an    *)
(* injection removes, stages an archive and runs the install script in it; a   *)
(* stop removes and stops the instance.                                        *)

Under(t) == task[t].stage \notin {"free", "sent", "done"}
Overlaps(t) == \E other \in Tasks \ {t} : Under(other) \/ task[other].stage = "done"
Goes(t, stage) == task' = [task EXCEPT ![t].stage = stage]

Starts(t) ==
  /\ task[t].kind = "resume" /\ task[t].stage = "sent"
  /\ up' = TRUE /\ Goes(t, "started") /\ UNCHANGED <<disk, mixed, partial>>
Removes(t) ==
  /\ task[t].stage = (IF task[t].kind = "resume" THEN "started" ELSE "sent") /\ up
  /\ disk' = Clean /\ mixed' = Overlaps(t) /\ partial' = FALSE
  /\ Goes(t, IF task[t].kind # "stop" /\ task[t].secret = None THEN "done" ELSE "removed")
  /\ UNCHANGED up
Stages(t) ==
  /\ task[t].kind # "stop" /\ task[t].stage = "removed" /\ up
  /\ disk' = [disk EXCEPT !.staged = task[t].secret] /\ mixed' = (mixed \/ Overlaps(t))
  /\ Goes(t, "staged") /\ UNCHANGED <<up, partial>>
Installs(t) ==
  /\ task[t].stage = "staged" /\ up /\ disk.staged # None
  /\ disk' = [disk EXCEPT !.installed = disk.staged] /\ mixed' = (mixed \/ Overlaps(t))
  /\ Goes(t, "done") /\ UNCHANGED <<up, partial>>
Halts(t) ==
  /\ task[t].kind = "stop" /\ task[t].stage = "removed"
  /\ up' = FALSE /\ mixed' = (mixed \/ Overlaps(t)) /\ Goes(t, "done")
  /\ UNCHANGED <<disk, partial>>

Told == [inject |-> "injected", stop |-> "stopped", resume |-> "resumed"]
Message(t, kind, ok) ==
  [kind |-> kind, task |-> t, ok |-> ok, present |-> task[t].kind # "stop" /\ task[t].secret # None]
(* The event, and for a caller that waits the handler's return value.          *)
Tells(t, kind, ok) ==
  /\ uplink' = uplink \o <<Message(t, kind, ok)>>
                       \o (IF task[t].waited THEN <<Message(t, "answer", ok)>> ELSE <<>>)
  /\ Goes(t, "free")
Reports(t) == task[t].stage = "done" /\ Tells(t, Told[task[t].kind], TRUE)
Breaks(t) == Tells(t, "error", FALSE) /\ partial' = (partial \/ task[t].stage = "staged")

(* A command fails in an instance that is down, and without its archive.       *)
CannotGoOn(t) ==
  \/ ~up /\ (Under(t) \/ (task[t].stage = "sent" /\ task[t].kind # "resume"))
  \/ task[t].stage = "staged" /\ disk.staged = None
RunnerStep(t) ==
  /\ \/ (Starts(t) \/ Removes(t) \/ Stages(t) \/ Installs(t) \/ Halts(t)) /\ UNCHANGED uplink
     \/ Reports(t) /\ UNCHANGED runner
     \/ CannotGoOn(t) /\ Breaks(t) /\ UNCHANGED <<up, disk, mixed>>
  /\ UNCHANGED <<row, pending, request, sync, inputs, faults>>

Fails(t) ==
  /\ (Under(t) \/ task[t].stage = "sent") /\ Breaks(t)
  /\ UNCHANGED <<up, disk, mixed>>
PowerOff == up /\ up' = FALSE /\ UNCHANGED <<task, uplink, disk, mixed, partial>>
Fault ==
  /\ faults < MaxFaults /\ faults' = faults + 1
  /\ PowerOff \/ \E t \in Tasks : Fails(t)
  /\ UNCHANGED <<row, pending, request, sync, inputs>>

Beat ==
  /\ \A i \in DOMAIN uplink : uplink[i].kind # "beat"
  /\ uplink' = Append(uplink, [kind |-> "beat", task |-> None, ok |-> up, present |-> FALSE])
  /\ UNCHANGED <<row, pending, request, sync, task, runner, inputs, faults>>
-----------------------------------------------------------------------------
(* The backend's handlers.                                                     *)

Receives(k) == uplink # <<>> /\ Head(uplink).kind = k /\ uplink' = Tail(uplink)
Injected ==
  /\ Receives("injected") /\ present' = Head(uplink).present /\ pending' = FALSE
  /\ UNCHANGED <<attached, status, op, request, sync>>
Answered ==
  LET waiting == {u \in Users : request[u].task = Head(uplink).task} IN
  /\ Receives("answer")
  /\ request' = [u \in Users |-> IF u \in waiting THEN Idle ELSE request[u]]
  /\ pending' = (pending /\ waiting = {})
  /\ present' = IF waiting # {} /\ Head(uplink).ok THEN Head(uplink).present ELSE present
  /\ UNCHANGED <<attached, status, op, sync>>
Stopped ==
  /\ Receives("stopped") /\ status' = "stopped" /\ op' = "none" /\ present' = FALSE
  /\ pending' = FALSE /\ UNCHANGED <<attached, request, sync>>
Resumed ==
  /\ Receives("resumed") /\ status' = "running" /\ op' = "none" /\ present' = Head(uplink).present
  /\ UNCHANGED <<attached, pending, request, sync>>
(* A mutant: the key stays pending.                                            *)
ErroredKeepsKey ==
  /\ Receives("error") /\ op' = "none"
  /\ UNCHANGED <<attached, present, status, pending, request, sync>>
Errored ==
  /\ Receives("error") /\ op' = "none" /\ pending' = FALSE
  /\ UNCHANGED <<attached, present, status, request, sync>>
(* A mutant: an external stop clears the flag.                                 *)
BeatenClearsFlag ==
  /\ Receives("beat") /\ status' = IF Head(uplink).ok THEN "running" ELSE "stopped"
  /\ present' = (present /\ Head(uplink).ok)
  /\ UNCHANGED <<attached, op, pending, request, sync>>
(* Presence is compared, not which credentials they are.                       *)
Beaten ==
  /\ Receives("beat") /\ status' = IF Head(uplink).ok THEN "running" ELSE "stopped"
  /\ sync' = IF Head(uplink).ok /\ present # (attached # None) /\ sync.stage = "none"
             THEN [stage |-> "due", secret |-> None] ELSE sync
  /\ UNCHANGED <<attached, present, op, pending, request>>
Handle ==
  /\ Injected \/ Answered \/ Stopped \/ Resumed \/ Errored \/ Beaten
  /\ UNCHANGED <<task, runner, inputs, faults>>

Input ==
  \E u \in Users : \/ AskStop(u) \/ AskResume(u)
                   \/ \E secret \in Secrets \cup {None} : AskAttach(u, secret)
Next ==
  \/ Input \/ RequestStep \/ SyncStep \/ Beat \/ Handle \/ Fault
  \/ \E u \in Users : GiveUp(u)
  \/ \E t \in Tasks : RunnerStep(t)

(* Awaited calls go on, the runner's handlers run, and heartbeats are sent     *)
(* every few seconds.                                                          *)
Fairness ==
  /\ WF_vars(RequestStep) /\ WF_vars(SyncStep) /\ WF_vars(Beat) /\ WF_vars(Handle)
  /\ \A t \in Tasks : WF_vars(RunnerStep(t))
Spec == Init /\ [][Next]_vars
FairSpec == Spec /\ Fairness
-----------------------------------------------------------------------------
(* The variables have their types.                                             *)
TypeOK ==
  LET Sets == Secrets \cup {None} IN
  /\ attached \in Sets /\ present \in BOOLEAN /\ status \in {"running", "stopped"}
  /\ op \in {"none", "stop", "resume"} /\ pending \in BOOLEAN
  /\ request \in [Users -> [stage : {"none", "attach", "inject", "wait", "resolve", "stop", "resume"},
                            secret : Sets, changed : BOOLEAN, sync : BOOLEAN,
                            task : Tasks \cup {None}]]
  /\ sync \in [stage : {"none", "due", "check", "send"}, secret : Sets]
  /\ task \in [Tasks -> [kind : {"inject", "stop", "resume"}, secret : Sets, waited : BOOLEAN,
                         stage : {"free", "sent", "started", "removed", "staged", "done"}]]
  /\ up \in BOOLEAN /\ disk \in [staged : Sets, installed : Sets]
  /\ mixed \in BOOLEAN /\ partial \in BOOLEAN
  /\ inputs \in 0..MaxInputs /\ faults \in 0..MaxFaults

Quiet == /\ \A t \in Tasks : task[t].stage = "free"
         /\ \A i \in DOMAIN uplink : uplink[i].kind = "beat"
         /\ \A u \in Users : request[u].stage # "wait"

(* "True if credential material is currently on the workspace disk" and        *)
(* "cleared only after a controlled stop removes the secrets": with nothing    *)
(* under way, material on the disk is told by the flag, unless handlers        *)
(* overlapped on the disk or an injection failed half-way since it was last    *)
(* removed. Late answers, timeouts, failed stops and external stops included.  *)
FlagCovers == Quiet /\ disk # Clean /\ ~mixed /\ ~partial => present

(* The help text of the flag as it stands.                                     *)
FlagTells == Quiet /\ disk # Clean => present

(* The heartbeat's reconciliation: when the users are done, a running          *)
(* workspace ends up with the flag its attachment asks for, provided heartbeats *)
(* are rare enough for the runner to become quiet again and again: two          *)
(* injections that overlap remove each other's archive, the first failure ends  *)
(* the pending key of both, and a heartbeat just then starts a third.           *)
FlagSettles == []<>Quiet => <>[](status = "running" /\ up => present = (attached # None))
===============================================================================
