------------------------------- MODULE Images -------------------------------
(***************************************************************************)
(* Images at the runners. A definition is built at several runners, by one *)
(* build job each, and other images are captured from workspaces. Builds,  *)
(* captures and deletions are tasks the runner works on at its own pace,   *)
(* many at once. What was asked while a runner was offline is dispatched   *)
(* when it registers, and what has made no progress for an hour is given   *)
(* up by a sweep that every listing makes.                                 *)
(***************************************************************************)
EXTENDS Naturals, Sequences, FiniteSets

CONSTANTS
  Jobs,       \* the build jobs of the definition, each named by its runner
  Captures,   \* images captured from workspaces
  Host,       \* the runner of each capture
  Beginnings, \* the statuses jobs may have when the model begins
  MaxInputs   \* bound: requests of users and lost connections

(* Assumed of the constants by the modules that instantiate this one.          *)
ImagesAssumption ==
  /\ Jobs \cap Captures = {} /\ Host \in [Captures -> Jobs]
  /\ Beginnings \subseteq {"none", "active", "pending_deletion", "delete_failed"}
  /\ MaxInputs \in Nat

VARIABLES
  def,       \* ImageDefinition.status
  job,       \* the ImageBuildJob of each runner
  image,     \* the ImageInstance of each job and capture
  task,      \* Task, in the order of creation
  used,      \* images that a workspace not in deletion is based on
  purge,     \* where delete_image_definition is: the jobs left, and whether one refused
  online,    \* runners that are registered
  stage,     \* where the handling of each runner's runner:register is
  todo,      \* images whose deletion it has still to dispatch
  sent, working,   \* commands on their way, and in work
  reports,   \* what each runner has reported, in order
  second,    \* deletions whose build job the handler has still to look for
  inputs

rowVars == <<def, job, image, task>>
runnerVars == <<sent, working, reports>>
vars == <<rowVars, used, purge, online, stage, todo, runnerVars, second, inputs>>

Items == Jobs \cup Captures
HostOf(i) == IF i \in Jobs THEN i ELSE Host[i]

InDeletion == {"pending_deletion", "deleting"}
JobStatuses == InDeletion \cup {"none", "pending", "building", "active", "deactivated",
                                "failed", "delete_failed", "deleted"}
ImageStatuses == InDeletion \cup {"none", "building", "capturing", "ready", "retired",
                                  "failed", "delete_failed", "deleted"}
DefStatuses == InDeletion \cup {"active", "deactivated", "delete_failed", "deleted"}
Ages == {"none", "fresh", "old"}

NoJob == [status |-> "none", tasked |-> FALSE, del |-> 0, built |-> FALSE,
          updated |-> "none", requested |-> "none"]
NoImage == [status |-> "none", ref |-> FALSE, deleting |-> 0, created |-> "none"]
NoPurge == [on |-> FALSE, left |-> {}, refused |-> FALSE]

(* Where a job may be when the model begins: new, built, deletion queued     *)
(* while its runner is offline, or failed an hour ago; another is on its way.*)
BuiltJob == [NoJob EXCEPT !.status = "active", !.tasked = TRUE, !.built = TRUE]
BuiltImage == [NoImage EXCEPT !.status = "ready", !.ref = TRUE, !.created = "old"]
Situations == {
  [job |-> NoJob, image |-> NoImage],
  [job |-> BuiltJob, image |-> BuiltImage],
  [job |-> [BuiltJob EXCEPT !.status = "pending_deletion", !.requested = "fresh"],
   image |-> [BuiltImage EXCEPT !.status = "pending_deletion"]],
  [job |-> [BuiltJob EXCEPT !.status = "delete_failed", !.requested = "old"],
   image |-> [BuiltImage EXCEPT !.status = "delete_failed"]]}

Init ==
  /\ def = "active"
  /\ \E at \in [Items -> {s \in Situations : s.job.status \in Beginnings}] :
       /\ \A c \in Captures : at[c].image.status \in {"none", "ready"}
       /\ job = [j \in Jobs |-> at[j].job] /\ image = [i \in Items |-> at[i].image]
  /\ online = {j \in Jobs : job[j].status # "pending_deletion"}
  /\ task = <<>> /\ used = {} /\ purge = NoPurge
  /\ stage = [j \in Jobs |-> "no"] /\ todo = [j \in Jobs |-> {}]
  /\ sent = {} /\ working = {} /\ reports = [j \in Jobs |-> <<>>]
  /\ second = {} /\ inputs = 0

-----------------------------------------------------------------------------
(* Repositories: what each mark_* writes. Times are kept while they are read. *)
Marked(i, status) == [image EXCEPT ![i].status = status]
ImageDeleting(i, t) == [image EXCEPT ![i].status = "deleting", ![i].deleting = t]
ImageDeleted(i) == [image EXCEPT ![i].status = "deleted", ![i].deleting = 0]
ImageDeleteFailed(i) == [image EXCEPT ![i].status = "delete_failed", ![i].deleting = 0]

(* delete_requested_at keeps its first value.                                *)
Requested(j) == IF job[j].requested = "none" THEN "fresh" ELSE job[j].requested
JobDeleting(j, t) == [job EXCEPT ![j].status = "deleting", ![j].del = t,
                                 ![j].requested = Requested(j), ![j].updated = "none"]
JobPendingDeletion(j) == [job EXCEPT ![j].status = "pending_deletion", ![j].requested = Requested(j),
                                        ![j].updated = "none"]
JobDeleted(j) == [job EXCEPT ![j].status = "deleted", ![j].del = 0]
JobDeleteFailed(j) == [job EXCEPT ![j].status = "delete_failed", ![j].del = 0]

(* _mark_definition_delete_failed, _mark_definition_deleting_if_needed       *)
DefDeleteFailed == IF def \in InDeletion \cup {"delete_failed"} THEN "delete_failed" ELSE def
DefDeleting == IF def \in {"pending_deletion", "delete_failed"} THEN "deleting" ELSE def

(* Mutant: a deletion that failed does not count as remaining.               *)
OnlyDeletesLeft(js) == {j \in Jobs : js[j].status \in InDeletion}

(* list_non_deleted_for_definition                                           *)
Remaining(js) == {j \in Jobs : js[j].status \notin {"none", "deleted"}}

(* _check_definition_deletion_complete                                       *)
DefChecked(d, js) == IF d \in InDeletion /\ Remaining(js) = {} THEN "deleted" ELSE d

-----------------------------------------------------------------------------
NextTask == Len(task) + 1

(* A task of the given kind is created and sent to the runner of the item.   *)
(* It is open while it is pending or in progress, which is read of deletions  *)
(* only.                                                                      *)
Dispatches(kind, i) ==
  /\ task' = Append(task, [kind |-> kind, item |-> i, open |-> TRUE])
  /\ sent' = sent \cup {NextTask}

Ends(t) == [task EXCEPT ![t].open = FALSE]

Ask == inputs < MaxInputs /\ inputs' = inputs + 1

(* _ensure_definition_mutable                                                *)
Mutable == def \notin InDeletion \cup {"deleted", "delete_failed"}

(* trigger_build_job: the job is new or starts over; offline, it stays       *)
(* pending without a task.                                                   *)
Triggered(j, tasked) ==
  [NoJob EXCEPT !.status = "pending", !.tasked = tasked, !.built = job[j].built, !.updated = "fresh"]

BuildingImage(j) ==
  IF image[j].status = "none"
  THEN [image EXCEPT ![j] = [NoImage EXCEPT !.status = "building", !.created = "fresh"]]
  ELSE Marked(j, "building")

TriggerBuild(j) ==
  /\ Mutable /\ job[j].status \notin InDeletion
  /\ IF j \in online
     THEN /\ Dispatches("build", j)
          /\ job' = [job EXCEPT ![j] = Triggered(j, TRUE)]
          /\ image' = BuildingImage(j)
     ELSE /\ job' = [job EXCEPT ![j] = Triggered(j, FALSE)]
          /\ UNCHANGED <<image, task, sent>>
  /\ UNCHANGED <<def, used, purge, online, stage, todo, working, reports, second>>

Triggers(j) == Ask /\ TriggerBuild(j)

(* trigger_build_job with activate = False, for a job that exists.           *)
Retires(j) ==
  /\ Ask /\ Mutable /\ job[j].status \notin InDeletion \cup {"none"}
  /\ job' = [job EXCEPT ![j] = [Triggered(j, FALSE) EXCEPT !.status = "deactivated", !.updated = "none"]]
  /\ image' = IF image[j].status \in {"none", "deleted"} THEN image ELSE Marked(j, "retired")
  /\ UNCHANGED <<def, task, used, purge, online, stage, todo, runnerVars, second>>

(* The action "deactivate" of a runner build.                                *)
DeactivatesJob(j) ==
  /\ Ask /\ Mutable /\ job[j].status # "none"
  /\ job' = [job EXCEPT ![j].status = "deactivated", ![j].updated = "none"]
  /\ UNCHANGED <<def, image, task, used, purge, online, stage, todo, runnerVars, second>>

HasReadyImage(j) ==
  job[j].built /\ image[j].status \in {"ready", "retired"} /\ image[j].ref

(* activate_build_job, when there is nothing to build.                       *)
ActivatesJob(j) ==
  /\ Ask /\ Mutable /\ job[j].status # "none" /\ HasReadyImage(j)
  /\ job' = [job EXCEPT ![j].status = "active", ![j].updated = "none"]
  /\ image' = IF image[j].status = "retired" THEN Marked(j, "ready") ELSE image
  /\ UNCHANGED <<def, task, used, purge, online, stage, todo, runnerVars, second>>

(* create_image_artifact                                                     *)
Captured(c) ==
  /\ Ask /\ image[c].status = "none" /\ Host[c] \in online
  /\ Dispatches("capture", c)
  /\ image' = [image EXCEPT ![c] = [NoImage EXCEPT !.status = "capturing", !.created = "fresh"]]
  /\ UNCHANGED <<def, job, used, purge, online, stage, todo, working, reports, second>>

(* delete_image_artifact of a capture. Offline, it makes a task nobody uses. *)
DeletesCapture(c) ==
  /\ Ask /\ image[c].status \notin InDeletion \cup {"none", "deleted"} /\ c \notin used
  /\ \/ /\ ~image[c].ref /\ image[c].status # "capturing"
        /\ image' = ImageDeleted(c) /\ UNCHANGED <<task, sent>>
     \/ /\ image[c].ref /\ Host[c] \in online
        /\ Dispatches("delete", c) /\ image' = ImageDeleting(c, NextTask)
     \/ /\ image[c].ref /\ Host[c] \notin online
        /\ task' = Append(task, [kind |-> "delete", item |-> c, open |-> TRUE])
        /\ image' = Marked(c, "pending_deletion") /\ UNCHANGED sent
  /\ UNCHANGED <<def, job, used, purge, online, stage, todo, working, reports, second>>

(* A workspace is created from an image, and removed again.                  *)
UsesImage(i) ==
  /\ Ask /\ image[i].status = "ready" /\ HostOf(i) \in online /\ i \notin used
  /\ used' = used \cup {i}
  /\ UNCHANGED <<rowVars, purge, online, stage, todo, runnerVars, second>>

LeavesImage(i) ==
  /\ i \in used /\ used' = used \ {i}
  /\ UNCHANGED <<rowVars, purge, online, stage, todo, runnerVars, second, inputs>>

-----------------------------------------------------------------------------
DeletionRefused(j) == job[j].status \in InDeletion \cup {"deleted"} \/ j \in used

ImageDropped(j) == IF image[j].status = "none" THEN image ELSE ImageDeleted(j)

(* delete_build_job: online, offline, or with no physical artifact to clean  *)
(* up.                                                                       *)
DeleteBuildJob(j) ==
  /\ ~DeletionRefused(j)
  /\ \/ /\ image[j].ref /\ j \in online
        /\ Dispatches("delete", j)
        /\ def' = DefDeleting
        /\ job' = JobDeleting(j, NextTask) /\ image' = ImageDeleting(j, NextTask)
     \/ /\ image[j].ref /\ j \notin online
        /\ job' = JobPendingDeletion(j) /\ image' = Marked(j, "pending_deletion")
        /\ UNCHANGED <<def, task, sent>>
     \/ /\ ~image[j].ref
        /\ job' = JobDeleted(j) /\ image' = ImageDropped(j)
        /\ UNCHANGED <<def, task, sent>>

DeletesJob(j) ==
  /\ Ask /\ job[j].status # "none" /\ DeleteBuildJob(j)
  /\ UNCHANGED <<used, purge, online, stage, todo, working, reports, second>>

(* delete_image_definition: with no builds it is done.                       *)
DeletesDefinition ==
  /\ Ask /\ ~purge.on /\ def \notin {"deleted", "deleting"}
  /\ IF Remaining(job) = {} THEN def' = "deleted" /\ UNCHANGED purge
     ELSE /\ def' = "pending_deletion"
          /\ purge' = [on |-> TRUE, left |-> Remaining(job), refused |-> FALSE]
  /\ UNCHANGED <<job, image, task, used, online, stage, todo, runnerVars, second>>

(* It deletes the builds one after the other; a job deleted when it was      *)
(* listed is skipped, any other may refuse.                                  *)
PurgesJob(j) ==
  /\ j \in purge.left
  /\ \/ DeleteBuildJob(j) /\ purge' = [purge EXCEPT !.left = @ \ {j}]
     \/ /\ DeletionRefused(j) /\ UNCHANGED <<rowVars, sent>>
        /\ purge' = [purge EXCEPT !.left = @ \ {j}, !.refused = TRUE]
  /\ UNCHANGED <<used, online, stage, todo, working, reports, second, inputs>>

PurgeEnds ==
  /\ purge.on /\ purge.left = {} /\ purge' = NoPurge
  /\ def' = IF purge.refused THEN "delete_failed" ELSE DefChecked(def, job)
  /\ UNCHANGED <<job, image, task, used, online, stage, todo, runnerVars, second, inputs>>

(* Deactivation does not look at the status; activation does.                *)
DeactivatesDefinition ==
  /\ Ask /\ def' = "deactivated"
  /\ UNCHANGED <<job, image, task, used, purge, online, stage, todo, runnerVars, second>>

ActivatesDefinition ==
  /\ Ask /\ def \in {"deactivated", "active", "delete_failed"}
  /\ def = "delete_failed" => \A j \in Jobs : job[j].status \notin InDeletion
  /\ def' = "active"
  /\ UNCHANGED <<job, image, task, used, purge, online, stage, todo, runnerVars, second>>

-----------------------------------------------------------------------------
(* The runner. Every command is a task of its own; a report that is emitted  *)
(* without a connection is lost.                                             *)
Tasks == DOMAIN task
At(t) == HostOf(task[t].item)

Report(t, event) ==
  IF At(t) \in online
  THEN [reports EXCEPT ![At(t)] = Append(@, [event |-> event, task |-> t])] ELSE reports

Receives(t) ==
  /\ t \in sent /\ sent' = sent \ {t} /\ working' = working \cup {t}
  /\ UNCHANGED <<rowVars, used, purge, online, stage, todo, reports, second, inputs>>

Progress(t) ==
  /\ t \in working /\ task[t].kind = "build" /\ At(t) \in online /\ reports[At(t)] = <<>>
  /\ job[At(t)].status # "building" \/ job[At(t)].updated = "old"
  /\ reports' = Report(t, "progress")
  /\ UNCHANGED <<rowVars, used, purge, online, stage, todo, sent, working, second, inputs>>

(* A build, a capture or a deletion is done; an image that is absent already *)
(* counts as deleted.                                                        *)
WorkDone(t) ==
  /\ t \in working /\ working' = working \ {t}
  /\ reports' = Report(t, "done")
  /\ UNCHANGED <<rowVars, used, purge, online, stage, todo, sent, second, inputs>>

WorkFails(t) ==
  /\ t \in working /\ working' = working \ {t}
  /\ reports' = Report(t, "failed")
  /\ UNCHANGED <<rowVars, used, purge, online, stage, todo, sent, second, inputs>>

Drops(j) ==
  /\ Ask /\ j \in online
  /\ online' = online \ {j} /\ stage' = [stage EXCEPT ![j] = "no"]
  /\ todo' = [todo EXCEPT ![j] = {}]
  /\ sent' = {t \in sent : At(t) # j} /\ reports' = [reports EXCEPT ![j] = <<>>]
  /\ \E lost \in {{}, {t \in working : At(t) = j}} : working' = working \ lost
  /\ UNCHANGED <<rowVars, used, purge, second>>

-----------------------------------------------------------------------------
(* The handlers of what a runner reports. The row of a build or a capture is  *)
(* found by its own identity.                                                 *)
Handles(j, kind, event) ==
  /\ reports[j] # <<>>
  /\ LET r == Head(reports[j]) IN task[r.task].kind = kind /\ r.event = event
  /\ reports' = [reports EXCEPT ![j] = Tail(@)]
  /\ UNCHANGED <<used, purge, online, stage, todo, sent, working, inputs>>

Reported(j) == Head(reports[j]).task

OnProgress(j) ==
  /\ Handles(j, "build", "progress")
  /\ job' = [job EXCEPT ![j].status = "building", ![j].updated = "fresh"]
  /\ UNCHANGED <<def, image, task, second>>

OnBuilt(j) ==
  /\ Handles(j, "build", "done")
  /\ job' = [job EXCEPT ![j].status = "active", ![j].built = TRUE, ![j].updated = "none"]
  /\ image' = [image EXCEPT ![j].status = "ready", ![j].ref = TRUE]
  /\ UNCHANGED <<def, task, second>>

OnBuildFailed(j) ==
  /\ Handles(j, "build", "failed")
  /\ job' = [job EXCEPT ![j].status = "failed", ![j].updated = "none"] /\ image' = Marked(j, "failed")
  /\ UNCHANGED <<def, task, second>>

OnCaptured(j) ==
  /\ Handles(j, "capture", "done")
  /\ image' = [image EXCEPT ![task[Reported(j)].item] =
                 [@ EXCEPT !.status = "ready", !.ref = TRUE]]
  /\ UNCHANGED <<def, job, task, second>>

OnCaptureFailed(j) ==
  /\ Handles(j, "capture", "failed")
  /\ LET c == task[Reported(j)].item IN
     image' = IF image[c].status = "capturing" THEN Marked(c, "failed") ELSE image
  /\ UNCHANGED <<def, job, task, second>>

(* handle_image_artifact_deleted marks the image the command named; whether  *)
(* the task deletes a build job is looked up afterwards.                     *)
OnDeleted(j) ==
  /\ Handles(j, "delete", "done")
  /\ image' = ImageDeleted(task[Reported(j)].item)
  /\ task' = Ends(Reported(j))
  /\ second' = second \cup {Reported(j)}
  /\ UNCHANGED <<def, job>>

DeletedBy(t) == {j \in Jobs : job[j].del = t}

OnJobDeleted(t) ==
  /\ t \in second /\ second' = second \ {t}
  /\ IF DeletedBy(t) = {} THEN UNCHANGED <<def, job, image>>
     ELSE \E j \in DeletedBy(t) :
            /\ job' = JobDeleted(j) /\ image' = ImageDeleted(j)
            /\ def' = DefChecked(def, JobDeleted(j))
  /\ UNCHANGED <<task, used, purge, online, stage, todo, runnerVars, inputs>>

(* The image is looked up by the task, then the build job.                   *)
OnDeleteFailed(j) ==
  /\ Handles(j, "delete", "failed")
  /\ LET t == Reported(j)
         images == {i \in Items : image[i].deleting = t}
         builds == IF images # {} THEN images \cap Jobs ELSE DeletedBy(t) IN
     /\ image' = [i \in Items |-> IF i \in images THEN ImageDeleteFailed(i)[i] ELSE image[i]]
     /\ job' = [b \in Jobs |-> IF b \in builds THEN JobDeleteFailed(b)[b] ELSE job[b]]
     /\ def' = IF builds # {} THEN DefDeleteFailed ELSE def
     /\ task' = Ends(t)
  /\ UNCHANGED second

-----------------------------------------------------------------------------

(* runner:register: the sweep, then what is pending is dispatched: builds,   *)
(* image deletions, and the deletions of build jobs.                         *)
(* list_pending_deletions_for_runner                                         *)
ToDelete(images, j) ==
  {i \in Items : HostOf(i) = j /\ images[i].status \in InDeletion /\ images[i].ref}

DispatchesBuild(j) ==
  /\ stage[j] = "builds" /\ stage' = [stage EXCEPT ![j] = "deletions"]
  /\ IF job[j].status = "pending" /\ ~job[j].tasked /\ Mutable
     THEN /\ Dispatches("build", j)
          /\ job' = [job EXCEPT ![j] = Triggered(j, TRUE)] /\ image' = BuildingImage(j)
     ELSE UNCHANGED <<job, image, task, sent>>
  /\ todo' = [todo EXCEPT ![j] = ToDelete(image', j)]
  /\ UNCHANGED <<def, used, purge, online, working, reports, second, inputs>>

(* A deletion whose task is still open is sent again under it.               *)
Reusable(t) == t # 0 /\ task[t].open
Resends(t) == UNCHANGED task /\ sent' = sent \cup {t}

DispatchesImage(j, i) ==
  /\ stage[j] = "deletions" /\ i \in todo[j] /\ todo' = [todo EXCEPT ![j] = @ \ {i}]
  /\ IF Reusable(image[i].deleting)
     THEN /\ Resends(image[i].deleting)
          /\ image' = IF image[i].status = "deleting" THEN image
                      ELSE ImageDeleting(i, image[i].deleting)
     ELSE Dispatches("delete", i) /\ image' = ImageDeleting(i, NextTask)
  /\ UNCHANGED <<def, job, used, purge, online, stage, working, reports, second, inputs>>

DispatchesJob(j) ==
  /\ stage[j] = "deletions" /\ todo[j] = {} /\ stage' = [stage EXCEPT ![j] = "no"]
  /\ IF job[j].status \in InDeletion /\ image[j].ref
     THEN /\ def' = DefDeleting
          /\ IF Reusable(job[j].del)
             THEN /\ Resends(job[j].del)
                  /\ IF job[j].status = "deleting" /\ image[j].status = "deleting"
                     THEN UNCHANGED <<job, image>>
                     ELSE job' = JobDeleting(j, job[j].del) /\ image' = ImageDeleting(j, job[j].del)
             ELSE /\ Dispatches("delete", j)
                  /\ job' = JobDeleting(j, NextTask) /\ image' = ImageDeleting(j, NextTask)
     ELSE UNCHANGED <<rowVars, sent>>
  /\ UNCHANGED <<used, purge, online, todo, working, reports, second, inputs>>

-----------------------------------------------------------------------------
(* An hour passes for everything written so far.                             *)
Older(age) == IF age = "fresh" THEN "old" ELSE age

HourPasses ==
  /\ job' = [j \in Jobs |-> [job[j] EXCEPT !.updated = Older(@), !.requested = Older(@)]]
  /\ image' = [i \in Items |-> [image[i] EXCEPT !.created = Older(@)]]
  /\ <<job, image>>' # <<job, image>>
  /\ UNCHANGED <<def, task, used, purge, online, stage, todo, runnerVars, second, inputs>>

(* list_stale_builds, list_stale_deletes                                     *)
StaleBuild(j) == job[j].status \in {"pending", "building"} /\ job[j].updated = "old"

StaleDelete(j) == job[j].status \in InDeletion /\ job[j].requested = "old"

SweptJob(j) ==
  IF StaleBuild(j) THEN [job[j] EXCEPT !.status = "failed", !.updated = "none"]
  ELSE IF StaleDelete(j) THEN JobDeleteFailed(j)[j] ELSE job[j]

SweptImage(i) ==
  IF i \in Jobs /\ StaleBuild(i) /\ image[i].status = "building" THEN Marked(i, "failed")[i]
  ELSE IF i \in Jobs /\ StaleDelete(i) /\ image[i].status \in InDeletion THEN ImageDeleteFailed(i)[i]
  ELSE image[i]

(* Mutant: a definition is given up only with one of its jobs.               *)
DefFollowsJobs(d, js) == DefChecked(d, js)

(* A definition in deletion with no job in deletion has failed.              *)
DefSwept(d, js) ==
  LET checked == DefChecked(d, js) IN
  IF checked \in InDeletion /\ \A j \in Jobs : js[j].status \notin InDeletion
  THEN "delete_failed" ELSE checked

(* timeout_stale_image_operations                                            *)
SweepRows ==
  /\ job' = [j \in Jobs |-> SweptJob(j)]
  /\ image' = [i \in Items |-> SweptImage(i)]
  /\ def' = DefSwept(IF \E j \in Jobs : StaleDelete(j) THEN DefDeleteFailed ELSE def,
                     [j \in Jobs |-> SweptJob(j)])
  /\ UNCHANGED task

Sweeps ==
  /\ SweepRows
  /\ UNCHANGED <<used, purge, online, stage, todo, runnerVars, second, inputs>>

(* A registration sweeps before it dispatches.                               *)
Registers(j) ==
  /\ j \notin online /\ online' = online \cup {j} /\ stage' = [stage EXCEPT ![j] = "builds"]
  /\ SweepRows
  /\ UNCHANGED <<used, purge, todo, runnerVars, second, inputs>>

(* timeout_stale, when a user lists images: by the time of creation.         *)
SweepsImages ==
  /\ image' = [i \in Items |->
                 IF image[i].status \in {"building", "capturing"} /\ image[i].created = "old"
                 THEN Marked(i, "failed")[i] ELSE image[i]]
  /\ UNCHANGED <<def, job, task, used, purge, online, stage, todo, runnerVars, second, inputs>>

-----------------------------------------------------------------------------
UserNext ==
  \/ \E j \in Jobs : \/ Triggers(j) \/ Retires(j) \/ DeactivatesJob(j) \/ ActivatesJob(j)
                     \/ DeletesJob(j)
  \/ \E c \in Captures : Captured(c) \/ DeletesCapture(c)
  \/ \E i \in Items : UsesImage(i) \/ LeavesImage(i)
  \/ DeletesDefinition \/ DeactivatesDefinition \/ ActivatesDefinition

Purges == (\E j \in Jobs : PurgesJob(j)) \/ PurgeEnds

RunnerNext == \E t \in Tasks : Receives(t) \/ WorkDone(t) \/ WorkFails(t)

HandlerNext ==
  \/ \E j \in Jobs : \/ OnProgress(j) \/ OnBuilt(j) \/ OnBuildFailed(j) \/ OnCaptured(j)
                     \/ OnCaptureFailed(j) \/ OnDeleted(j) \/ OnDeleteFailed(j)
  \/ \E t \in Tasks : OnJobDeleted(t)

RegisterNext ==
  \E j \in Jobs : \/ Registers(j) \/ DispatchesBuild(j) \/ DispatchesJob(j)
                  \/ \E i \in todo[j] : DispatchesImage(j, i)

Next ==
  \/ UserNext \/ Purges \/ RunnerNext \/ HandlerNext \/ RegisterNext
  \/ HourPasses \/ Sweeps \/ SweepsImages
  \/ (\E t \in Tasks : Progress(t)) \/ (\E j \in Jobs : Drops(j))

(* Coroutines, runners and handlers go on, a runner reconnects, time passes  *)
(* and somebody lists the builds.                                            *)
Fairness ==
  /\ WF_vars(Purges) /\ WF_vars(RunnerNext) /\ WF_vars(HandlerNext) /\ WF_vars(RegisterNext)
  /\ WF_vars(HourPasses) /\ WF_vars(Sweeps)

Spec == Init /\ [][Next]_vars
FairSpec == Spec /\ Fairness

-----------------------------------------------------------------------------
(* The variables have their types.                                           *)
TypeOK ==
  /\ def \in DefStatuses
  /\ job \in [Jobs -> [status : JobStatuses, tasked : BOOLEAN, del : Nat, built : BOOLEAN,
                       updated : Ages, requested : Ages]]
  /\ image \in [Items -> [status : ImageStatuses, ref : BOOLEAN, deleting : Nat, created : Ages]]
  /\ task \in Seq([kind : {"build", "capture", "delete"}, item : Items, open : BOOLEAN])
  /\ used \subseteq Items /\ online \subseteq Jobs
  /\ sent \cup working \cup second \subseteq Tasks
  /\ stage \in [Jobs -> {"no", "builds", "deletions"}]

(* A job that is shown as deleted has no image that can be used or comes     *)
(* back: the two rows are written by different handlers, that find them by   *)
(* different tasks. (A registration may send the deletion of the image again *)
(* when it was confirmed after the registration listed it.)                  *)
DeletedTogether ==
  \A j \in Jobs : job[j].status = "deleted" => image[j].status \in {"none", "deleted", "deleting"}

(* A definition becomes deleted after the last of its builds.                *)
DeletedLast ==
  [][def' = "deleted" /\ def # "deleted" => \A j \in Jobs : job'[j].status \in {"none", "deleted"}]_vars

(* "Fail hung builds and stuck deletions so the UI can retry": a retry is not *)
(* taken for stuck from its first moment.                                     *)
RetryStartsFresh ==
  [][\A j \in Jobs : job[j].status \notin InDeletion => ~(StaleDelete(j)')]_vars

(* Deletions of captures, which nothing but the runner's answer ends, and of  *)
(* definitions, whose jobs end in any order, come to an end, with lost        *)
(* connections, runners that stop in the middle and requests in between.      *)
CaptureDeletionEnds ==
  \A c \in Captures : image[c].status \in InDeletion ~> image[c].status \notin InDeletion
DefinitionDeletionEnds == def \in InDeletion ~> def \notin InDeletion
=============================================================================
