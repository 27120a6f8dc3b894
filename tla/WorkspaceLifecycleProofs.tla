----------------------- MODULE WorkspaceLifecycleProofs -----------------------
(****************************************************************************)
(* Theorems about WorkspaceLifecycle, for every set of requests and of      *)
(* connections and whatever number of inputs: the types and the blocks of   *)
(* deletions first, then that active_operation keeps the operations of a    *)
(* workspace apart and that a deleted workspace is gone. At the end, about  *)
(* Capacity: that the cap on the machines that run is kept.                 *)
(****************************************************************************)
EXTENDS MCWorkspaceLifecycle, SequenceLemmas, FiniteSetTheorems, WellFoundedInduction

(* What the backend's handlers write, one statement at a time.              *)
Writes == [col : {"status", "reported", "deletion"}, of : {NoTask}, val : Statuses]
          \cup [col : {"op"}, of : {NoTask}, val : {"none"}]
          \cup [col : {"task"}, of : Tasks, val : {"completed", "failed"}]

Replies == [kind : Kinds, task : Tasks, ok : BOOLEAN]
Confirmations == [kind : {"cleanup"}, task : {NoTask}, ok : BOOLEAN]
Beats == [kind : {"beat"}, inst : Reports]
Orders == [kind : Kinds, task : Tasks, from : Tasks]
          \cup [kind : {"cleanup"}, task : {NoTask}, from : {NoTask}]
Places == {"start", "boot", "defined", "setup", "removing", "ok", "failed"}

(* The types of what TypeOK leaves out.                                     *)
ChannelsOK ==
  /\ worker \in Seq(Writes)
  /\ toBackend \in Seq(Replies \cup Confirmations \cup Beats)
  /\ jobs \subseteq [cmd : Orders, at : Places]
  /\ picked \in [Conns -> Tasks \cup {NoTask}]
  /\ reg \in [Conns -> {"unused", "announced", "listing", "pending_deletion", "deleting",
                        "marking", "emitting", "sent", "done"}]
  /\ gone \in [Conns -> {"no", "dropped", "handled"}]

(* A request on its way knows the status it would restore.                  *)
KnowsStatus == \A r \in Callers :
  req[r] \notin {"ready", "returned"} => seen[r].status \in Statuses

(* A registration that has come to deliver a deletion has picked its task.  *)
HasPicked == \A c \in Conns :
  reg[c] \in {"marking", "emitting", "sent"} => picked[c] \in Tasks

Types == TypeOK /\ ChannelsOK /\ KnowsStatus /\ HasPicked

-----------------------------------------------------------------------------
(* Where the task of a request is spoken of.                                *)
InJobs(t) == \E j \in jobs : j.cmd.task = t
InReports(t) == \E i \in DOMAIN toBackend : toBackend[i].kind \in Kinds /\ toBackend[i].task = t
InWrites(t) == \E i \in DOMAIN worker : worker[i].col = "task" /\ worker[i].of = t
Abroad(t) == InJobs(t) \/ InReports(t) \/ InWrites(t)

(* A request that has not been made has no task, and nobody speaks of it.   *)
UnmadeIsUnknown == \A r \in Callers : req[r] = "ready" =>
  kind[r] # "remove" /\ task[r] = "none" /\ ~Abroad(r)

(* The runner hears of a request's task when the request sends it, but for a*)
(* removal, which registrations deliver too.                                *)
HeardWhenSent == \A r \in Callers :
  kind[r] # "remove" /\ Abroad(r) => req[r] \in {"sent", "returned"}

(* A request has an open task by the time it sets the operation.            *)
OpenWhenSet == \A r \in Callers :
  kind[r] # "remove" /\ req[r] \in {"marking", "setop"} => task[r] = "pending"

(* What a registration delivers is a deletion.                              *)
PicksRemovals == \A c \in Conns :
  picked[c] \in Callers => kind[picked[c]] = "remove" /\ req[picked[c]] # "ready"

(* The current handler closes the task before it clears active_operation.   *)
Clears == {"op", "deletion"}
Bare(t) == \E i \in DOMAIN worker :
  /\ worker[i].col = "task" /\ worker[i].of = t
  /\ \A k \in DOMAIN worker : k < i => worker[k].col \notin Clears

(* The operation of a workspace has an owner: a request of that kind, with  *)
(* an open task, that has set it and not rolled it back, and whose task is  *)
(* not about to be closed before the operation is cleared.                  *)
Holding == {"emitting", "sent", "rollback", "returned"}
Owns(r) ==
  /\ OperationOf(kind[r]) = op /\ kind[r] # "remove" /\ task[r] \in Active
  /\ req[r] \in Holding
  /\ ~Bare(r)
OpHasOwner == op \in {"creating", "stopping", "starting"} => \E r \in Callers : Owns(r)

OwnInv == UnmadeIsUnknown /\ HeardWhenSent /\ OpenWhenSet /\ PicksRemovals /\ OpHasOwner
-----------------------------------------------------------------------------
(* Every variable keeps its type.                                           *)
LEMMA InitTypes == Init => Types
<1> USE ConnAssumption, TaskAssumption
<1> SUFFICES ASSUME Init PROVE Types
  OBVIOUS
<1>1. InitBackend /\ (BeingCreated \/ InUse)
      /\ kind = [r \in Callers |-> IF r = Creation THEN "create" ELSE "stop"]
  BY DEF Init
<1>2. ChannelsOK
  BY <1>1 DEF InitBackend, ChannelsOK
<1>3. HasPicked
  BY <1>1 DEF InitBackend, HasPicked
<1>4. CASE BeingCreated
  <2>1. TypeOK
    BY <1>1, <1>4 DEF InitBackend, BeingCreated, TypeOK, Statuses, InDeletion, Instances, Reports,
                      Kinds, RequestPhases, NothingSeen, Callers, Tasks
  <2>2. KnowsStatus
    BY <1>4 DEF BeingCreated, KnowsStatus, Statuses, Callers
  <2> QED BY <1>2, <1>3, <2>1, <2>2 DEF Types
<1>5. CASE InUse
  <2>1. TypeOK
    BY <1>1, <1>5 DEF InitBackend, InUse, TypeOK, Statuses, InDeletion, Instances, Reports,
                      Kinds, RequestPhases, NothingSeen, Callers, Tasks
  <2>2. KnowsStatus
    BY <1>5 DEF InUse, KnowsStatus, Statuses, Callers
  <2> QED BY <1>2, <1>3, <2>1, <2>2 DEF Types
<1> QED BY <1>1, <1>4, <1>5

(* What a handler is to write.                                              *)
LEMMA StatementsAreWrites ==
  ASSUME NEW m \in Replies PROVE Statements(m) \in Seq(Writes)
<1> USE DEF Writes, Write, WriteTask, Statuses, InDeletion
<1>1. m.kind \in Kinds /\ m.task \in Tasks /\ m.ok \in BOOLEAN
  BY DEF Replies
<1>2. OnCreated(m.task) \in Seq(Writes)
  BY <1>1 DEF OnCreated
<1>3. OnStopped(m.task) \in Seq(Writes)
  BY <1>1 DEF OnStopped
<1>4. OnResumed(m.task) \in Seq(Writes)
  BY <1>1 DEF OnResumed
<1>5. OnRemoved(m.task) \in Seq(Writes)
  BY <1>1 DEF OnRemoved
<1>6. OnError(m.task) \in Seq(Writes)
  <2>1. /\ <<Write("op", "none")>> \in Seq(Writes)
        /\ <<Write("status", "failed")>> \in Seq(Writes)
        /\ <<Write("deletion", "delete_failed")>> \in Seq(Writes)
        /\ <<WriteTask(m.task, "failed")>> \in Seq(Writes)
        /\ <<>> \in Seq(Writes)
    BY <1>1
  <2> HIDE DEF Writes, Write, WriteTask
  <2> QED BY <2>1 DEF OnError
<1> QED BY <1>1, <1>2, <1>3, <1>4, <1>5, <1>6 DEF Statements, Kinds

(* A request moves on: what it loaded is forgotten when it returns.         *)
LEMMA RequestMoves ==
  ASSUME Types, NEW r \in Callers, NEW from \in RequestPhases, NEW to \in RequestPhases,
         from \notin {"ready", "returned"} \/ to \in {"ready", "returned"},
         RequestStep(r, from, to)
  PROVE  /\ req' \in [Callers -> RequestPhases]
         /\ seen' \in [Callers -> [status : Statuses \cup {"none"}, sid : Conns \cup {NoConn}]]
         /\ KnowsStatus'
<1> USE DEF Types, TypeOK, RequestStep, NothingSeen
<1>1. /\ req \in [Callers -> RequestPhases] /\ req' = [req EXCEPT ![r] = to] /\ req[r] = from
      /\ seen' = IF to = "returned" THEN [seen EXCEPT ![r] = NothingSeen] ELSE seen
  OBVIOUS
<1>2. seen' \in [Callers -> [status : Statuses \cup {"none"}, sid : Conns \cup {NoConn}]]
  BY <1>1
<1>3. KnowsStatus'
  <2> SUFFICES ASSUME NEW s \in Callers, req'[s] \notin {"ready", "returned"}
               PROVE  seen'[s].status \in Statuses
    BY DEF KnowsStatus
  <2>1. req[s] \notin {"ready", "returned"} /\ seen'[s] = seen[s]
    BY <1>1
  <2> QED BY <2>1 DEF KnowsStatus
<1> QED BY <1>1, <1>2, <1>3

LEMMA OrdersSent ==
  ASSUME Types, NEW m \in Orders, NEW to, Send(m, to)
  PROVE  jobs' \subseteq [cmd : Orders, at : Places]
BY DEF Send, Types, ChannelsOK, Places

LEMMA TypesOfRequests ==
  ASSUME Types, NEW r \in Callers, RequestRuns(r) \/ EmitFails(r)
  PROVE  Types'
<1> USE DEF Types, connVars, hostVars, handlerVars, rowVars, RequestPhases
<1>1. CASE CreateTask(r)
  <2>1. task' \in [Tasks -> {"none", "pending", "in_progress", "completed", "failed"}]
    BY <1>1 DEF CreateTask, TypeOK
  <2> QED BY <1>1, <2>1, RequestMoves DEF CreateTask, TypeOK, ChannelsOK, HasPicked
<1>2. CASE MarkDeleting(r)
  BY <1>2, RequestMoves DEF MarkDeleting, TypeOK, ChannelsOK, HasPicked, Statuses, InDeletion
<1>3. CASE MarkPendingDeletion(r)
  BY <1>3, RequestMoves DEF MarkPendingDeletion, TypeOK, ChannelsOK, HasPicked, Statuses, InDeletion
<1>4. CASE SetOperation(r)
  <2>1. kind[r] \in Kinds
    BY DEF TypeOK
  <2>2. OperationOf(kind[r]) \in {"creating", "stopping", "starting", "removing"}
    BY <2>1 DEF OperationOf, Kinds
  <2> QED BY <1>4, <2>2, RequestMoves DEF SetOperation, TypeOK, ChannelsOK, HasPicked
<1>5. CASE Emit(r)
  <2>1. [kind |-> kind[r], task |-> r, from |-> r] \in Orders
    BY DEF Orders, TypeOK, Tasks
  <2>2. jobs' \subseteq [cmd : Orders, at : Places]
    BY <1>5, <2>1, OrdersSent DEF Emit
  <2> QED BY <1>5, <2>2, RequestMoves DEF Emit, TypeOK, ChannelsOK, HasPicked
<1>6. CASE MarkInProgress(r)
  <2>1. task' \in [Tasks -> {"none", "pending", "in_progress", "completed", "failed"}]
    BY <1>6 DEF MarkInProgress, TypeOK
  <2> QED BY <1>6, <2>1, RequestMoves DEF MarkInProgress, TypeOK, ChannelsOK, HasPicked
<1>7. CASE RollbackOperation(r)
  BY <1>7, RequestMoves DEF RollbackOperation, TypeOK, ChannelsOK, HasPicked
<1>8. CASE FailTask(r)
  <2>1. task' \in [Tasks -> {"none", "pending", "in_progress", "completed", "failed"}]
    BY <1>8 DEF FailTask, TypeOK
  <2> QED BY <1>8, <2>1, RequestMoves DEF FailTask, TypeOK, ChannelsOK, HasPicked
<1>9. CASE RestoreStatus(r)
  <2>1. seen[r].status \in Statuses
    BY <1>9 DEF RestoreStatus, RequestStep, KnowsStatus
  <2> QED BY <1>9, <2>1, RequestMoves DEF RestoreStatus, TypeOK, ChannelsOK, HasPicked
<1>10. CASE EmitFails(r)
  BY <1>10, RequestMoves DEF EmitFails, TypeOK, ChannelsOK, HasPicked
<1> QED BY <1>1, <1>2, <1>3, <1>4, <1>5, <1>6, <1>7, <1>8, <1>9, <1>10 DEF RequestRuns

LEMMA TypesOfLoad ==
  ASSUME Types, NEW r \in Requests, NEW k \in Kinds, Load(r, k)
  PROVE  Types'
<1> USE DEF Types
<1>1. r \in Callers
  BY DEF Callers
<1>2. /\ req' \in [Callers -> RequestPhases] /\ kind' \in [Callers -> Kinds]
      /\ seen' \in [Callers -> [status : Statuses \cup {"none"}, sid : Conns \cup {NoConn}]]
      /\ raced' \in BOOLEAN
  BY <1>1 DEF Load, TypeOK, RequestPhases
<1>3. KnowsStatus'
  BY <1>1 DEF Load, KnowsStatus, TypeOK
<1> QED BY <1>2, <1>3 DEF Load, TypeOK, ChannelsOK, HasPicked, rowVars, connVars, hostVars,
                          handlerVars

LEMMA TypesOfConnections ==
  ASSUME Types, NEW c \in Conns, ConnectionHandled(c) \/ Connect(c)
  PROVE  Types'
<1> USE DEF Types, RegisterStep, rowVars, reqVars, hostVars, handlerVars
<1>1. CASE Connect(c)
  BY <1>1 DEF Connect, Synced, TypeOK, ChannelsOK, KnowsStatus, HasPicked
<1>2. CASE Unregister(c)
  BY <1>2 DEF Unregister, TypeOK, ChannelsOK, KnowsStatus, HasPicked
<1>3. CASE Register(c)
  BY <1>3 DEF Register, TypeOK, ChannelsOK, KnowsStatus, HasPicked
<1>4. CASE NothingPending(c)
  BY <1>4 DEF NothingPending, TypeOK, ChannelsOK, KnowsStatus, HasPicked
<1>5. CASE ListPending(c)
  BY <1>5 DEF ListPending, TypeOK, ChannelsOK, KnowsStatus, HasPicked
<1>6. CASE ReuseTask(c)
  <2>1. PICK t \in ActiveRemovals : picked' = [picked EXCEPT ![c] = t]
    BY <1>6 DEF ReuseTask
  <2>2. picked' \in [Conns -> Tasks \cup {NoTask}] /\ HasPicked'
    BY <1>6, <2>1 DEF ReuseTask, ActiveRemovals, ChannelsOK, HasPicked
  <2> QED BY <1>6, <2>2 DEF ReuseTask, TypeOK, ChannelsOK, KnowsStatus
<1>7. CASE NewTask(c)
  <2>1. c \in Tasks
    BY DEF Tasks
  <2>2. task' \in [Tasks -> {"none", "pending", "in_progress", "completed", "failed"}]
    BY <1>7, <2>1 DEF NewTask, TypeOK
  <2>3. picked' \in [Conns -> Tasks \cup {NoTask}] /\ HasPicked'
    BY <1>7, <2>1 DEF NewTask, ChannelsOK, HasPicked
  <2> QED BY <1>7, <2>2, <2>3 DEF NewTask, TypeOK, ChannelsOK, KnowsStatus
<1>8. CASE DispatchMarks(c)
  BY <1>8 DEF DispatchMarks, TypeOK, ChannelsOK, KnowsStatus, HasPicked, Statuses, InDeletion
<1>9. CASE DispatchEmits(c)
  <2>1. [kind |-> "remove", task |-> picked[c], from |-> c] \in Orders
    BY <1>9 DEF DispatchEmits, HasPicked, Orders, Kinds, Tasks
  <2>2. jobs' \subseteq [cmd : Orders, at : Places]
    BY <1>9, <2>1, OrdersSent DEF DispatchEmits
  <2> QED BY <1>9, <2>2 DEF DispatchEmits, TypeOK, ChannelsOK, KnowsStatus, HasPicked
<1>10. CASE DispatchEnds(c)
  <2>1. task' \in [Tasks -> {"none", "pending", "in_progress", "completed", "failed"}]
    BY <1>10 DEF DispatchEnds, TypeOK
  <2>2. picked' \in [Conns -> Tasks \cup {NoTask}] /\ HasPicked'
    BY <1>10 DEF DispatchEnds, ChannelsOK, HasPicked
  <2> QED BY <1>10, <2>1, <2>2 DEF DispatchEnds, TypeOK, ChannelsOK, KnowsStatus
<1> QED BY <1>1, <1>2, <1>3, <1>4, <1>5, <1>6, <1>7, <1>8, <1>9, <1>10 DEF ConnectionHandled

(* A job moves on in its place.                                             *)
LEMMA JobMoves ==
  ASSUME Types, NEW j \in jobs, NEW from, NEW to \in Places, JobStep(j, from, to)
  PROVE  /\ jobs' \subseteq [cmd : Orders, at : Places]
         /\ UNCHANGED <<rowVars, task, reqVars, connVars, toBackend, listed, handlerVars, inputs,
                        raced>>
<1>1. j \in [cmd : Orders, at : Places]
  BY DEF Types, ChannelsOK
<1>2. [j EXCEPT !.at = to] \in [cmd : Orders, at : Places]
  BY <1>1
<1> QED BY <1>2 DEF JobStep, Types, ChannelsOK

LEMMA TypesOfWork ==
  ASSUME Types, NEW j \in jobs, Works(j)
  PROVE  Types'
<1>1. /\ jobs' \subseteq [cmd : Orders, at : Places]
      /\ UNCHANGED <<rowVars, task, reqVars, connVars, toBackend, listed, handlerVars, inputs, raced>>
  BY JobMoves DEF Works, CreateBegins, CreateDefines, CreateBoots, CreateEnds, CreateFails, Stops,
                  Resumes, Uncaches, Removes, RemoveFails, Places
<1>2. /\ inst' \in Instances /\ cache' \in {"absent", "noid", "creating", "known"}
      /\ leaked' \in BOOLEAN
  BY DEF Works, CreateBegins, CreateDefines, CreateBoots, CreateEnds, CreateFails, Stops, Resumes,
         Uncaches, Removes, RemoveFails, Types, TypeOK, Instances
<1> QED BY <1>1, <1>2 DEF Types, TypeOK, ChannelsOK, KnowsStatus, HasPicked, rowVars, reqVars,
                          connVars, handlerVars

Messages == Replies \cup Confirmations \cup Beats

LEMMA MessagesSent ==
  ASSUME Types, NEW m \in Messages, Sends(m)
  PROVE  toBackend' \in Seq(Messages)
BY Appended DEF Sends, Types, ChannelsOK, Messages

LEMMA TypesOfReply ==
  ASSUME Types, NEW j \in jobs, Reply(j)
  PROVE  Types'
<1>1. j.cmd \in Orders
  BY DEF Types, ChannelsOK
<1>2. [kind |-> j.cmd.kind, task |-> j.cmd.task, ok |-> j.at = "ok"] \in Messages
  BY <1>1 DEF Orders, Messages, Replies, Confirmations
<1>3. toBackend' \in Seq(Messages)
  BY <1>2, MessagesSent DEF Reply
<1> QED BY <1>3 DEF Reply, Types, TypeOK, ChannelsOK, KnowsStatus, HasPicked, rowVars, reqVars,
                    connVars, handlerVars, Messages

LEMMA TypesOfRunner ==
  ASSUME Types, Heartbeat \/ InstanceDies \/ Disconnect
  PROVE  Types'
<1> USE DEF Types, rowVars, reqVars, connVars, hostVars, handlerVars
<1>1. CASE ListInstances
  BY <1>1 DEF ListInstances, TypeOK, ChannelsOK, KnowsStatus, HasPicked
<1>2. CASE SendBeat
  <2>1. listed \in Instances /\ cache' \in {"absent", "noid", "creating", "known"}
    BY <1>2 DEF SendBeat, TypeOK, Synced
  <2>2. [kind |-> "beat", inst |-> IF cache' \in {"noid", "creating"} THEN "creating" ELSE listed]
          \in Messages
    BY <2>1 DEF Messages, Beats, Reports
  <2>3. toBackend' \in Seq(Messages)
    BY <1>2, <2>2, MessagesSent DEF SendBeat
  <2>4. leaked' \in BOOLEAN
    BY <1>2 DEF SendBeat, TypeOK
  <2> QED BY <1>2, <2>1, <2>3, <2>4 DEF SendBeat, TypeOK, ChannelsOK, KnowsStatus, HasPicked, Messages
<1>3. CASE InstanceDies
  BY <1>3 DEF InstanceDies, TypeOK, ChannelsOK, KnowsStatus, HasPicked, Instances
<1>4. CASE Disconnect
  <2>1. PICK n \in 0..Len(toBackend) : toBackend' = SubSeq(toBackend, 1, n)
    BY <1>4 DEF Disconnect
  <2>2. toBackend' \in Seq(Replies \cup Confirmations \cup Beats)
    BY <2>1, Cutoff DEF ChannelsOK
  <2>3. jobs' \subseteq jobs /\ gone' \in [Conns -> {"no", "dropped", "handled"}]
    BY <1>4 DEF Disconnect, ChannelsOK
  <2> QED BY <1>4, <2>2, <2>3 DEF Disconnect, TypeOK, ChannelsOK, KnowsStatus, HasPicked
<1> QED BY <1>1, <1>2, <1>3, <1>4 DEF Heartbeat

LEMMA TypesOfSocket ==
  ASSUME Types, Socket \/ HandleBeat
  PROVE  Types'
<1> USE DEF Types, rowVars, reqVars, connVars, hostVars, handlerVars
<1>1. ASSUME toBackend # <<>>
      PROVE  Tail(toBackend) \in Seq(Messages) /\ Head(toBackend) \in Messages
  BY <1>1, Taken DEF ChannelsOK, Messages
<1>2. CASE HandleReply
  <2>1. Head(toBackend) \in Replies
    BY <1>1, <1>2 DEF HandleReply, Messages, Confirmations, Beats, Kinds
  <2>2. worker' \in Seq(Writes)
    BY <1>2, <2>1, StatementsAreWrites DEF HandleReply
  <2>3. /\ toBackend' \in Seq(Messages)
        /\ UNCHANGED <<rowVars, task, reqVars, connVars, hostVars, beat, cleanup, inputs, raced>>
    BY <1>1, <1>2 DEF HandleReply
  <2> QED BY <2>2, <2>3 DEF TypeOK, ChannelsOK, KnowsStatus, HasPicked, Messages
<1>3. CASE HandleCleanupDone
  <2>1. /\ toBackend' \in Seq(Messages) /\ cleanup' \in BOOLEAN
        /\ UNCHANGED <<rowVars, task, reqVars, connVars, hostVars, worker, beat, inputs, raced>>
    BY <1>1, <1>3 DEF HandleCleanupDone
  <2> QED BY <2>1 DEF TypeOK, ChannelsOK, KnowsStatus, HasPicked, Messages
<1>4. CASE Statement
  <2>1. worker' \in Seq(Writes) /\ Head(worker) \in Writes
    BY <1>4, Taken DEF Statement, Idle, ChannelsOK
  <2>2. status' \in Statuses /\ op' \in {"none", "creating", "stopping", "starting", "removing"}
    BY <1>4, <2>1 DEF Statement, TypeOK, Writes
  <2>3. task' \in [Tasks -> {"none", "pending", "in_progress", "completed", "failed"}]
    BY <1>4, <2>1 DEF Statement, TypeOK, Writes
  <2>4. raced' \in BOOLEAN
    BY <1>4 DEF Statement, TypeOK
  <2> QED BY <1>4, <2>1, <2>2, <2>3, <2>4 DEF Statement, TypeOK, ChannelsOK, KnowsStatus, HasPicked
<1>5. CASE ReceiveBeat
  <2>1. Head(toBackend) \in Beats
    BY <1>1, <1>5 DEF ReceiveBeat, Messages, Replies, Confirmations, Kinds
  <2> QED BY <1>1, <1>5, <2>1 DEF ReceiveBeat, TypeOK, ChannelsOK, KnowsStatus, HasPicked, Messages,
                                  Beats
<1>6. CASE HandleBeat
  <2>1. jobs' \subseteq [cmd : Orders, at : Places]
    <3>1. [kind |-> "cleanup", task |-> NoTask, from |-> NoTask] \in Orders
      BY DEF Orders
    <3> QED BY <1>6, <3>1, OrdersSent DEF HandleBeat, ChannelsOK
  <2>2. worker' \in Seq(Writes)
    <3>1. beat \in Reports
      BY <1>6 DEF HandleBeat, TypeOK
    <3>2. Reconciled(beat) \in Seq(Statuses)
      <4>1. beat \in {"running", "exited"} => Mapped(beat) \in Statuses
        BY DEF Mapped, Statuses
      <4>2. \A s \in Statuses : <<s>> \in Seq(Statuses)
        OBVIOUS
      <4>3. "failed" \in Statuses /\ <<>> \in Seq(Statuses)
        BY DEF Statuses
      <4>4. beat \in {"absent", "creating", "running", "exited"}
        BY <3>1 DEF Reports, Instances
      <4> QED BY <4>1, <4>2, <4>3, <4>4 DEF Reconciled
    <3>3. \A i \in DOMAIN Reconciled(beat) : Write("reported", Reconciled(beat)[i]) \in Writes
      BY <3>2, Elements DEF Write, Writes
    <3>4. [i \in DOMAIN Reconciled(beat) |-> Write("reported", Reconciled(beat)[i])] \in Seq(Writes)
      <4>1. /\ DOMAIN Reconciled(beat) = 1..Len(Reconciled(beat))
            /\ Len(Reconciled(beat)) \in Nat
        BY <3>2, Elements
      <4> QED BY <3>3, <4>1, IsASeq
    <3> QED BY <1>6, <3>4 DEF HandleBeat
  <2>3. beat' \in Reports \cup {"none"} /\ cleanup' \in BOOLEAN
    BY <1>6 DEF HandleBeat, TypeOK
  <2>4. UNCHANGED <<rowVars, task, reqVars, connVars, toBackend, inst, cache, listed, leaked, raced>>
    BY <1>6 DEF HandleBeat
  <2> QED BY <2>1, <2>2, <2>3, <2>4 DEF TypeOK, ChannelsOK, KnowsStatus, HasPicked
<1> QED BY <1>2, <1>3, <1>4, <1>5, <1>6 DEF Socket

LEMMA TypesStep == Types /\ [Next]_vars => Types'
<1> SUFFICES ASSUME Types, [Next]_vars PROVE Types'
  OBVIOUS
<1>1. CASE UNCHANGED vars
  BY <1>1 DEF vars, rowVars, reqVars, connVars, hostVars, handlerVars, Types, TypeOK, ChannelsOK,
              KnowsStatus, HasPicked
<1>2. CASE Backend
  BY <1>2, TypesOfRequests, TypesOfConnections, TypesOfSocket DEF Backend
<1>3. CASE Runner
  BY <1>3, TypesOfWork, TypesOfReply DEF Runner
<1>4. ASSUME NEW r \in Requests, NEW k \in Kinds \ {"create"}, Load(r, k) PROVE Types'
  BY <1>4, TypesOfLoad
<1>5. ASSUME NEW r \in Callers, EmitFails(r) PROVE Types'
  BY <1>5, TypesOfRequests
<1>6. CASE Heartbeat \/ InstanceDies \/ Disconnect
  BY <1>6, TypesOfRunner
<1>7. ASSUME NEW c \in Conns, Connect(c) PROVE Types'
  BY <1>7, TypesOfConnections
<1> QED BY <1>1, <1>2, <1>3, <1>4, <1>5, <1>6, <1>7 DEF Next

(* The variables have their types.                                          *)
THEOREM TypeCorrect == Spec => []TypeOK
<1>1. Types => TypeOK
  BY DEF Types
<1> QED BY <1>1, InitTypes, TypesStep, PTL DEF Spec
-----------------------------------------------------------------------------
(* The owner of active_operation.                                           *)
LEMMA InitOwned == Init => OwnInv
<1> USE ConnAssumption, TaskAssumption
<1> SUFFICES ASSUME Init PROVE OwnInv
  OBVIOUS
<1>1. /\ op = "none" /\ picked = [c \in Conns |-> NoTask]
      /\ toBackend = <<>> /\ jobs = {} /\ worker = <<>>
      /\ kind = [r \in Callers |-> IF r = Creation THEN "create" ELSE "stop"]
  BY DEF Init, InitBackend
<1>2. \A t : ~Abroad(t)
  BY <1>1 DEF Abroad, InJobs, InReports, InWrites
<1>3. UnmadeIsUnknown
  BY <1>1, <1>2 DEF Init, BeingCreated, InUse, UnmadeIsUnknown, Callers, Tasks
<1>4. HeardWhenSent
  BY <1>2 DEF HeardWhenSent
<1>5. OpenWhenSet
  BY <1>1 DEF Init, BeingCreated, InUse, OpenWhenSet, Callers, Tasks
<1>6. PicksRemovals
  BY <1>1 DEF PicksRemovals, Callers
<1>7. OpHasOwner
  BY <1>1 DEF OpHasOwner
<1> QED BY <1>3, <1>4, <1>5, <1>6, <1>7 DEF OwnInv

(* A step that leaves the requests, their tasks and the operation alone.    *)
LEMMA OwnedWhileQuiet ==
  ASSUME OwnInv, UNCHANGED <<op, task, req, kind, picked>>,
         \A t \in Callers : Abroad(t)' => Abroad(t),
         \A t \in Callers : Bare(t)' => Bare(t)
  PROVE  OwnInv'
<1>1. UnmadeIsUnknown'
  BY DEF OwnInv, UnmadeIsUnknown, Callers
<1>2. HeardWhenSent' /\ OpenWhenSet' /\ PicksRemovals'
  BY DEF OwnInv, HeardWhenSent, OpenWhenSet, PicksRemovals
<1>3. OpHasOwner'
  BY DEF OwnInv, OpHasOwner, Owns
<1> QED BY <1>1, <1>2, <1>3 DEF OwnInv

LEMMA BareWhileIdle ==
  ASSUME UNCHANGED worker, NEW t PROVE Bare(t)' <=> Bare(t)
BY DEF Bare

(* A step of a request.                                                     *)
LEMMA OwnedByRequest ==
  ASSUME Types, OwnInv, NEW r \in Callers,
         NEW from \in RequestPhases \ {"ready", "returned"}, NEW to \in RequestPhases \ {"ready"},
         RequestStep(r, from, to), UNCHANGED <<kind, picked, worker>>,
         from = "sent" => to = "returned",
         \A t \in Callers : Abroad(t)' => Abroad(t) \/ (t = r /\ to = "sent"),
         \A t \in Callers : t # r => task'[t] = task[t],
         kind[r] # "remove" /\ to \in {"marking", "setop"} => task'[r] = "pending"
  PROVE  /\ UnmadeIsUnknown' /\ HeardWhenSent' /\ OpenWhenSet' /\ PicksRemovals'
         /\ op' = op /\ (from \in Holding => to \in Holding /\ (task[r] \in Active => task'[r] \in Active))
              => OpHasOwner'
<1>1. /\ req \in [Callers -> RequestPhases] /\ req[r] = from /\ req' = [req EXCEPT ![r] = to]
  BY DEF Types, TypeOK, RequestStep
<1>2. UnmadeIsUnknown'
  BY <1>1 DEF OwnInv, UnmadeIsUnknown, Callers
<1>3. HeardWhenSent'
  BY <1>1 DEF OwnInv, HeardWhenSent
<1>4. OpenWhenSet'
  BY <1>1 DEF OwnInv, OpenWhenSet
<1>5. PicksRemovals'
  BY <1>1 DEF OwnInv, PicksRemovals
<1>6. ASSUME op' = op,
             from \in Holding => to \in Holding /\ (task[r] \in Active => task'[r] \in Active)
      PROVE  OpHasOwner'
  <2> SUFFICES ASSUME op \in {"creating", "stopping", "starting"}
               PROVE  \E s \in Callers : Owns(s)'
    BY <1>6 DEF OpHasOwner
  <2>1. PICK s \in Callers : Owns(s)
    BY DEF OwnInv, OpHasOwner
  <2>2. Owns(s)'
    BY <1>1, <1>6, <2>1, BareWhileIdle DEF Owns
  <2> QED BY <2>2
<1> QED BY <1>2, <1>3, <1>4, <1>5, <1>6

LEMMA OwnedByRequests ==
  ASSUME Types, OwnInv, NEW r \in Callers, RequestRuns(r) \/ EmitFails(r)
  PROVE  OwnInv'
<1> USE DEF RequestPhases, Holding, connVars, hostVars, handlerVars
<1>1. r \in Tasks /\ task \in [Tasks -> {"none", "pending", "in_progress", "completed", "failed"}]
      /\ Callers \subseteq Tasks
  BY DEF Tasks, Types, TypeOK
<1>2. ASSUME UNCHANGED <<jobs, toBackend, worker>>
      PROVE  \A t \in Callers : Abroad(t)' => Abroad(t)
  BY <1>2 DEF Abroad, InJobs, InReports, InWrites
<1>3. ASSUME UNCHANGED task PROVE \A t \in Callers : t # r => task'[t] = task[t]
  BY <1>3
<1>4. CASE CreateTask(r)
  <2>1. task'[r] = "pending" /\ \A t \in Callers : t # r => task'[t] = task[t]
    BY <1>1, <1>4 DEF CreateTask
  <2>2. /\ \A t \in Callers : Abroad(t)' => Abroad(t)
        /\ UNCHANGED <<kind, picked, worker>> /\ op' = op
    BY <1>2, <1>4 DEF CreateTask, rowVars
  <2>3. CASE kind[r] = "remove"
    <3>1. RequestStep(r, "accepted", "marking")
      BY <1>4, <2>3 DEF CreateTask
    <3> QED BY <2>1, <2>2, <3>1, OwnedByRequest DEF OwnInv
  <2>4. CASE kind[r] # "remove"
    <3>1. RequestStep(r, "accepted", "setop")
      BY <1>4, <2>4 DEF CreateTask
    <3> QED BY <2>1, <2>2, <3>1, OwnedByRequest DEF OwnInv
  <2> QED BY <2>3, <2>4
<1>5. CASE MarkDeleting(r)
  <2>1. kind[r] # "remove" => task'[r] = "pending"
    BY <1>5 DEF MarkDeleting, RequestStep, OwnInv, OpenWhenSet
  <2>2. OpHasOwner'
    BY <1>5 DEF MarkDeleting, OpHasOwner
  <2> QED BY <1>2, <1>5, <2>1, <2>2, OwnedByRequest DEF MarkDeleting, OwnInv
<1>6. CASE MarkPendingDeletion(r)
  <2>1. OpHasOwner'
    BY <1>6 DEF MarkPendingDeletion, OpHasOwner
  <2> QED BY <1>2, <1>6, <2>1, OwnedByRequest DEF MarkPendingDeletion, OwnInv
<1>7. CASE SetOperation(r)
  <2>1. UnmadeIsUnknown' /\ HeardWhenSent' /\ OpenWhenSet' /\ PicksRemovals'
    BY <1>2, <1>7, OwnedByRequest DEF SetOperation
  <2>2. OpHasOwner'
    <3> SUFFICES ASSUME op' \in {"creating", "stopping", "starting"} PROVE Owns(r)'
      BY DEF OpHasOwner
    <3>1. kind[r] # "remove" /\ kind'[r] = kind[r] /\ op' = OperationOf(kind[r])
      BY <1>7 DEF SetOperation, OperationOf
    <3>2. task'[r] \in Active /\ req'[r] = "emitting"
      BY <1>7, <3>1 DEF SetOperation, RequestStep, OwnInv, OpenWhenSet, Active, Types, TypeOK
    <3>3. ~Bare(r)
      BY <1>7, <3>1 DEF SetOperation, RequestStep, OwnInv, HeardWhenSent, Abroad, InWrites, Bare
    <3>4. ~Bare(r)'
      BY <1>7, <3>3, BareWhileIdle DEF SetOperation
    <3> QED BY <3>1, <3>2, <3>4 DEF Owns
  <2> QED BY <2>1, <2>2 DEF OwnInv
<1>8. CASE Emit(r)
  <2>1. \A t \in Callers : Abroad(t)' => Abroad(t) \/ t = r
    BY <1>8 DEF Emit, Send, Abroad, InJobs, InReports, InWrites
  <2> QED BY <1>8, <2>1, OwnedByRequest DEF Emit, OwnInv, rowVars
<1>9. CASE MarkInProgress(r)
  <2>1. task'[r] \in Active /\ \A t \in Callers : t # r => task'[t] = task[t]
    BY <1>1, <1>9 DEF MarkInProgress, Active
  <2> QED BY <1>2, <1>9, <2>1, OwnedByRequest DEF MarkInProgress, OwnInv, rowVars
<1>10. CASE RollbackOperation(r)
  <2>1. OpHasOwner'
    BY <1>10 DEF RollbackOperation, OpHasOwner
  <2> QED BY <1>2, <1>10, <2>1, OwnedByRequest DEF RollbackOperation, OwnInv
<1>11. CASE FailTask(r)
  <2>1. \A t \in Callers : t # r => task'[t] = task[t]
    BY <1>1, <1>11 DEF FailTask
  <2> QED BY <1>2, <1>11, <2>1, OwnedByRequest DEF FailTask, OwnInv, rowVars
<1>12. CASE RestoreStatus(r)
  BY <1>2, <1>12, OwnedByRequest DEF RestoreStatus, OwnInv
<1>13. CASE EmitFails(r)
  BY <1>2, <1>13, OwnedByRequest DEF EmitFails, OwnInv, rowVars
<1> QED BY <1>4, <1>5, <1>6, <1>7, <1>8, <1>9, <1>10, <1>11, <1>12, <1>13 DEF RequestRuns

LEMMA OwnedByLoad ==
  ASSUME Types, OwnInv, NEW r \in Requests, NEW k \in Kinds \ {"create"}, Load(r, k)
  PROVE  OwnInv'
<1>1. /\ r \in Callers /\ req[r] = "ready"
      /\ req' = [req EXCEPT ![r] = "accepted"] /\ kind' = [kind EXCEPT ![r] = k]
      /\ UNCHANGED <<op, task, picked, jobs, toBackend, worker>>
      /\ req \in [Callers -> RequestPhases] /\ kind \in [Callers -> Kinds]
  BY DEF Load, Callers, Types, TypeOK, rowVars, connVars, hostVars, handlerVars
<1>2. \A t : (Abroad(t)' <=> Abroad(t)) /\ (Bare(t)' <=> Bare(t))
  BY <1>1 DEF Abroad, InJobs, InReports, InWrites, Bare
<1>3. UnmadeIsUnknown'
  BY <1>1, <1>2 DEF OwnInv, UnmadeIsUnknown, Callers
<1>4. HeardWhenSent'
  BY <1>1, <1>2 DEF OwnInv, HeardWhenSent, UnmadeIsUnknown
<1>5. OpenWhenSet'
  BY <1>1 DEF OwnInv, OpenWhenSet
<1>6. PicksRemovals'
  BY <1>1 DEF OwnInv, PicksRemovals
<1>7. OpHasOwner'
  BY <1>1, <1>2 DEF OwnInv, OpHasOwner, Owns, Holding
<1> QED BY <1>3, <1>4, <1>5, <1>6, <1>7 DEF OwnInv

(* A registration delivers deletions, which own nothing.                    *)
LEMMA OwnedByConnections ==
  ASSUME Types, OwnInv, NEW c \in Conns, ConnectionHandled(c) \/ Connect(c)
  PROVE  OwnInv'
<1> USE DEF rowVars, reqVars, connVars, hostVars, handlerVars
<1>0. UNCHANGED <<req, kind, worker, toBackend>>
  BY DEF ConnectionHandled, Connect, Unregister, Register, NothingPending, ListPending, ReuseTask,
         NewTask, DispatchMarks, DispatchEmits, DispatchEnds
<1>1. ASSUME UNCHANGED jobs
      PROVE  \A t \in Callers : (Abroad(t)' => Abroad(t)) /\ (Bare(t)' => Bare(t))
  BY <1>0, <1>1 DEF Abroad, InJobs, InReports, InWrites, Bare
<1>2. CASE Connect(c) \/ Unregister(c) \/ Register(c) \/ NothingPending(c) \/ ListPending(c)
  BY <1>1, <1>2, OwnedWhileQuiet DEF Connect, Unregister, Register, NothingPending, ListPending
<1>3. CASE ReuseTask(c)
  <2>1. UNCHANGED <<op, task, jobs>>
    BY <1>3 DEF ReuseTask
  <2>2. UnmadeIsUnknown' /\ HeardWhenSent' /\ OpenWhenSet' /\ OpHasOwner'
    BY <1>0, <1>1, <2>1 DEF OwnInv, UnmadeIsUnknown, HeardWhenSent, OpenWhenSet, OpHasOwner, Owns,
                            Callers
  <2>3. PICK t \in ActiveRemovals : picked' = [picked EXCEPT ![c] = t]
    BY <1>3 DEF ReuseTask
  <2>4. t \in Callers => kind[t] = "remove" /\ req[t] # "ready"
    <3> HAVE t \in Callers
    <3>1. kind[t] = "remove" /\ task[t] \in Active
      BY <2>3 DEF ActiveRemovals, KindOf
    <3> QED BY <3>1 DEF OwnInv, UnmadeIsUnknown, Active
  <2>5. PicksRemovals'
    BY <1>0, <2>3, <2>4 DEF OwnInv, PicksRemovals, Types, ChannelsOK
  <2> QED BY <2>2, <2>5 DEF OwnInv
<1>4. CASE NewTask(c)
  <2>1. c \notin Callers /\ UNCHANGED <<op, jobs>>
    BY <1>4, TaskAssumption DEF NewTask, Callers
  <2>2. \A t \in Callers : task'[t] = task[t]
    BY <1>4, <2>1 DEF NewTask, Types, TypeOK, Tasks
  <2>3. UnmadeIsUnknown' /\ HeardWhenSent' /\ OpenWhenSet' /\ OpHasOwner'
    BY <1>0, <1>1, <2>1, <2>2 DEF OwnInv, UnmadeIsUnknown, HeardWhenSent, OpenWhenSet, OpHasOwner,
                                  Owns, Callers
  <2>4. PicksRemovals'
    BY <1>0, <1>4, <2>1 DEF NewTask, OwnInv, PicksRemovals, Types, ChannelsOK
  <2> QED BY <2>3, <2>4 DEF OwnInv
<1>5. CASE DispatchMarks(c)
  <2>1. UNCHANGED <<task, jobs, picked>> /\ op' = "none"
    BY <1>5 DEF DispatchMarks
  <2>2. OpHasOwner'
    BY <2>1 DEF OpHasOwner
  <2> QED BY <1>0, <1>1, <2>1, <2>2 DEF OwnInv, UnmadeIsUnknown, HeardWhenSent, OpenWhenSet,
                                        PicksRemovals, Callers
<1>6. CASE DispatchEmits(c)
  <2>1. UNCHANGED <<op, task, picked>>
    BY <1>6 DEF DispatchEmits
  <2>2. \A t \in Callers : Abroad(t)' => Abroad(t) \/ t = picked[c]
    BY <1>0, <1>6 DEF DispatchEmits, Send, Abroad, InJobs, InReports, InWrites
  <2>3. picked[c] \in Callers => kind[picked[c]] = "remove" /\ req[picked[c]] # "ready"
    BY DEF OwnInv, PicksRemovals
  <2>4. UnmadeIsUnknown' /\ HeardWhenSent'
    BY <1>0, <2>1, <2>2, <2>3 DEF OwnInv, UnmadeIsUnknown, HeardWhenSent, Callers
  <2>5. OpenWhenSet' /\ PicksRemovals'
    BY <1>0, <2>1 DEF OwnInv, OpenWhenSet, PicksRemovals
  <2>6. OpHasOwner'
    BY <1>0, <2>1 DEF OwnInv, OpHasOwner, Owns, Bare
  <2> QED BY <2>4, <2>5, <2>6 DEF OwnInv
<1>7. CASE DispatchEnds(c)
  <2>1. UNCHANGED <<op, jobs>>
    BY <1>7 DEF DispatchEnds
  <2>2. picked[c] \in Callers => kind[picked[c]] = "remove" /\ req[picked[c]] # "ready"
    BY DEF OwnInv, PicksRemovals
  <2>3. \A t \in Callers : kind[t] # "remove" => task'[t] = task[t]
    BY <1>7, <2>2 DEF DispatchEnds, Types, TypeOK, Tasks
  <2>4. UnmadeIsUnknown' /\ HeardWhenSent' /\ OpenWhenSet' /\ OpHasOwner'
    BY <1>0, <1>1, <2>1, <2>3 DEF OwnInv, UnmadeIsUnknown, HeardWhenSent, OpenWhenSet, OpHasOwner,
                                  Owns, Callers
  <2>5. PicksRemovals'
    BY <1>0, <1>7, TaskAssumption DEF DispatchEnds, OwnInv, PicksRemovals, Types, ChannelsOK, Callers
  <2> QED BY <2>4, <2>5 DEF OwnInv
<1> QED BY <1>2, <1>3, <1>4, <1>5, <1>6, <1>7 DEF ConnectionHandled

(* Every handler clears active_operation before it closes the task.         *)
LEMMA StatementsClearFirst ==
  ASSUME NEW m \in Replies, NEW i \in DOMAIN Statements(m), Statements(m)[i].col = "task"
  PROVE  /\ Statements(m)[i].of = m.task
         /\ \E k \in DOMAIN Statements(m) : k < i /\ Statements(m)[k].col \in Clears
<1> USE DEF Write, WriteTask, Clears
<1>1. m.kind \in Kinds /\ m.task \in Tasks /\ m.ok \in BOOLEAN
  BY DEF Replies
<1>2. ASSUME NEW a, NEW b, NEW t, Statements(m) = <<a, b, WriteTask(m.task, t)>>,
             a.col # "task", b.col \in Clears
      PROVE  i = 3 /\ Statements(m)[2].col \in Clears /\ Statements(m)[3].of = m.task
  <2>1. DOMAIN Statements(m) = {1, 2, 3}
    BY <1>2
  <2> QED BY <1>2, <2>1
<1>3. ASSUME NEW a, NEW t, Statements(m) = <<a, WriteTask(m.task, t)>>, a.col \in Clears
      PROVE  i = 2 /\ Statements(m)[1].col \in Clears /\ Statements(m)[2].of = m.task
  <2>1. DOMAIN Statements(m) = {1, 2}
    BY <1>3
  <2> QED BY <1>3, <2>1
<1>4. CASE ~m.ok
  <2>1. Statements(m) = OnError(m.task)
    BY <1>4 DEF Statements
  <2>2. CASE KindOf(m.task) = "create"
    <3>1. Statements(m) = <<Write("op", "none"), Write("status", "failed"),
                            WriteTask(m.task, "failed")>>
      BY <2>1, <2>2, Concatenated DEF OnError
    <3>2. /\ Statements(m)[1].col \in Clears /\ Statements(m)[2].col # "task"
          /\ Statements(m)[3].of = m.task /\ DOMAIN Statements(m) = {1, 2, 3}
      BY <3>1
    <3>3. i = 3
      BY <3>2
    <3> QED BY <3>2, <3>3
  <2>3. CASE KindOf(m.task) = "remove"
    <3>1. Statements(m) = <<Write("op", "none"), Write("deletion", "delete_failed"),
                            WriteTask(m.task, "failed")>>
      BY <2>1, <2>3, Concatenated DEF OnError
    <3>2. i = 3 /\ Statements(m)[2].col \in Clears /\ Statements(m)[3].of = m.task
      BY <3>1, <1>2
    <3>3. 2 \in DOMAIN Statements(m)
      BY <3>1
    <3> QED BY <3>2, <3>3
  <2>4. CASE KindOf(m.task) \notin {"create", "remove"}
    <3>1. Statements(m) = <<Write("op", "none"), WriteTask(m.task, "failed")>>
      BY <2>1, <2>4, Concatenated DEF OnError
    <3>2. i = 2 /\ Statements(m)[1].col \in Clears /\ Statements(m)[2].of = m.task
      BY <3>1, <1>3
    <3>3. 1 \in DOMAIN Statements(m)
      BY <3>1
    <3> QED BY <3>2, <3>3
  <2> QED BY <2>2, <2>3, <2>4
<1>5. CASE m.ok /\ m.kind \in {"create", "stop", "resume"}
  <2>1. \/ Statements(m) = OnCreated(m.task) \/ Statements(m) = OnStopped(m.task)
        \/ Statements(m) = OnResumed(m.task)
    BY <1>5 DEF Statements
  <2>2. PICK s : Statements(m) = <<Write("status", s), Write("op", "none"),
                                   WriteTask(m.task, "completed")>>
    BY <2>1 DEF OnCreated, OnStopped, OnResumed
  <2>3. i = 3 /\ Statements(m)[2].col \in Clears /\ Statements(m)[3].of = m.task
    BY <2>2, <1>2
  <2>4. 2 \in DOMAIN Statements(m)
    BY <2>2
  <2> QED BY <2>3, <2>4
<1>6. CASE m.ok /\ m.kind = "remove"
  <2>1. Statements(m) = <<Write("deletion", "deleted"), WriteTask(m.task, "completed")>>
    BY <1>6 DEF Statements, OnRemoved
  <2>2. i = 2 /\ Statements(m)[1].col \in Clears /\ Statements(m)[2].of = m.task
    BY <2>1, <1>3
  <2>3. 1 \in DOMAIN Statements(m)
    BY <2>1
  <2> QED BY <2>2, <2>3
<1> QED BY <1>1, <1>4, <1>5, <1>6 DEF Kinds

LEMMA OwnedByRunner ==
  ASSUME Types, OwnInv, Runner \/ Heartbeat \/ InstanceDies \/ Disconnect
  PROVE  OwnInv'
<1> USE DEF rowVars, reqVars, connVars, hostVars, handlerVars
<1>1. UNCHANGED <<op, task, req, kind, picked, worker>>
  BY DEF Runner, Works, CreateBegins, CreateDefines, CreateBoots, CreateEnds, CreateFails, Stops,
         Resumes, Uncaches, Removes, RemoveFails, JobStep, Reply, Heartbeat, ListInstances, SendBeat,
         InstanceDies, Disconnect
<1>2. \A t : (InWrites(t)' => InWrites(t)) /\ (Bare(t)' => Bare(t))
  BY <1>1 DEF InWrites, Bare
<1>3. SUFFICES \A t \in Callers : InJobs(t)' \/ InReports(t)' => InJobs(t) \/ InReports(t)
  BY <1>1, <1>2, OwnedWhileQuiet DEF Abroad
<1>4. ASSUME NEW m \in Messages, Sends(m), NEW t \in Callers, InReports(t)'
      PROVE  InReports(t) \/ (m.kind \in Kinds /\ m.task = t)
  <2>1. CASE toBackend' = toBackend
    BY <1>4, <2>1 DEF InReports
  <2>2. CASE toBackend' = Append(toBackend, m)
    <3>1. \A i \in DOMAIN toBackend' :
            (i \in DOMAIN toBackend /\ toBackend'[i] = toBackend[i]) \/ toBackend'[i] = m
      BY <2>2, Appended DEF Types, ChannelsOK, Messages
    <3> QED BY <1>4, <3>1 DEF InReports
  <2> QED BY <1>4, <2>1, <2>2 DEF Sends
<1>5. ASSUME NEW j \in jobs, Works(j)
      PROVE  \A t \in Callers : InJobs(t)' \/ InReports(t)' => InJobs(t) \/ InReports(t)
  <2>1. PICK to \in Places : jobs' = (jobs \ {j}) \cup {[j EXCEPT !.at = to]}
    BY <1>5 DEF Works, CreateBegins, CreateDefines, CreateBoots, CreateEnds, CreateFails, Stops,
                Resumes, Uncaches, Removes, RemoveFails, JobStep, Places
  <2>2. [j EXCEPT !.at = to].cmd = j.cmd
    BY DEF Types, ChannelsOK
  <2>3. toBackend' = toBackend
    BY <1>5 DEF Works, CreateBegins, CreateDefines, CreateBoots, CreateEnds, CreateFails, Stops,
                Resumes, Uncaches, Removes, RemoveFails, JobStep
  <2> QED BY <2>1, <2>2, <2>3 DEF InJobs, InReports
<1>6. ASSUME NEW j \in jobs, Reply(j)
      PROVE  \A t \in Callers : InJobs(t)' \/ InReports(t)' => InJobs(t) \/ InReports(t)
  <2> DEFINE m == [kind |-> j.cmd.kind, task |-> j.cmd.task, ok |-> j.at = "ok"]
  <2>1. j.cmd \in Orders
    BY DEF Types, ChannelsOK
  <2>2. m \in Messages /\ m.task = j.cmd.task
    BY <2>1 DEF Orders, Messages, Replies, Confirmations
  <2>3. jobs' \subseteq jobs /\ Sends(m)
    BY <1>6 DEF Reply
  <2> HIDE DEF m
  <2> QED BY <1>4, <2>2, <2>3 DEF InJobs
<1>7. ASSUME ListInstances \/ InstanceDies
      PROVE  \A t \in Callers : InJobs(t)' \/ InReports(t)' => InJobs(t) \/ InReports(t)
  BY <1>7 DEF ListInstances, InstanceDies, InJobs, InReports
<1>8. ASSUME SendBeat
      PROVE  \A t \in Callers : InJobs(t)' \/ InReports(t)' => InJobs(t) \/ InReports(t)
  <2> DEFINE m == [kind |-> "beat",
                   inst |-> IF cache' \in {"noid", "creating"} THEN "creating" ELSE listed]
  <2>1. m \in Messages /\ m.kind \notin Kinds
    BY <1>8 DEF SendBeat, Messages, Beats, Reports, Types, TypeOK, Kinds
  <2>2. jobs' = jobs /\ Sends(m)
    BY <1>8 DEF SendBeat
  <2> HIDE DEF m
  <2> QED BY <1>4, <2>1, <2>2 DEF InJobs
<1>9. ASSUME Disconnect
      PROVE  \A t \in Callers : InJobs(t)' \/ InReports(t)' => InJobs(t) \/ InReports(t)
  <2>1. PICK n \in 0..Len(toBackend) : toBackend' = SubSeq(toBackend, 1, n)
    BY <1>9 DEF Disconnect
  <2>2. \A i \in DOMAIN toBackend' : i \in DOMAIN toBackend /\ toBackend'[i] = toBackend[i]
    BY <2>1, Cutoff DEF Types, ChannelsOK
  <2>3. jobs' \subseteq jobs
    BY <1>9 DEF Disconnect
  <2> QED BY <2>2, <2>3 DEF InJobs, InReports
<1> QED BY <1>5, <1>6, <1>7, <1>8, <1>9 DEF Runner, Heartbeat

LEMMA OwnedBySocket ==
  ASSUME Types, OwnInv, Socket \/ HandleBeat
  PROVE  OwnInv'
<1> USE DEF rowVars, reqVars, connVars, hostVars, handlerVars
<1>1. UNCHANGED <<req, kind, picked>>
  BY DEF Socket, HandleReply, HandleCleanupDone, Statement, ReceiveBeat, HandleBeat
<1>2. ASSUME toBackend # <<>>, toBackend' = Tail(toBackend)
      PROVE  /\ Head(toBackend) \in Messages /\ \A t : InReports(t)' => InReports(t)
             /\ \A t : Head(toBackend).kind \in Kinds /\ Head(toBackend).task = t => InReports(t)
  <2>1. /\ Head(toBackend) \in Messages /\ Head(toBackend) = toBackend[1] /\ 1 \in DOMAIN toBackend
        /\ \A i \in DOMAIN toBackend' : i + 1 \in DOMAIN toBackend /\ toBackend'[i] = toBackend[i + 1]
    BY <1>2, Taken DEF Types, ChannelsOK, Messages
  <2> QED BY <2>1 DEF InReports
<1>3. CASE HandleReply
  <2> DEFINE m == Head(toBackend)
  <2>1. m \in Replies /\ worker' = Statements(m)
    BY <1>2, <1>3 DEF HandleReply, Messages, Confirmations, Beats, Kinds
  <2>2. UNCHANGED <<op, task, jobs>>
    BY <1>3 DEF HandleReply
  <2>3. \A t : InReports(t)' => InReports(t)
    BY <1>2, <1>3 DEF HandleReply
  <2>4. InReports(m.task)
    BY <1>2, <1>3 DEF HandleReply
  <2> HIDE DEF m
  <2>5. \A t \in Callers : InWrites(t)' => t = m.task
    BY <2>1, StatementsClearFirst DEF InWrites
  <2>6. \A t \in Callers : ~Bare(t)'
    BY <2>1, StatementsClearFirst DEF Bare
  <2>7. \A t \in Callers : Abroad(t)' => Abroad(t)
    BY <2>2, <2>3, <2>4, <2>5 DEF Abroad, InJobs
  <2> QED BY <1>1, <2>2, <2>6, <2>7, OwnedWhileQuiet
<1>4. CASE HandleCleanupDone \/ ReceiveBeat
  <2>1. UNCHANGED <<op, task, jobs, worker>> /\ toBackend # <<>> /\ toBackend' = Tail(toBackend)
    BY <1>4 DEF HandleCleanupDone, ReceiveBeat
  <2>2. \A t \in Callers : (Abroad(t)' => Abroad(t)) /\ (Bare(t)' => Bare(t))
    BY <1>2, <2>1 DEF Abroad, InJobs, InWrites, Bare
  <2> QED BY <1>1, <2>1, <2>2, OwnedWhileQuiet
<1>5. CASE Statement
  <2> DEFINE w == Head(worker)
  <2>1. /\ w \in Writes /\ w = worker[1] /\ 1 \in DOMAIN worker
        /\ \A i \in DOMAIN worker' : i \in Nat /\ i + 1 \in DOMAIN worker /\ i # 0
                                     /\ worker'[i] = worker[i + 1]
    BY <1>5, Taken DEF Statement, Idle, Types, ChannelsOK
  <2>2. DOMAIN worker = 1..Len(worker) /\ Len(worker) \in Nat /\ DOMAIN worker' = 1..(Len(worker) - 1)
    <3>1. worker \in Seq(Writes) /\ worker # <<>> /\ worker' = Tail(worker)
      BY <1>5 DEF Statement, Idle, Types, ChannelsOK
    <3> QED BY <3>1, HeadTailProperties, Elements
  <2>3. UNCHANGED <<jobs, toBackend>>
    BY <1>5 DEF Statement
  <2>4. /\ op' = IF w.col \in Clears THEN "none" ELSE op
        /\ task' = IF w.col = "task" THEN [task EXCEPT ![w.of] = w.val] ELSE task
    BY <1>5 DEF Statement, Clears
  <2>5. w.col = "task" => InWrites(w.of) /\ Bare(w.of)
    BY <2>1, <2>2 DEF InWrites, Bare
  <2> HIDE DEF w
  <2>6. \A t : InWrites(t)' => InWrites(t)
    BY <2>1 DEF InWrites
  <2>7. \A t : Abroad(t)' => Abroad(t)
    BY <2>3, <2>6 DEF Abroad, InJobs, InReports
  <2>8. ASSUME NEW t, w.col \notin Clears, Bare(t)' PROVE Bare(t)
    <3>1. PICK i \in DOMAIN worker' :
            /\ worker'[i].col = "task" /\ worker'[i].of = t
            /\ \A k \in DOMAIN worker' : k < i => worker'[k].col \notin Clears
      BY <2>8 DEF Bare
    <3>2. i + 1 \in DOMAIN worker /\ worker[i + 1].col = "task" /\ worker[i + 1].of = t
      BY <2>1, <3>1
    <3>3. ASSUME NEW k \in DOMAIN worker, k < i + 1 PROVE worker[k].col \notin Clears
      <4>1. CASE k = 1
        BY <2>1, <2>8, <4>1
      <4>2. CASE k # 1
        <5>1. k - 1 \in DOMAIN worker' /\ k - 1 < i /\ (k - 1) + 1 = k
          BY <2>2, <3>1, <3>3, <4>2
        <5> QED BY <2>1, <3>1, <5>1
      <4> QED BY <4>1, <4>2
    <3> QED BY <3>2, <3>3 DEF Bare
  <2>9. ASSUME NEW r \in Callers, kind[r] # "remove", req[r] \notin {"sent", "returned"}
        PROVE  task'[r] = task[r]
    <3>1. w.col = "task" => w.of # r
      BY <2>5, <2>9 DEF OwnInv, HeardWhenSent, Abroad
    <3> QED BY <2>4, <3>1 DEF Types, TypeOK, Tasks
  <2>10. UnmadeIsUnknown'
    BY <1>1, <2>7, <2>9 DEF OwnInv, UnmadeIsUnknown
  <2>11. HeardWhenSent' /\ PicksRemovals'
    BY <1>1, <2>7 DEF OwnInv, HeardWhenSent, PicksRemovals
  <2>12. OpenWhenSet'
    BY <1>1, <2>9 DEF OwnInv, OpenWhenSet
  <2>13. OpHasOwner'
    <3> SUFFICES ASSUME op' \in {"creating", "stopping", "starting"}
                 PROVE  \E r \in Callers : Owns(r)'
      BY DEF OpHasOwner
    <3>1. w.col \notin Clears /\ op' = op
      BY <2>4
    <3>2. PICK r \in Callers : Owns(r)
      BY <3>1 DEF OwnInv, OpHasOwner
    <3>3. ~Bare(r)'
      BY <2>8, <3>1, <3>2 DEF Owns
    <3>4. task'[r] = task[r]
      <4>1. w.col = "task" => w.of # r
        BY <2>5, <3>2 DEF Owns
      <4> QED BY <2>4, <4>1 DEF Types, TypeOK, Tasks
    <3> QED BY <1>1, <3>1, <3>2, <3>3, <3>4 DEF Owns
  <2> QED BY <2>10, <2>11, <2>12, <2>13 DEF OwnInv
<1>6. CASE HandleBeat
  <2>1. UNCHANGED <<op, task, toBackend>>
    BY <1>6 DEF HandleBeat
  <2>2. \A t \in Callers : InJobs(t)' => InJobs(t)
    BY <1>6, TaskAssumption DEF HandleBeat, Send, InJobs, Callers
  <2>3. \A i \in DOMAIN worker' : worker'[i].col = "reported"
    BY <1>6 DEF HandleBeat, Write
  <2>4. \A t \in Callers : (Abroad(t)' => Abroad(t)) /\ (Bare(t)' => Bare(t))
    BY <2>1, <2>2, <2>3 DEF Abroad, InReports, InWrites, Bare
  <2> QED BY <1>1, <2>1, <2>4, OwnedWhileQuiet
<1> QED BY <1>3, <1>4, <1>5, <1>6 DEF Socket

LEMMA OwnedStep == Types /\ OwnInv /\ [Next]_vars => OwnInv'
<1> SUFFICES ASSUME Types, OwnInv, [Next]_vars PROVE OwnInv'
  OBVIOUS
<1>1. CASE UNCHANGED vars
  <2>1. UNCHANGED <<op, task, req, kind, picked, jobs, toBackend, worker>>
    BY <1>1 DEF vars, rowVars, reqVars, connVars, hostVars, handlerVars
  <2>2. \A t \in Callers : (Abroad(t)' => Abroad(t)) /\ (Bare(t)' => Bare(t))
    BY <2>1 DEF Abroad, InJobs, InReports, InWrites, Bare
  <2> QED BY <2>1, <2>2, OwnedWhileQuiet
<1>2. CASE Backend
  BY <1>2, OwnedByRequests, OwnedByConnections, OwnedBySocket DEF Backend
<1>3. ASSUME NEW r \in Requests, NEW k \in Kinds \ {"create"}, Load(r, k) PROVE OwnInv'
  BY <1>3, OwnedByLoad
<1>4. ASSUME NEW r \in Callers, EmitFails(r) PROVE OwnInv'
  BY <1>4, OwnedByRequests
<1>5. CASE Runner \/ Heartbeat \/ InstanceDies \/ Disconnect
  BY <1>5, OwnedByRunner
<1>6. ASSUME NEW c \in Conns, Connect(c) PROVE OwnInv'
  BY <1>6, OwnedByConnections
<1> QED BY <1>1, <1>2, <1>3, <1>4, <1>5, <1>6 DEF Next

(* A workspace is blocked only by an operation whose task is still open, so *)
(* that every block is lifted by the answer, or the rollback, of the request*)
(* that set it.                                                             *)
THEOREM BlocksAreOpen == Spec => []BlockedByOpenTask
<1>1. OwnInv => BlockedByOpenTask
  BY DEF OwnInv, OpHasOwner, Owns, BlockedByOpenTask
<1> QED BY <1>1, InitTypes, TypesStep, InitOwned, OwnedStep, PTL DEF Spec
-----------------------------------------------------------------------------
(* active_operation keeps the operations of a workspace apart, and a deleted   *)
(* workspace is gone: ExclusiveAtRunner and DeletedIsGone.                     *)


(* What is left of a handler: of the answer to an operation, of the answer  *)
(* to a removal, of either one after active_operation has been cleared, of a*)
(* heartbeat.                                                               *)
ClearOp == Write("op", "none")
Failed == Write("status", "failed")
Outcomes == {"completed", "failed"}

Settling(t) == \E v \in Outcomes :
  \/ worker = <<ClearOp, WriteTask(t, v)>>
  \/ worker = <<ClearOp, Failed, WriteTask(t, v)>>
  \/ \E s \in {"running", "stopped"} : worker = <<Write("status", s), ClearOp, WriteTask(t, v)>>
Concluding(t) == \E v \in Outcomes, s \in {"deleted", "delete_failed"} :
  \/ worker = <<Write("deletion", s), WriteTask(t, v)>>
  \/ worker = <<ClearOp, Write("deletion", s), WriteTask(t, v)>>
Closing(t) == \E v \in Outcomes :
  \/ worker = <<WriteTask(t, v)>>
  \/ worker = <<Failed, WriteTask(t, v)>>
Reconciling == \E s \in {"running", "stopped", "failed"} : worker = <<Write("reported", s)>>

WorkerOK ==
  \/ worker = <<>>
  \/ Reconciling
  \/ \E t \in Tasks : \/ Closing(t)
                      \/ KindOf(t) # "remove" /\ Settling(t)
                      \/ KindOf(t) = "remove" /\ Concluding(t)

(* What the runner is told, and tells, of a task is of the task's kind.     *)
KindsAgree ==
  /\ \A j \in jobs : j.cmd.kind \in Kinds => j.cmd.kind = KindOf(j.cmd.task)
  /\ \A i \in DOMAIN toBackend :
       toBackend[i].kind \in Kinds => toBackend[i].kind = KindOf(toBackend[i].task)

OnlyRemovals == \A r \in Callers : req[r] \in {"marking", "restore"} => kind[r] = "remove"

(* An operation that is no removal is sent once, and answered once.         *)
ReportOf(i, t) == toBackend[i].kind \in Kinds /\ toBackend[i].task = t
Once == \A r \in Callers : kind[r] # "remove" =>
  /\ \A j, k \in jobs : j.cmd.task = r /\ k.cmd.task = r => j = k
  /\ \A i, k \in DOMAIN toBackend : ReportOf(i, r) /\ ReportOf(k, r) => i = k
  /\ InJobs(r) => ~InReports(r) /\ ~Settling(r)
  /\ InReports(r) => ~Settling(r)

ShapeInv == WorkerOK /\ KindsAgree /\ OnlyRemovals /\ Once

-----------------------------------------------------------------------------
(* What can be read off a handler's next statement.                         *)
LEMMA ShapesDiffer ==
  ASSUME NEW t, NEW u
  PROVE  /\ Closing(t) => ~Settling(u) /\ ~Concluding(u) /\ ~Reconciling
         /\ Settling(t) => ~Concluding(u) /\ ~Reconciling /\ (Settling(u) => t = u)
         /\ Concluding(t) => ~Reconciling
         /\ worker = <<>> => ~Settling(t) /\ ~Concluding(t) /\ ~Closing(t) /\ ~Reconciling
<1> USE DEF Write, WriteTask, ClearOp, Failed
<1>1. ASSUME NEW x, Closing(x)
      PROVE  \/ Len(worker) = 1 /\ worker[1].col = "task"
             \/ Len(worker) = 2 /\ worker[1].col = "status"
  BY <1>1 DEF Closing
<1>2. ASSUME NEW x, Settling(x)
      PROVE  \/ Len(worker) = 2 /\ worker[1].col = "op" /\ worker[2].of = x
             \/ /\ Len(worker) = 3 /\ worker[1].col \in {"op", "status"}
                /\ worker[2].col # "deletion" /\ worker[3].of = x
  <2>1. PICK v \in Outcomes :
          \/ worker = <<ClearOp, WriteTask(x, v)>>
          \/ worker = <<ClearOp, Failed, WriteTask(x, v)>>
          \/ \E s \in {"running", "stopped"} :
               worker = <<Write("status", s), ClearOp, WriteTask(x, v)>>
    BY <1>2 DEF Settling
  <2>2. CASE worker = <<ClearOp, WriteTask(x, v)>>
    BY <2>2
  <2>3. CASE worker = <<ClearOp, Failed, WriteTask(x, v)>>
    BY <2>3
  <2>4. ASSUME NEW s, worker = <<Write("status", s), ClearOp, WriteTask(x, v)>>
        PROVE  /\ Len(worker) = 3 /\ worker[1].col \in {"op", "status"}
               /\ worker[2].col # "deletion" /\ worker[3].of = x
    BY <2>4
  <2> QED BY <2>1, <2>2, <2>3, <2>4
<1>3. ASSUME NEW x, Concluding(x)
      PROVE  \/ Len(worker) = 2 /\ worker[1].col = "deletion"
             \/ Len(worker) = 3 /\ worker[1].col = "op" /\ worker[2].col = "deletion"
  <2>1. PICK v, s : \/ worker = <<Write("deletion", s), WriteTask(x, v)>>
                    \/ worker = <<ClearOp, Write("deletion", s), WriteTask(x, v)>>
    BY <1>3 DEF Concluding
  <2> QED BY <2>1
<1>4. Reconciling => Len(worker) = 1 /\ worker[1].col = "reported"
  BY DEF Reconciling
<1>5. worker = <<>> => Len(worker) = 0
  OBVIOUS
<1> QED BY <1>1, <1>2, <1>3, <1>4, <1>5

ShapesApart == \A t, u :
  /\ Closing(t) => ~Settling(u) /\ ~Concluding(u) /\ ~Reconciling
  /\ Settling(t) => ~Concluding(u) /\ ~Reconciling /\ (Settling(u) => t = u)
  /\ Concluding(t) => ~Reconciling
  /\ worker = <<>> => ~Settling(t) /\ ~Concluding(t) /\ ~Closing(t) /\ ~Reconciling

LEMMA ShapesApartNext == ShapesApart'
<1>1. ShapesApart
  BY ShapesDiffer DEF ShapesApart
<1> QED BY <1>1, PTL

(* The task of an answer is written last.                                   *)
LEMMA SettlingWrites ==
  ASSUME NEW t
  PROVE  /\ Settling(t) => InWrites(t)
         /\ Concluding(t) => InWrites(t) /\ \E i \in DOMAIN worker : worker[i].col = "deletion"
<1> USE DEF Write, WriteTask, ClearOp, Failed
<1>1. ASSUME NEW a, NEW v, worker = <<a, WriteTask(t, v)>>
      PROVE  InWrites(t) /\ 1 \in DOMAIN worker /\ worker[1] = a
  <2>1. 2 \in DOMAIN worker /\ worker[2].col = "task" /\ worker[2].of = t
    BY <1>1
  <2>2. 1 \in DOMAIN worker /\ worker[1] = a
    BY <1>1
  <2> QED BY <2>1, <2>2 DEF InWrites
<1>2. ASSUME NEW a, NEW b, NEW v, worker = <<a, b, WriteTask(t, v)>>
      PROVE  InWrites(t) /\ 2 \in DOMAIN worker /\ worker[2] = b
  <2>1. 3 \in DOMAIN worker /\ worker[3].col = "task" /\ worker[3].of = t
    BY <1>2
  <2>2. 2 \in DOMAIN worker /\ worker[2] = b
    BY <1>2
  <2> QED BY <2>1, <2>2 DEF InWrites
<1>3. Settling(t) => InWrites(t)
  BY <1>1, <1>2 DEF Settling
<1>4. ASSUME Concluding(t)
      PROVE  InWrites(t) /\ \E i \in DOMAIN worker : worker[i].col = "deletion"
  <2>1. PICK v, s : \/ worker = <<Write("deletion", s), WriteTask(t, v)>>
                    \/ worker = <<ClearOp, Write("deletion", s), WriteTask(t, v)>>
    BY <1>4 DEF Concluding
  <2>2. Write("deletion", s).col = "deletion"
    OBVIOUS
  <2> QED BY <1>1, <1>2, <2>1, <2>2
<1> QED BY <1>3, <1>4

(* The answer of the runner to an operation, and to a removal.              *)
LEMMA AnswerHandled ==
  ASSUME NEW m \in Replies, m.kind = KindOf(m.task), worker' = Statements(m)
  PROVE  IF m.kind = "remove" THEN Concluding(m.task)' ELSE Settling(m.task)'
<1>1. m.kind \in Kinds /\ m.task \in Tasks /\ m.ok \in BOOLEAN
  BY DEF Replies
<1>2. CASE ~m.ok
  <2>1. worker' = OnError(m.task)
    BY <1>2 DEF Statements
  <2>2. CASE m.kind = "create"
    <3>1. worker' = <<ClearOp, Failed, WriteTask(m.task, "failed")>>
      BY <2>1, <2>2, Concatenated DEF OnError, ClearOp, Failed
    <3> QED BY <2>2, <3>1 DEF Settling, Outcomes
  <2>3. CASE m.kind = "remove"
    <3>1. worker' = <<ClearOp, Write("deletion", "delete_failed"), WriteTask(m.task, "failed")>>
      BY <2>1, <2>3, Concatenated DEF OnError, ClearOp
    <3> QED BY <2>3, <3>1 DEF Concluding, Outcomes
  <2>4. CASE m.kind \notin {"create", "remove"}
    <3>1. worker' = <<ClearOp, WriteTask(m.task, "failed")>>
      BY <2>1, <2>4, Concatenated DEF OnError, ClearOp
    <3> QED BY <2>4, <3>1 DEF Settling, Outcomes
  <2> QED BY <2>2, <2>3, <2>4
<1>3. CASE m.ok /\ m.kind = "remove"
  BY <1>3 DEF Statements, OnRemoved, Concluding, Outcomes
<1>4. CASE m.ok /\ m.kind # "remove"
  <2>1. PICK s \in {"running", "stopped"} :
          worker' = <<Write("status", s), ClearOp, WriteTask(m.task, "completed")>>
    BY <1>1, <1>4 DEF Statements, Kinds, OnCreated, OnStopped, OnResumed, ClearOp
  <2> QED BY <1>4, <2>1 DEF Settling, Outcomes
<1> QED BY <1>2, <1>3, <1>4

LEMMA Tails ==
  ASSUME NEW a, NEW b, NEW c
  PROVE  /\ Head(<<a>>) = a /\ Tail(<<a>>) = <<>>
         /\ Head(<<a, b>>) = a /\ Tail(<<a, b>>) = <<b>>
         /\ Head(<<a, b, c>>) = a /\ Tail(<<a, b, c>>) = <<b, c>>
OBVIOUS

(* The statement a handler comes to next.                                   *)
LEMMA NextStatement ==
  ASSUME WorkerOK, Statement
  PROVE  \/ /\ Reconciling /\ worker' = <<>> /\ op' = op
            /\ status' \in {"running", "stopped", "failed"}
            /\ status \in InDeletion => raced'
         \/ \E t \in Tasks :
              /\ Closing(t) /\ (worker' = <<>> \/ Closing(t)')
              /\ status' \in {status, "failed"} /\ op' = op
         \/ \E t \in Tasks :
              /\ KindOf(t) # "remove" /\ Settling(t)
              /\ \/ Settling(t)' /\ status' \in {"running", "stopped"} /\ op' = op
                 \/ Closing(t)' /\ status' = status /\ op' = "none"
         \/ \E t \in Tasks :
              /\ KindOf(t) = "remove" /\ Concluding(t) /\ op' = "none"
              /\ \/ Concluding(t)' /\ status' = status
                 \/ Closing(t)' /\ status' \in {"deleted", "delete_failed"}
<1> USE DEF Write, WriteTask, ClearOp, Failed
<1>1. worker # <<>> /\ worker' = Tail(worker)
  BY DEF Statement, Idle
<1>2. /\ status' = IF Head(worker).col \in {"status", "reported", "deletion"}
                   THEN Head(worker).val ELSE status
      /\ op' = IF Head(worker).col \in {"op", "deletion"} THEN "none" ELSE op
  BY DEF Statement
<1>3. CASE Reconciling
  <2>1. PICK s \in {"running", "stopped", "failed"} : worker = <<Write("reported", s)>>
    BY <1>3 DEF Reconciling
  <2>2. Head(worker) = Write("reported", s) /\ worker' = <<>>
    BY <1>1, <2>1, Tails
  <2>3. status' = s /\ op' = op
    BY <1>2, <2>2
  <2>4. status \in InDeletion => raced'
    <3>1. Head(worker).col = "reported"
      BY <2>2
    <3>2. Head(worker).col = "reported" /\ status \in InDeletion => raced'
      BY DEF Statement
    <3> QED BY <3>1, <3>2
  <2> HIDE DEF Write
  <2>5. /\ Reconciling /\ worker' = <<>> /\ op' = op
        /\ status' \in {"running", "stopped", "failed"}
        /\ status \in InDeletion => raced'
    BY <1>3, <2>2, <2>3, <2>4
  <2> QED BY <2>5
<1>4. ASSUME NEW t \in Tasks, Closing(t)
      PROVE  /\ worker' = <<>> \/ Closing(t)'
             /\ status' \in {status, "failed"} /\ op' = op
  <2>1. PICK v \in Outcomes : worker = <<WriteTask(t, v)>> \/ worker = <<Failed, WriteTask(t, v)>>
    BY <1>4 DEF Closing
  <2>2. CASE worker = <<WriteTask(t, v)>>
    <3>1. Head(worker) = WriteTask(t, v) /\ worker' = <<>>
      BY <1>1, <2>2, Tails
    <3>2. status' = status /\ op' = op
      BY <1>2, <3>1
    <3> QED BY <3>1, <3>2
  <2>3. CASE worker = <<Failed, WriteTask(t, v)>>
    <3>1. Head(worker) = Failed /\ worker' = <<WriteTask(t, v)>>
      BY <1>1, <2>3, Tails
    <3>2. status' = "failed" /\ op' = op
      BY <1>2, <3>1
    <3>3. Closing(t)'
      BY <3>1 DEF Closing
    <3> QED BY <3>2, <3>3
  <2> QED BY <2>1, <2>2, <2>3
<1>5. ASSUME NEW t \in Tasks, Settling(t)
      PROVE  \/ Settling(t)' /\ status' \in {"running", "stopped"} /\ op' = op
             \/ Closing(t)' /\ status' = status /\ op' = "none"
  <2>1. PICK v \in Outcomes :
          \/ worker = <<ClearOp, WriteTask(t, v)>>
          \/ worker = <<ClearOp, Failed, WriteTask(t, v)>>
          \/ \E s \in {"running", "stopped"} :
               worker = <<Write("status", s), ClearOp, WriteTask(t, v)>>
    BY <1>5 DEF Settling
  <2>2. CASE worker = <<ClearOp, WriteTask(t, v)>> \/ worker = <<ClearOp, Failed, WriteTask(t, v)>>
    <3>1. worker = <<ClearOp, WriteTask(t, v)>> =>
            Head(worker) = ClearOp /\ worker' = <<WriteTask(t, v)>>
      BY <1>1, Tails
    <3>2. worker = <<ClearOp, Failed, WriteTask(t, v)>> =>
            Head(worker) = ClearOp /\ worker' = <<Failed, WriteTask(t, v)>>
      BY <1>1, Tails
    <3>3. status' = status /\ op' = "none"
      BY <1>2, <2>2, <3>1, <3>2
    <3>4. Closing(t)'
      BY <2>2, <3>1, <3>2 DEF Closing
    <3> QED BY <3>3, <3>4
  <2>3. ASSUME NEW s \in {"running", "stopped"},
               worker = <<Write("status", s), ClearOp, WriteTask(t, v)>>
        PROVE  Settling(t)' /\ status' \in {"running", "stopped"} /\ op' = op
    <3>1. Head(worker) = Write("status", s) /\ worker' = <<ClearOp, WriteTask(t, v)>>
      BY <1>1, <2>3, Tails
    <3>2. status' = s /\ op' = op
      BY <1>2, <3>1
    <3>3. Settling(t)'
      BY <3>1 DEF Settling
    <3> QED BY <3>2, <3>3
  <2> HIDE DEF Write, WriteTask, ClearOp, Failed
  <2> QED BY <2>1, <2>2, <2>3
<1>6. ASSUME NEW t \in Tasks, Concluding(t)
      PROVE  /\ op' = "none"
             /\ \/ Concluding(t)' /\ status' = status
                \/ Closing(t)' /\ status' \in {"deleted", "delete_failed"}
  <2>1. PICK v \in Outcomes, s \in {"deleted", "delete_failed"} :
          \/ worker = <<Write("deletion", s), WriteTask(t, v)>>
          \/ worker = <<ClearOp, Write("deletion", s), WriteTask(t, v)>>
    BY <1>6 DEF Concluding
  <2>2. CASE worker = <<Write("deletion", s), WriteTask(t, v)>>
    <3>1. Head(worker) = Write("deletion", s) /\ worker' = <<WriteTask(t, v)>>
      BY <1>1, <2>2, Tails
    <3>2. status' = s /\ op' = "none"
      BY <1>2, <3>1
    <3>3. Closing(t)'
      BY <3>1 DEF Closing
    <3> QED BY <3>2, <3>3
  <2>3. CASE worker = <<ClearOp, Write("deletion", s), WriteTask(t, v)>>
    <3>1. Head(worker) = ClearOp /\ worker' = <<Write("deletion", s), WriteTask(t, v)>>
      BY <1>1, <2>3, Tails
    <3>2. status' = status /\ op' = "none"
      BY <1>2, <3>1
    <3>3. Concluding(t)'
      BY <3>1 DEF Concluding
    <3> QED BY <3>2, <3>3
  <2> QED BY <2>1, <2>2, <2>3
<1>7. CASE worker = <<>>
  BY <1>1, <1>7
<1> HIDE DEF Write, WriteTask, ClearOp, Failed
<1> QED BY <1>3, <1>4, <1>5, <1>6, <1>7 DEF WorkerOK
-----------------------------------------------------------------------------
(* What the runner and the handlers are told keeps its shape.               *)
LEMMA InitShape == Init => ShapeInv
<1> SUFFICES ASSUME Init PROVE ShapeInv
  OBVIOUS
<1>1. /\ toBackend = <<>> /\ jobs = {} /\ worker = <<>>
      /\ BeingCreated \/ InUse
  BY DEF Init, InitBackend
<1>2. \A t : ~Settling(t)
  BY <1>1, ShapesDiffer
<1>3. OnlyRemovals
  BY <1>1 DEF BeingCreated, InUse, OnlyRemovals
<1>4. WorkerOK /\ KindsAgree
  BY <1>1 DEF WorkerOK, KindsAgree
<1>5. Once
  BY <1>1, <1>2 DEF Once, InJobs, InReports, ReportOf
<1> QED BY <1>3, <1>4, <1>5 DEF ShapeInv

LEMMA SameShape ==
  ASSUME UNCHANGED worker, NEW t
  PROVE  /\ Settling(t)' <=> Settling(t)
         /\ Concluding(t)' <=> Concluding(t)
         /\ Closing(t)' <=> Closing(t)
         /\ Reconciling' <=> Reconciling
<1>1. Settling(t)' <=> Settling(t)
  BY DEF Settling
<1>2. Concluding(t)' <=> Concluding(t)
  BY DEF Concluding
<1>3. Closing(t)' <=> Closing(t)
  BY DEF Closing
<1>4. Reconciling' <=> Reconciling
  BY DEF Reconciling
<1> QED BY <1>1, <1>2, <1>3, <1>4

LEMMA WorkerSame ==
  ASSUME WorkerOK, UNCHANGED <<kind, worker>>
  PROVE  WorkerOK'
<1>1. \A t : KindOf(t)' = KindOf(t)
  BY DEF KindOf
<1> QED BY <1>1, SameShape DEF WorkerOK

LEMMA ShapeQuiet ==
  ASSUME ShapeInv, UNCHANGED <<kind, jobs, toBackend, worker>>, OnlyRemovals'
  PROVE  ShapeInv'
<1>1. WorkerOK'
  BY WorkerSame DEF ShapeInv
<1>2. KindsAgree'
  BY DEF ShapeInv, KindsAgree, KindOf
<1>3. Once'
  BY SameShape DEF ShapeInv, Once, InJobs, InReports, ReportOf
<1> QED BY <1>1, <1>2, <1>3 DEF ShapeInv

LEMMA ShapeOfRequests ==
  ASSUME Types, OwnInv, ShapeInv, NEW r \in Callers, RequestRuns(r) \/ EmitFails(r)
  PROVE  ShapeInv'
<1> USE DEF rowVars, connVars, hostVars, handlerVars
<1>1. UNCHANGED <<kind, toBackend, worker>>
  BY DEF RequestRuns, CreateTask, MarkDeleting, MarkPendingDeletion, SetOperation, Emit,
         MarkInProgress, RollbackOperation, FailTask, RestoreStatus, EmitFails
<1>2. PICK from \in RequestPhases, to \in RequestPhases :
        /\ RequestStep(r, from, to)
        /\ to \in {"marking", "restore"} => kind[r] = "remove"
  BY DEF RequestRuns, CreateTask, MarkDeleting, MarkPendingDeletion, SetOperation, Emit,
         MarkInProgress, RollbackOperation, FailTask, RestoreStatus, EmitFails, RequestPhases
<1>3. OnlyRemovals'
  <2>1. req \in [Callers -> RequestPhases] /\ req' = [req EXCEPT ![r] = to]
    BY <1>2 DEF RequestStep, Types, TypeOK
  <2> QED BY <1>1, <1>2, <2>1 DEF ShapeInv, OnlyRemovals
<1>4. CASE UNCHANGED jobs
  BY <1>1, <1>3, <1>4, ShapeQuiet
<1>5. CASE Emit(r)
  <2> DEFINE m == [kind |-> kind[r], task |-> r, from |-> r]
  <2>1. jobs' = jobs \/ jobs' = jobs \cup {[cmd |-> m, at |-> "start"]}
    BY <1>5 DEF Emit, Send
  <2>2. m.kind = KindOf(m.task) /\ m.task = r
    BY DEF KindOf
  <2>3. kind[r] # "remove" => ~Abroad(r)
    BY <1>5 DEF Emit, RequestStep, OwnInv, HeardWhenSent
  <2> HIDE DEF m
  <2>4. \A j \in jobs' : j \in jobs \/ j = [cmd |-> m, at |-> "start"]
    BY <2>1
  <2>5. KindsAgree'
    BY <1>1, <2>2, <2>4 DEF ShapeInv, KindsAgree, KindOf
  <2>6. Once'
    <3> SUFFICES ASSUME NEW s \in Callers, kind[s] # "remove"
                 PROVE  /\ \A j, k \in jobs' : j.cmd.task = s /\ k.cmd.task = s => j = k
                        /\ \A i, k \in DOMAIN toBackend : ReportOf(i, s) /\ ReportOf(k, s) => i = k
                        /\ InJobs(s)' => ~InReports(s) /\ ~Settling(s)
                        /\ InReports(s) => ~Settling(s)
      BY <1>1, SameShape DEF Once, InReports, ReportOf
    <3>1. CASE s = r
      <4>1. ~InJobs(s) /\ ~InReports(s) /\ ~Settling(s)
        BY <2>3, <3>1, SettlingWrites DEF Abroad
      <4> QED BY <2>4, <4>1 DEF InJobs, InReports, ReportOf, ShapeInv, Once
    <3>2. CASE s # r
      <4>1. \A j \in jobs' : j.cmd.task = s => j \in jobs
        BY <2>2, <2>4, <3>2
      <4> QED BY <4>1 DEF InJobs, ShapeInv, Once
    <3> QED BY <3>1, <3>2
  <2>7. WorkerOK'
    BY <1>1, WorkerSame DEF ShapeInv
  <2> QED BY <1>3, <2>5, <2>6, <2>7 DEF ShapeInv
<1>6. Emit(r) \/ UNCHANGED jobs
  BY DEF RequestRuns, CreateTask, MarkDeleting, MarkPendingDeletion, SetOperation,
         MarkInProgress, RollbackOperation, FailTask, RestoreStatus, EmitFails
<1> QED BY <1>4, <1>5, <1>6

LEMMA ShapeOfLoad ==
  ASSUME Types, OwnInv, ShapeInv, NEW r \in Requests, NEW k \in Kinds \ {"create"}, Load(r, k)
  PROVE  ShapeInv'
<1>1. /\ r \in Callers /\ req[r] = "ready"
      /\ req' = [req EXCEPT ![r] = "accepted"] /\ kind' = [kind EXCEPT ![r] = k]
      /\ UNCHANGED <<jobs, toBackend, worker>>
      /\ req \in [Callers -> RequestPhases] /\ kind \in [Callers -> Kinds]
  BY DEF Load, Callers, Types, TypeOK, rowVars, connVars, hostVars, handlerVars
<1>2. ~InJobs(r) /\ ~InReports(r) /\ ~InWrites(r)
  BY <1>1 DEF OwnInv, UnmadeIsUnknown, Abroad
<1>3. \A t : t # r => KindOf(t)' = KindOf(t)
  BY <1>1 DEF KindOf
<1>4. OnlyRemovals'
  BY <1>1 DEF ShapeInv, OnlyRemovals
<1>5. KindsAgree'
  BY <1>1, <1>2, <1>3 DEF ShapeInv, KindsAgree, InJobs, InReports
<1>6. WorkerOK'
  <2>1. ASSUME NEW t, Settling(t) \/ Concluding(t) PROVE t # r
    BY <1>2, <2>1, SettlingWrites
  <2> QED BY <1>1, <1>3, <2>1, SameShape DEF ShapeInv, WorkerOK
<1>7. Once'
  <2>1. \A s \in Callers : InJobs(s)' = InJobs(s) /\ InReports(s)' = InReports(s)
    BY <1>1 DEF InJobs, InReports
  <2>2. ~Settling(r)
    BY <1>2, SettlingWrites
  <2> SUFFICES ASSUME NEW s \in Callers, kind'[s] # "remove"
               PROVE  /\ \A j, l \in jobs : j.cmd.task = s /\ l.cmd.task = s => j = l
                      /\ \A i, l \in DOMAIN toBackend : ReportOf(i, s) /\ ReportOf(l, s) => i = l
                      /\ InJobs(s) => ~InReports(s) /\ ~Settling(s)
                      /\ InReports(s) => ~Settling(s)
    BY <1>1, <2>1, SameShape DEF Once, ReportOf
  <2>3. CASE s = r
    BY <1>2, <2>2, <2>3 DEF InJobs, InReports, ReportOf
  <2>4. CASE s # r
    BY <1>1, <2>4 DEF ShapeInv, Once
  <2> QED BY <2>3, <2>4
<1> QED BY <1>4, <1>5, <1>6, <1>7 DEF ShapeInv

LEMMA ShapeOfConnections ==
  ASSUME Types, OwnInv, ShapeInv, NEW c \in Conns, ConnectionHandled(c) \/ Connect(c)
  PROVE  ShapeInv'
<1> USE DEF rowVars, reqVars, hostVars, handlerVars
<1>1. UNCHANGED <<req, kind, toBackend, worker>>
  BY DEF ConnectionHandled, Connect, Unregister, Register, NothingPending, ListPending, ReuseTask,
         NewTask, DispatchMarks, DispatchEmits, DispatchEnds
<1>2. OnlyRemovals'
  BY <1>1 DEF ShapeInv, OnlyRemovals
<1>3. CASE UNCHANGED jobs
  BY <1>1, <1>2, <1>3, ShapeQuiet
<1>4. CASE DispatchEmits(c)
  <2> DEFINE m == [kind |-> "remove", task |-> picked[c], from |-> c]
  <2>1. jobs' = jobs \/ jobs' = jobs \cup {[cmd |-> m, at |-> "start"]}
    BY <1>4 DEF DispatchEmits, Send
  <2>2. m.kind = KindOf(m.task)
    <3>1. picked[c] \in Tasks
      BY <1>4 DEF DispatchEmits, RegisterStep, Types, HasPicked
    <3>2. picked[c] \in Callers => kind[picked[c]] = "remove"
      BY DEF OwnInv, PicksRemovals
    <3> QED BY <3>1, <3>2 DEF KindOf
  <2>3. \A s \in Callers : kind[s] # "remove" => m.task # s
    BY DEF OwnInv, PicksRemovals
  <2> HIDE DEF m
  <2>4. \A j \in jobs' : j \in jobs \/ j = [cmd |-> m, at |-> "start"]
    BY <2>1
  <2>5. KindsAgree'
    BY <1>1, <2>2, <2>4 DEF ShapeInv, KindsAgree, KindOf
  <2>6. \A s \in Callers : kind[s] # "remove" => \A j \in jobs' : j.cmd.task = s => j \in jobs
    BY <2>3, <2>4
  <2>7. Once'
    BY <1>1, <2>6, SameShape DEF ShapeInv, Once, InJobs, InReports, ReportOf
  <2>8. WorkerOK'
    BY <1>1, WorkerSame DEF ShapeInv
  <2> QED BY <1>2, <2>5, <2>7, <2>8 DEF ShapeInv
<1>5. DispatchEmits(c) \/ UNCHANGED jobs
  BY DEF ConnectionHandled, Connect, Unregister, Register, NothingPending, ListPending, ReuseTask,
         NewTask, DispatchMarks, DispatchEnds
<1> QED BY <1>3, <1>4, <1>5

(* A job that makes progress works on the same command.                     *)
LEMMA WorkKeepsCommands ==
  ASSUME Types, NEW j \in jobs, Works(j)
  PROVE  /\ UNCHANGED <<rowVars, task, reqVars, connVars, toBackend, worker, beat, raced>>
         /\ \E i : jobs' = (jobs \ {j}) \cup {i} /\ i.cmd = j.cmd
<1>1. PICK to \in Places : jobs' = (jobs \ {j}) \cup {[j EXCEPT !.at = to]}
  BY DEF Works, CreateBegins, CreateDefines, CreateBoots, CreateEnds, CreateFails, Stops,
         Resumes, Uncaches, Removes, RemoveFails, JobStep, Places
<1>2. [j EXCEPT !.at = to].cmd = j.cmd
  BY DEF Types, ChannelsOK
<1>3. UNCHANGED <<rowVars, task, reqVars, connVars, toBackend, worker, beat, raced>>
  BY DEF Works, CreateBegins, CreateDefines, CreateBoots, CreateEnds, CreateFails, Stops,
         Resumes, Uncaches, Removes, RemoveFails, JobStep, handlerVars
<1> QED BY <1>1, <1>2, <1>3

(* What the runner sends is appended, or lost with the connection.          *)
LEMMA SentOrLost ==
  ASSUME Types, NEW m \in Messages, Sends(m)
  PROVE  \A i \in DOMAIN toBackend' :
           \/ i \in DOMAIN toBackend /\ toBackend'[i] = toBackend[i]
           \/ i = Len(toBackend) + 1 /\ toBackend'[i] = m
<1>1. CASE toBackend' = toBackend
  BY <1>1
<1>2. CASE toBackend' = Append(toBackend, m)
  BY <1>2, Appended DEF Types, ChannelsOK, Messages
<1> QED BY <1>1, <1>2 DEF Sends

LEMMA ReplySends ==
  ASSUME Types, NEW j \in jobs, Reply(j)
  PROVE  \E m \in Messages : Sends(m) /\ m.kind = j.cmd.kind /\ m.task = j.cmd.task
<1>1. j.cmd \in Orders
  BY DEF Types, ChannelsOK
<1>2. [kind |-> j.cmd.kind, task |-> j.cmd.task, ok |-> j.at = "ok"] \in Messages
  BY <1>1 DEF Orders, Messages, Replies, Confirmations
<1> QED BY <1>2 DEF Reply

LEMMA BeatSends ==
  ASSUME Types, SendBeat
  PROVE  \E m \in Messages : Sends(m) /\ m.kind = "beat"
<1>1. [kind |-> "beat", inst |-> IF cache' \in {"noid", "creating"} THEN "creating" ELSE listed]
        \in Messages
  BY DEF SendBeat, Messages, Beats, Reports, Types, TypeOK
<1> QED BY <1>1 DEF SendBeat

LEMMA ShapeOfRunner ==
  ASSUME Types, OwnInv, ShapeInv, Runner \/ Heartbeat \/ InstanceDies \/ Disconnect
  PROVE  ShapeInv'
<1> USE DEF rowVars, reqVars, connVars, hostVars, handlerVars
<1>1. UNCHANGED <<req, kind, worker>>
  BY DEF Runner, Works, CreateBegins, CreateDefines, CreateBoots, CreateEnds, CreateFails, Stops,
         Resumes, Uncaches, Removes, RemoveFails, JobStep, Reply, Heartbeat, ListInstances, SendBeat,
         InstanceDies, Disconnect
<1>2. OnlyRemovals' /\ WorkerOK' /\ \A t : Settling(t)' <=> Settling(t)
  BY <1>1, WorkerSame, SameShape DEF ShapeInv, OnlyRemovals
<1>3. \A t : KindOf(t)' = KindOf(t)
  BY <1>1 DEF KindOf
<1>4. SUFFICES KindsAgree' /\ Once'
  BY <1>2 DEF ShapeInv
<1>5. ASSUME NEW j \in jobs, Works(j) PROVE KindsAgree' /\ Once'
  <2>1. UNCHANGED toBackend
    BY <1>5, WorkKeepsCommands
  <2>2. PICK i : jobs' = (jobs \ {j}) \cup {i} /\ i.cmd = j.cmd
    BY <1>5, WorkKeepsCommands
  <2>3. KindsAgree'
    BY <1>3, <2>1, <2>2 DEF ShapeInv, KindsAgree
  <2>4. Once'
    BY <1>1, <1>2, <2>1, <2>2 DEF ShapeInv, Once, InJobs, InReports, ReportOf
  <2> QED BY <2>3, <2>4
<1>6. ASSUME NEW j \in jobs, Reply(j) PROVE KindsAgree' /\ Once'
  <2>1. jobs' = jobs \ {j}
    BY <1>6 DEF Reply
  <2>2. PICK m \in Messages : Sends(m) /\ m.kind = j.cmd.kind /\ m.task = j.cmd.task
    BY <1>6, ReplySends
  <2>3. \A i \in DOMAIN toBackend' :
          \/ i \in DOMAIN toBackend /\ toBackend'[i] = toBackend[i]
          \/ i = Len(toBackend) + 1 /\ toBackend'[i] = m
    BY <2>2, SentOrLost
  <2>4. KindsAgree'
    BY <1>3, <2>1, <2>2, <2>3 DEF ShapeInv, KindsAgree
  <2>5. Once'
    <3> SUFFICES ASSUME NEW s \in Callers, kind[s] # "remove"
                 PROVE  /\ \A k, l \in jobs' : k.cmd.task = s /\ l.cmd.task = s => k = l
                        /\ \A i, k \in DOMAIN toBackend' :
                             ReportOf(i, s)' /\ ReportOf(k, s)' => i = k
                        /\ InJobs(s)' => ~InReports(s)' /\ ~Settling(s)
                        /\ InReports(s)' => ~Settling(s)
      BY <1>1, <1>2 DEF Once, ReportOf
    <3>1. CASE j.cmd.task = s
      <4>1. ~InReports(s) /\ ~Settling(s)
        BY <3>1 DEF ShapeInv, Once, InJobs
      <4>2. ~InJobs(s)'
        BY <2>1, <3>1 DEF ShapeInv, Once, InJobs
      <4>3. \A i \in DOMAIN toBackend' : ReportOf(i, s)' => i = Len(toBackend) + 1
        BY <2>3, <4>1 DEF InReports, ReportOf
      <4> QED BY <2>1, <4>1, <4>2, <4>3 DEF InJobs
    <3>2. CASE j.cmd.task # s
      <4>1. \A i \in DOMAIN toBackend' : ReportOf(i, s)' => i \in DOMAIN toBackend /\ ReportOf(i, s)
        BY <2>2, <2>3, <3>2 DEF ReportOf
      <4> QED BY <2>1, <4>1 DEF ShapeInv, Once, InJobs, InReports, ReportOf
    <3> QED BY <3>1, <3>2
  <2> QED BY <2>4, <2>5
<1>7. ASSUME jobs' \subseteq jobs,
             \A i \in DOMAIN toBackend' : toBackend'[i].kind \in Kinds =>
               i \in DOMAIN toBackend /\ toBackend'[i] = toBackend[i]
      PROVE  KindsAgree' /\ Once'
  <2>1. KindsAgree'
    BY <1>3, <1>7 DEF ShapeInv, KindsAgree
  <2>2. Once'
    BY <1>1, <1>2, <1>7 DEF ShapeInv, Once, InJobs, InReports, ReportOf
  <2> QED BY <2>1, <2>2
<1>8. CASE ListInstances \/ InstanceDies
  BY <1>7, <1>8 DEF ListInstances, InstanceDies
<1>9. CASE SendBeat
  <2>1. PICK m \in Messages : Sends(m) /\ m.kind = "beat"
    BY <1>9, BeatSends
  <2>2. jobs' = jobs
    BY <1>9 DEF SendBeat
  <2> QED BY <1>7, <2>1, <2>2, SentOrLost DEF Kinds
<1>10. CASE Disconnect
  <2>1. PICK n \in 0..Len(toBackend) : toBackend' = SubSeq(toBackend, 1, n)
    BY <1>10 DEF Disconnect
  <2>2. \A i \in DOMAIN toBackend' : i \in DOMAIN toBackend /\ toBackend'[i] = toBackend[i]
    BY <2>1, Cutoff DEF Types, ChannelsOK
  <2>3. jobs' \subseteq jobs
    BY <1>10 DEF Disconnect
  <2> QED BY <1>7, <2>2, <2>3
<1> QED BY <1>5, <1>6, <1>8, <1>9, <1>10 DEF Runner, Heartbeat

(* The message a handler takes leaves the others, in their order.           *)
LEMMA OthersStay ==
  ASSUME Types, toBackend # <<>>, toBackend' = Tail(toBackend)
  PROVE  /\ Head(toBackend) \in Messages /\ Head(toBackend) = toBackend[1] /\ 1 \in DOMAIN toBackend
         /\ \A i \in DOMAIN toBackend' : i \in Nat \ {0} /\ i + 1 \in DOMAIN toBackend
                                         /\ toBackend'[i] = toBackend[i + 1]
BY Taken DEF Types, ChannelsOK, Messages

LEMMA TailKeepsShape ==
  ASSUME Types, ShapeInv, toBackend # <<>>, toBackend' = Tail(toBackend), UNCHANGED <<kind, jobs>>
  PROVE  /\ KindsAgree'
         /\ \A s \in Callers : InReports(s)' => InReports(s)
         /\ \A s \in Callers : kind[s] # "remove" =>
              \A i, k \in DOMAIN toBackend' : ReportOf(i, s)' /\ ReportOf(k, s)' => i = k
<1>1. \A i \in DOMAIN toBackend' : i \in Nat \ {0} /\ i + 1 \in DOMAIN toBackend
                                   /\ toBackend'[i] = toBackend[i + 1]
  BY OthersStay
<1>2. KindsAgree'
  BY <1>1 DEF ShapeInv, KindsAgree, KindOf
<1>3. \A s : \A i \in DOMAIN toBackend' : ReportOf(i, s)' => ReportOf(i + 1, s)
  BY <1>1 DEF ReportOf
<1>4. \A s \in Callers : InReports(s)' => InReports(s)
  BY <1>1 DEF InReports
<1>5. ASSUME NEW s \in Callers, kind[s] # "remove",
             NEW i \in DOMAIN toBackend', NEW k \in DOMAIN toBackend', ReportOf(i, s)', ReportOf(k, s)'
      PROVE  i = k
  <2>1. i + 1 = k + 1
    BY <1>1, <1>3, <1>5 DEF ShapeInv, Once
  <2> QED BY <1>1, <2>1
<1> QED BY <1>2, <1>4, <1>5

(* A heartbeat is handled in one statement, or none.                        *)
LEMMA HandleBeatReconciles ==
  ASSUME Types, HandleBeat
  PROVE  worker' = <<>> \/ Reconciling'
<1>1. CASE status \in InDeletion \cup {"failed", "delete_failed"}
  BY <1>1 DEF HandleBeat
<1>2. CASE status \notin InDeletion \cup {"failed", "delete_failed"}
  <2>1. worker' = [i \in DOMAIN Reconciled(beat) |-> Write("reported", Reconciled(beat)[i])]
    BY <1>2 DEF HandleBeat
  <2>2. Reconciled(beat) = <<>>
        \/ \E s \in {"running", "stopped", "failed"} : Reconciled(beat) = <<s>>
    <3>1. beat \in {"absent", "creating", "running", "exited"}
      BY DEF HandleBeat, Types, TypeOK, Reports, Instances
    <3>2. beat \in {"running", "exited"} => Mapped(beat) \in {"running", "stopped"}
      BY DEF Mapped
    <3> QED BY <3>1, <3>2 DEF Reconciled
  <2>3. Reconciled(beat) = <<>> => worker' = <<>>
    BY <2>1
  <2>4. ASSUME NEW s, Reconciled(beat) = <<s>> PROVE worker' = <<Write("reported", s)>>
    <3>1. DOMAIN Reconciled(beat) = {1} /\ Reconciled(beat)[1] = s
      BY <2>4
    <3> QED BY <2>1, <3>1, IsASeq
  <2> QED BY <2>2, <2>3, <2>4 DEF Reconciling
<1> QED BY <1>1, <1>2

LEMMA ShapeOfSocket ==
  ASSUME Types, OwnInv, ShapeInv, Socket \/ HandleBeat
  PROVE  ShapeInv'
<1> USE DEF rowVars, reqVars, connVars, hostVars, handlerVars
<1>1. UNCHANGED <<req, kind>>
  BY DEF Socket, HandleReply, HandleCleanupDone, Statement, ReceiveBeat, HandleBeat
<1>2. OnlyRemovals' /\ \A t : KindOf(t)' = KindOf(t)
  BY <1>1 DEF ShapeInv, OnlyRemovals, KindOf
<1>3. CASE HandleReply
  <2>0. Head(toBackend) \in Replies
    BY <1>3, OthersStay DEF HandleReply, Messages, Confirmations, Beats, Kinds
  <2>1. PICK m \in Replies : m = Head(toBackend)
    BY <2>0
  <2>2. /\ toBackend # <<>> /\ toBackend' = Tail(toBackend) /\ UNCHANGED jobs
        /\ worker' = Statements(m) /\ m.kind \in Kinds
        /\ m = toBackend[1] /\ 1 \in DOMAIN toBackend
    BY <1>3, <2>1, OthersStay DEF HandleReply
  <2>3. m.kind = KindOf(m.task) /\ m.task \in Tasks /\ ReportOf(1, m.task)
    BY <2>2 DEF ShapeInv, KindsAgree, Replies, ReportOf
  <2>4. \A i \in DOMAIN toBackend' : i + 1 \in DOMAIN toBackend /\ i + 1 # 1
                                     /\ toBackend'[i] = toBackend[i + 1]
    BY <2>2, OthersStay
  <2>5. IF m.kind = "remove" THEN Concluding(m.task)' ELSE Settling(m.task)'
    BY <2>2, <2>3, AnswerHandled
  <2>6. WorkerOK'
    BY <1>2, <2>3, <2>5 DEF WorkerOK
  <2>7. \A s : Settling(s)' => s = m.task /\ m.kind # "remove"
    <3>1. \A t, u : /\ Concluding(t)' => ~Settling(u)'
                    /\ Settling(t)' /\ Settling(u)' => t = u
      BY ShapesApartNext DEF ShapesApart
    <3> QED BY <2>5, <3>1
  <2>8. Once'
    <3> SUFFICES ASSUME NEW s \in Callers, kind[s] # "remove"
                 PROVE  /\ \A j, k \in jobs : j.cmd.task = s /\ k.cmd.task = s => j = k
                        /\ \A i, k \in DOMAIN toBackend' :
                             ReportOf(i, s)' /\ ReportOf(k, s)' => i = k
                        /\ InJobs(s)' => ~InReports(s)' /\ ~Settling(s)'
                        /\ InReports(s)' => ~Settling(s)'
      BY <1>1, <2>2 DEF Once, ReportOf
    <3>1. /\ InJobs(s)' = InJobs(s) /\ (InReports(s)' => InReports(s))
          /\ \A i, k \in DOMAIN toBackend' : ReportOf(i, s)' /\ ReportOf(k, s)' => i = k
      BY <1>1, <2>2, TailKeepsShape DEF InJobs
    <3>2. s = m.task => ~InReports(s)' /\ ~InJobs(s)
      <4> HAVE s = m.task
      <4>1. InReports(s)
        BY <2>2, <2>3 DEF InReports, ReportOf
      <4>2. ~InReports(s)'
        BY <2>2, <2>3, <2>4 DEF ShapeInv, Once, InReports, ReportOf
      <4> QED BY <4>1, <4>2 DEF ShapeInv, Once
    <3> QED BY <2>7, <3>1, <3>2 DEF ShapeInv, Once
  <2>9. KindsAgree'
    BY <1>1, <2>2, TailKeepsShape
  <2> QED BY <1>2, <2>6, <2>8, <2>9 DEF ShapeInv
<1>4. CASE HandleCleanupDone \/ ReceiveBeat
  <2>1. toBackend # <<>> /\ toBackend' = Tail(toBackend) /\ UNCHANGED <<jobs, worker>>
    BY <1>4 DEF HandleCleanupDone, ReceiveBeat
  <2>2. KindsAgree' /\ WorkerOK'
    BY <1>1, <2>1, TailKeepsShape, WorkerSame DEF ShapeInv
  <2>3. Once'
    BY <1>1, <2>1, TailKeepsShape, SameShape DEF ShapeInv, Once, InJobs, ReportOf
  <2> QED BY <1>2, <2>2, <2>3 DEF ShapeInv
<1>5. CASE Statement
  <2>1. UNCHANGED <<jobs, toBackend>>
    BY <1>5 DEF Statement
  <2>2. WorkerOK' /\ \A s : Settling(s)' => Settling(s)
    <3>1. \A t, u : /\ Closing(t)' => ~Settling(u)'
                    /\ worker' = <<>> => ~Settling(u)'
                    /\ Concluding(t)' => ~Settling(u)'
                    /\ Settling(t)' /\ Settling(u)' => t = u
      BY ShapesApartNext DEF ShapesApart
    <3> QED BY <1>2, <1>5, <3>1, NextStatement DEF ShapeInv, WorkerOK
  <2>3. KindsAgree'
    BY <1>2, <2>1 DEF ShapeInv, KindsAgree
  <2>4. Once'
    BY <1>1, <2>1, <2>2 DEF ShapeInv, Once, InJobs, InReports, ReportOf
  <2> QED BY <1>2, <2>2, <2>3, <2>4 DEF ShapeInv
<1>6. CASE HandleBeat
  <2>1. UNCHANGED toBackend
    BY <1>6 DEF HandleBeat
  <2>2. \A j \in jobs' : j \in jobs \/ (j.cmd.kind \notin Kinds /\ j.cmd.task = NoTask)
    BY <1>6 DEF HandleBeat, Send, Kinds
  <2>3. worker' = <<>> \/ Reconciling'
    BY <1>6, HandleBeatReconciles
  <2>4. \A s : ~Settling(s)'
    BY <2>3, ShapesApartNext DEF ShapesApart
  <2>5. KindsAgree'
    BY <1>2, <2>1, <2>2 DEF ShapeInv, KindsAgree
  <2>6. \A s \in Callers : \A j \in jobs' : j.cmd.task = s => j \in jobs
    BY <2>2, TaskAssumption DEF Callers
  <2>7. Once'
    BY <1>1, <2>1, <2>4, <2>6 DEF ShapeInv, Once, InJobs, InReports, ReportOf
  <2> QED BY <1>2, <2>3, <2>5, <2>7 DEF ShapeInv, WorkerOK
<1> QED BY <1>3, <1>4, <1>5, <1>6 DEF Socket

LEMMA ShapeStep == Types /\ OwnInv /\ ShapeInv /\ [Next]_vars => ShapeInv'
<1> SUFFICES ASSUME Types, OwnInv, ShapeInv, [Next]_vars PROVE ShapeInv'
  OBVIOUS
<1>1. CASE UNCHANGED vars
  <2>1. UNCHANGED <<req, kind, jobs, toBackend, worker>>
    BY <1>1 DEF vars, reqVars, hostVars, handlerVars
  <2>2. OnlyRemovals'
    BY <2>1 DEF ShapeInv, OnlyRemovals
  <2> QED BY <2>1, <2>2, ShapeQuiet
<1>2. CASE Backend
  BY <1>2, ShapeOfRequests, ShapeOfConnections, ShapeOfSocket DEF Backend
<1>3. ASSUME NEW r \in Requests, NEW k \in Kinds \ {"create"}, Load(r, k) PROVE ShapeInv'
  BY <1>3, ShapeOfLoad
<1>4. ASSUME NEW r \in Callers, EmitFails(r) PROVE ShapeInv'
  BY <1>4, ShapeOfRequests
<1>5. CASE Runner \/ Heartbeat \/ InstanceDies \/ Disconnect
  BY <1>5, ShapeOfRunner
<1>6. ASSUME NEW c \in Conns, Connect(c) PROVE ShapeInv'
  BY <1>6, ShapeOfConnections
<1> QED BY <1>1, <1>2, <1>3, <1>4, <1>5, <1>6 DEF Next

-----------------------------------------------------------------------------
(* What is in hand: requests that have not been sent or rolled back, what   *)
(* the runner works on, its answers, and handlers that have not come to     *)
(* clearing active_operation.                                               *)
Asking(r) ==
  \/ req[r] \in {"accepted", "marking", "setop", "emitting", "rollback"}
  \/ kind[r] = "remove" /\ req[r] \in {"failtask", "restore"}

Operating(r) == kind[r] # "remove" /\ (Asking(r) \/ InJobs(r) \/ InReports(r) \/ Settling(r))

Delivered ==
  \/ \E c \in Conns : reg[c] \in {"pending_deletion", "deleting", "marking", "emitting"}
  \/ \E j \in jobs : j.cmd.kind = "remove"
  \/ \E i \in DOMAIN toBackend : toBackend[i].kind = "remove"
  \/ \E t \in Tasks : Concluding(t)
Removing == Delivered \/ \E r \in Callers : kind[r] = "remove" /\ Asking(r)

(* A removal that has marked the workspace, or was asked for when nothing   *)
(* but a removal was possible.                                              *)
Defunct == {"failed", "delete_failed"}
Doomed == InDeletion \cup Defunct
Committed ==
  \/ Delivered
  \/ \E r \in Callers :
       /\ kind[r] = "remove" /\ Asking(r)
       /\ req[r] \in {"accepted", "marking"} => seen[r].status \in Defunct

(* There is one operation in hand, or there are removals; an operation is   *)
(* shown, a removal that is committed rules out the others, and no heartbeat*)
(* and no rollback is about to bring back a status that does not.           *)
Single == \A r, s \in Callers : Operating(r) /\ Operating(s) => r = s
Shown == \A r \in Callers : Operating(r) =>
  /\ ~Removing /\ status \notin InDeletion
  /\ Unmarked(r) \/ op = OperationOf(kind[r])
Shut == Committed => status \in Doomed
Current == Reconciling =>
  /\ status \notin Defunct
  /\ \A r \in Callers : kind[r] = "remove" /\ Asking(r) => seen[r].status \notin Defunct

Solo == Single /\ Shown /\ Shut /\ Current
SoloInv == ~raced => Solo

LEMMA InitSolo == Init => SoloInv
<1> SUFFICES ASSUME Init PROVE Solo
  BY DEF SoloInv
<1>1. /\ toBackend = <<>> /\ jobs = {} /\ worker = <<>>
      /\ \A c \in Conns : reg[c] \in {"done", "unused"}
      /\ \A r \in Callers : kind[r] = IF r = Creation THEN "create" ELSE "stop"
      /\ BeingCreated \/ InUse
  BY DEF Init, InitBackend
<1>2. \A t : ~Settling(t) /\ ~Concluding(t) /\ ~Reconciling /\ ~InJobs(t) /\ ~InReports(t)
  BY <1>1, ShapesDiffer DEF InJobs, InReports
<1>3. ~Removing /\ ~Committed
  BY <1>1, <1>2 DEF Removing, Committed, Delivered
<1>4. \A r \in Callers : Operating(r) => r = Creation /\ Unmarked(r) /\ status = "creating"
  BY <1>1, <1>2 DEF BeingCreated, InUse, Operating, Asking, Unmarked
<1>5. Single /\ Shown
  BY <1>3, <1>4 DEF Single, Shown, InDeletion
<1>6. Shut /\ Current
  BY <1>2, <1>3 DEF Shut, Current
<1> QED BY <1>5, <1>6 DEF Solo

(* A step after which less is in hand, the workspace's row being the same.  *)
LEMMA SoloWhileLess ==
  ASSUME Solo, UNCHANGED <<status, op, kind>>,
         \A t \in Callers : Asking(t)' => Asking(t) /\ req'[t] = req[t] /\ seen'[t] = seen[t],
         \A t \in Callers : Operating(t)' => Operating(t),
         \A t \in Callers : Unmarked(t) => Unmarked(t)',
         Delivered' => Delivered, Reconciling' => Reconciling
  PROVE  Solo'
<1>1. Removing' => Removing
  BY DEF Removing
<1>2. Committed' => Committed
  BY DEF Committed
<1>3. Single'
  BY DEF Solo, Single
<1>4. Shown'
  BY <1>1 DEF Solo, Shown
<1>5. Shut'
  BY <1>2 DEF Solo, Shut
<1>6. Current'
  BY DEF Solo, Current
<1> QED BY <1>3, <1>4, <1>5, <1>6 DEF Solo

(* A step of the operation that is in hand.                                 *)
LEMMA SoloByOperation ==
  ASSUME Solo, NEW r \in Callers, Operating(r), UNCHANGED <<status, kind>>,
         \A t \in Callers \ {r} :
           /\ Operating(t)' => Operating(t)
           /\ kind[t] = "remove" /\ Asking(t)' => Asking(t),
         Delivered' => Delivered, Reconciling' => Reconciling,
         Operating(r)' => Unmarked(r)' \/ op' = OperationOf(kind[r])
  PROVE  Solo'
<1>1. ~Removing /\ kind[r] # "remove" /\ status \notin InDeletion
  BY DEF Solo, Shown, Operating
<1>2. ~Removing' /\ ~Committed'
  BY <1>1 DEF Removing, Committed
<1>3. \A t \in Callers : Operating(t)' => t = r
  BY DEF Solo, Single
<1>4. Single' /\ Shown'
  BY <1>1, <1>2, <1>3 DEF Single, Shown
<1>5. Shut'
  BY <1>2 DEF Shut
<1>6. Current'
  BY <1>2 DEF Solo, Current, Removing
<1> QED BY <1>4, <1>5, <1>6 DEF Solo

(* A step while there are removals in hand.                                 *)
LEMMA SoloByRemoval ==
  ASSUME Solo, Removing \/ status \in InDeletion, UNCHANGED kind,
         \A t \in Callers : Operating(t)' => Operating(t),
         \A t \in Callers : kind[t] = "remove" /\ Asking(t)' => Asking(t) /\ seen'[t] = seen[t],
         Committed' => status' \in Doomed,
         Reconciling' => Reconciling /\ status' \notin Defunct
  PROVE  Solo'
<1>1. \A t \in Callers : ~Operating(t)'
  BY DEF Solo, Shown
<1>2. Single' /\ Shown'
  BY <1>1 DEF Single, Shown
<1>3. Shut'
  BY DEF Shut
<1>4. Current'
  BY DEF Solo, Current
<1> QED BY <1>2, <1>3, <1>4 DEF Solo

(* A step of a request: nothing changes for the others.                     *)
LEMMA OthersInHand ==
  ASSUME Types, NEW r \in Callers, NEW from, NEW to, RequestStep(r, from, to),
         UNCHANGED <<kind, toBackend, worker>>,
         \A j \in jobs' : j \in jobs \/ j.cmd.task = r
  PROVE  /\ req[r] = from /\ req'[r] = to /\ (to # "returned" => seen'[r] = seen[r])
         /\ \A t \in Callers \ {r} :
              /\ req'[t] = req[t] /\ seen'[t] = seen[t] /\ (Asking(t)' <=> Asking(t))
              /\ Operating(t)' => Operating(t)
         /\ Reconciling' <=> Reconciling
<1>1. /\ req[r] = from /\ req'[r] = to /\ (to # "returned" => seen'[r] = seen[r])
      /\ \A t \in Callers \ {r} : req'[t] = req[t] /\ seen'[t] = seen[t]
  BY DEF RequestStep, Types, TypeOK
<1>2. \A t \in Callers \ {r} : Asking(t)' <=> Asking(t)
  BY <1>1 DEF Asking
<1>3. \A t \in Callers \ {r} : InJobs(t)' => InJobs(t)
  BY DEF InJobs
<1>4. \A t : (InReports(t)' <=> InReports(t)) /\ (Settling(t)' <=> Settling(t))
             /\ (Reconciling' <=> Reconciling)
  BY SameShape DEF InReports
<1>5. \A t \in Callers \ {r} : Operating(t)' => Operating(t)
  BY <1>2, <1>3, <1>4 DEF Operating
<1> QED BY <1>1, <1>2, <1>4, <1>5

LEMMA SameDelivered ==
  ASSUME UNCHANGED <<reg, toBackend, worker>>,
         \A j \in jobs' : j \in jobs \/ j.cmd.kind # "remove"
  PROVE  Delivered' => Delivered
BY SameShape DEF Delivered

LEMMA SoloByRequests ==
  ASSUME Types, OwnInv, ShapeInv, SoloInv, NEW r \in Callers, RequestRuns(r) \/ EmitFails(r), ~raced'
  PROVE  Solo'
<1> USE DEF rowVars, connVars, hostVars, handlerVars
<1>1. Solo /\ UNCHANGED <<kind, toBackend, worker, reg>>
  BY DEF SoloInv, RequestRuns, CreateTask, MarkDeleting, MarkPendingDeletion, SetOperation, Emit,
         MarkInProgress, RollbackOperation, FailTask, RestoreStatus, EmitFails
<1>2. \A j \in jobs' : j \in jobs \/ (Emit(r) /\ j.cmd.task = r /\ j.cmd.kind = kind[r])
  BY DEF RequestRuns, CreateTask, MarkDeleting, MarkPendingDeletion, SetOperation, Emit, Send,
         MarkInProgress, RollbackOperation, FailTask, RestoreStatus, EmitFails
<1>3. ~Emit(r) \/ kind[r] # "remove" => (Delivered' => Delivered)
  BY <1>1, <1>2, SameDelivered
<1>4. CASE kind[r] = "remove"
  <2>1. \A t \in Callers \ {r} : Operating(t)' => Operating(t)
    BY <1>1, <1>2, OthersInHand DEF RequestRuns, CreateTask, MarkDeleting, MarkPendingDeletion,
       SetOperation, Emit, MarkInProgress, RollbackOperation, FailTask, RestoreStatus, EmitFails
  <2>2. \A t \in Callers : Operating(t)' => Operating(t)
    BY <1>1, <1>4, <2>1 DEF Operating
  <2>3. ASSUME NEW from, NEW to, RequestStep(r, from, to),
               from \in {"accepted", "marking", "setop", "emitting", "rollback", "failtask", "restore"},
               Committed' => status' \in Doomed, Reconciling => status' \notin Defunct
        PROVE  Solo'
    <3>1. /\ req[r] = from /\ req'[r] = to /\ (to # "returned" => seen'[r] = seen[r])
          /\ \A t \in Callers \ {r} : (Asking(t)' <=> Asking(t)) /\ seen'[t] = seen[t]
          /\ Reconciling' <=> Reconciling
      BY <1>1, <1>2, <2>3, OthersInHand
    <3>2. Asking(r) /\ Removing
      BY <1>4, <2>3, <3>1 DEF Asking, Removing
    <3>3. to = "returned" => ~Asking(r)'
      BY <3>1 DEF Asking
    <3>4. \A t \in Callers : kind[t] = "remove" /\ Asking(t)' => Asking(t) /\ seen'[t] = seen[t]
      BY <3>1, <3>2, <3>3
    <3> QED BY <1>1, <2>2, <2>3, <3>1, <3>2, <3>4, SoloByRemoval
  <2>4. ASSUME NEW from, NEW to, RequestStep(r, from, to), UNCHANGED status,
               from \in {"accepted", "marking", "setop", "emitting", "rollback", "failtask", "restore"},
               from = "accepted" => to = "marking" /\ UNCHANGED jobs, from # "marking"
        PROVE  Solo'
    <3>1. /\ req[r] = from /\ req'[r] = to /\ (to # "returned" => seen'[r] = seen[r])
          /\ \A t \in Callers \ {r} : /\ Asking(t)' <=> Asking(t)
                                      /\ req'[t] = req[t] /\ seen'[t] = seen[t]
      BY <1>1, <1>2, <2>4, OthersInHand
    <3>2. from # "accepted" => Committed
      BY <1>4, <2>4, <3>1 DEF Committed, Asking
    <3>3. from = "accepted" => (Committed' => Committed)
      <4> SUFFICES ASSUME from = "accepted", Committed' PROVE Committed
        OBVIOUS
      <4>1. Delivered' => Delivered
        BY <1>1, <2>4, SameDelivered
      <4>2. Asking(r) /\ req'[r] = "marking" /\ seen'[r] = seen[r]
        BY <2>4, <3>1 DEF Asking
      <4> QED BY <1>1, <3>1, <4>1, <4>2 DEF Committed
    <3> QED BY <1>1, <2>3, <2>4, <3>2, <3>3 DEF Solo, Shut, Current
  <2>5. CASE CreateTask(r)
    <3>1. RequestStep(r, "accepted", "marking") /\ UNCHANGED <<status, jobs>>
      BY <1>4, <2>5 DEF CreateTask
    <3> QED BY <2>4, <3>1
  <2>6. CASE MarkDeleting(r)
    <3>1. RequestStep(r, "marking", "setop") /\ status' = "deleting"
      BY <2>6 DEF MarkDeleting
    <3> QED BY <2>3, <3>1 DEF Doomed, InDeletion, Defunct
  <2>7. CASE MarkPendingDeletion(r)
    <3>1. RequestStep(r, "marking", "returned") /\ status' = "pending_deletion"
      BY <2>7 DEF MarkPendingDeletion
    <3> QED BY <2>3, <3>1 DEF Doomed, InDeletion, Defunct
  <2>8. CASE SetOperation(r)
    <3>1. RequestStep(r, "setop", "emitting") /\ UNCHANGED status
      BY <2>8 DEF SetOperation
    <3> QED BY <2>4, <3>1
  <2>9. CASE Emit(r)
    <3>1. RequestStep(r, "emitting", "sent") /\ UNCHANGED status
      BY <2>9 DEF Emit
    <3> QED BY <2>4, <3>1
  <2>10. CASE EmitFails(r)
    <3>1. RequestStep(r, "emitting", "rollback") /\ UNCHANGED status
      BY <2>10 DEF EmitFails
    <3> QED BY <2>4, <3>1
  <2>11. CASE RollbackOperation(r)
    <3>1. RequestStep(r, "rollback", "failtask") /\ UNCHANGED status
      BY <2>11 DEF RollbackOperation
    <3> QED BY <2>4, <3>1
  <2>12. CASE FailTask(r)
    <3>1. RequestStep(r, "failtask", "restore") /\ UNCHANGED status
      BY <1>4, <2>12 DEF FailTask
    <3> QED BY <2>4, <3>1
  <2>13. CASE RestoreStatus(r)
    <3>1. RequestStep(r, "restore", "returned") /\ status' = seen[r].status /\ ~OtherRemoval(r)
          /\ UNCHANGED jobs
      BY <2>13 DEF RestoreStatus
    <3>2. \A t \in Callers \ {r} : ~(kind[t] = "remove" /\ Asking(t))
      BY <3>1 DEF OtherRemoval, Asking
    <3>3. ~Delivered
      BY <3>1, SettlingWrites DEF OtherRemoval, Delivered
    <3>4. ~Committed'
      <4>1. ~Delivered'
        BY <1>3, <3>1, <3>3, <1>1, SameDelivered
      <4>2. \A t \in Callers \ {r} : Asking(t)' <=> Asking(t)
        BY <1>1, <3>1, OthersInHand
      <4>3. ~Asking(r)'
        <5>1. req'[r] = "returned"
          BY <1>1, <3>1, OthersInHand
        <5> QED BY <5>1 DEF Asking
      <4> QED BY <1>1, <3>2, <4>1, <4>2, <4>3 DEF Committed
    <3>5. Reconciling => status' \notin Defunct
      <4>1. Asking(r)
        BY <1>4, <3>1 DEF RequestStep, Asking
      <4> QED BY <1>1, <1>4, <3>1, <4>1 DEF Solo, Current
    <3> QED BY <2>3, <3>1, <3>4, <3>5
  <2>14. CASE MarkInProgress(r)
    <3>1. RequestStep(r, "sent", "returned") /\ UNCHANGED <<status, op, jobs>>
      BY <2>14 DEF MarkInProgress
    <3>2. /\ req[r] = "sent" /\ req'[r] = "returned"
          /\ \A t \in Callers \ {r} : /\ Asking(t)' <=> Asking(t)
                                      /\ req'[t] = req[t] /\ seen'[t] = seen[t]
          /\ Reconciling' <=> Reconciling
      BY <1>1, <3>1, OthersInHand
    <3>3. \A t \in Callers : Asking(t)' => Asking(t) /\ req'[t] = req[t] /\ seen'[t] = seen[t]
      BY <3>2 DEF Asking
    <3>4. \A t \in Callers : Unmarked(t) => Unmarked(t)'
      BY <3>2 DEF Unmarked
    <3>5. Delivered' => Delivered
      BY <1>1, <3>1, SameDelivered
    <3> QED BY <1>1, <2>2, <3>1, <3>2, <3>3, <3>4, <3>5, SoloWhileLess
  <2> QED BY <2>5, <2>6, <2>7, <2>8, <2>9, <2>10, <2>11, <2>12, <2>13, <2>14 DEF RequestRuns
<1>5. CASE kind[r] # "remove"
  <2>1. Delivered' => Delivered
    BY <1>3, <1>5
  <2>2. ASSUME NEW from \in {"accepted", "setop", "emitting", "rollback"}, NEW to,
               RequestStep(r, from, to), UNCHANGED status,
               Operating(r)' => Unmarked(r)' \/ op' = OperationOf(kind[r])
        PROVE  Solo'
    <3>1. /\ req[r] = from
          /\ \A t \in Callers \ {r} : (Asking(t)' <=> Asking(t)) /\ (Operating(t)' => Operating(t))
          /\ Reconciling' <=> Reconciling
      BY <1>1, <1>2, <2>2, OthersInHand
    <3>2. Operating(r)
      BY <1>5, <3>1 DEF Operating, Asking
    <3> QED BY <1>1, <2>1, <2>2, <3>1, <3>2, SoloByOperation
  <2>3. ASSUME NEW from \in {"sent", "failtask"}, NEW to, to = "returned",
               RequestStep(r, from, to), UNCHANGED <<status, op, jobs>>
        PROVE  Solo'
    <3>1. /\ req[r] = from /\ req'[r] = to
          /\ \A t \in Callers \ {r} : /\ Asking(t)' <=> Asking(t)
                                      /\ Operating(t)' => Operating(t)
                                      /\ req'[t] = req[t] /\ seen'[t] = seen[t]
          /\ Reconciling' <=> Reconciling
      BY <1>1, <1>2, <2>3, OthersInHand
    <3>2. \A t \in Callers : Asking(t)' => Asking(t) /\ req'[t] = req[t] /\ seen'[t] = seen[t]
      BY <1>1, <2>3, <3>1 DEF Asking
    <3>3. Operating(r)' => Operating(r)
      BY <1>1, <2>3, <3>1, SameShape DEF Operating, Asking, InJobs, InReports
    <3>4. \A t \in Callers : Unmarked(t) => Unmarked(t)'
      BY <2>3, <3>1 DEF Unmarked
    <3> QED BY <1>1, <2>1, <2>3, <3>1, <3>2, <3>3, <3>4, SoloWhileLess
  <2>4. CASE CreateTask(r)
    <3>1. RequestStep(r, "accepted", "setop") /\ UNCHANGED status
      BY <1>5, <2>4 DEF CreateTask
    <3>2. Unmarked(r)'
      BY <3>1 DEF RequestStep, Unmarked, Types, TypeOK
    <3> QED BY <2>2, <3>1, <3>2
  <2>5. CASE SetOperation(r)
    <3>1. RequestStep(r, "setop", "emitting") /\ UNCHANGED status /\ op' = OperationOf(kind[r])
      BY <2>5 DEF SetOperation
    <3> QED BY <2>2, <3>1
  <2>6. CASE Emit(r) \/ EmitFails(r)
    <3>1. PICK to : RequestStep(r, "emitting", to)
      BY <2>6 DEF Emit, EmitFails
    <3>2. UNCHANGED <<status, op>> /\ req[r] = "emitting"
      BY <2>6 DEF Emit, EmitFails, RequestStep
    <3>3. Operating(r) /\ ~Unmarked(r)
      BY <1>5, <3>2 DEF Operating, Asking, Unmarked
    <3>4. op' = OperationOf(kind[r])
      BY <1>1, <3>2, <3>3 DEF Solo, Shown
    <3> QED BY <2>2, <3>1, <3>2, <3>4
  <2>7. CASE RollbackOperation(r)
    <3>1. /\ RequestStep(r, "rollback", "failtask") /\ UNCHANGED <<status, jobs>>
          /\ req[r] = "rollback" /\ req'[r] = "failtask"
      BY <2>7 DEF RollbackOperation, RequestStep, Types, TypeOK
    <3>2. ~InJobs(r) /\ ~InReports(r) /\ ~Settling(r)
      BY <1>5, <3>1, SettlingWrites DEF OwnInv, HeardWhenSent, Abroad
    <3>3. ~Operating(r)'
      BY <1>1, <1>5, <3>1, <3>2, SameShape DEF Operating, Asking, InJobs, InReports
    <3> QED BY <2>2, <3>1, <3>3
  <2>8. CASE FailTask(r)
    <3>1. RequestStep(r, "failtask", "returned") /\ UNCHANGED <<status, op, jobs>>
      BY <1>5, <2>8 DEF FailTask
    <3> QED BY <2>3, <3>1
  <2>9. CASE MarkInProgress(r)
    <3>1. RequestStep(r, "sent", "returned") /\ UNCHANGED <<status, op, jobs>>
      BY <2>9 DEF MarkInProgress
    <3> QED BY <2>3, <3>1
  <2>10. ~MarkDeleting(r) /\ ~MarkPendingDeletion(r) /\ ~RestoreStatus(r)
    BY <1>5 DEF MarkDeleting, MarkPendingDeletion, RestoreStatus, RequestStep, ShapeInv, OnlyRemovals
  <2> QED BY <2>4, <2>5, <2>6, <2>7, <2>8, <2>9, <2>10 DEF RequestRuns
<1> QED BY <1>4, <1>5

LEMMA SoloByLoad ==
  ASSUME Types, OwnInv, ShapeInv, SoloInv, NEW r \in Requests, NEW k \in Kinds \ {"create"},
         Load(r, k), ~raced'
  PROVE  Solo'
<1>1. /\ r \in Callers /\ req[r] = "ready" /\ Accepts(k)
      /\ req'[r] = "accepted" /\ kind'[r] = k /\ seen'[r].status = status
      /\ \A t \in Callers \ {r} : UNCHANGED <<req[t], kind[t], seen[t]>>
      /\ UNCHANGED <<status, op, reg, jobs, toBackend, worker>>
  BY DEF Load, Callers, Types, TypeOK, rowVars, connVars, hostVars, handlerVars
<1>2. Solo /\ \A s \in Callers : ~Unmarked(s)
  BY DEF Load, SoloInv
<1>3. ~InJobs(r) /\ ~InReports(r) /\ ~Settling(r) /\ ~Asking(r)
  <2>1. kind[r] # "remove" /\ ~Abroad(r)
    BY <1>1 DEF OwnInv, UnmadeIsUnknown
  <2> QED BY <1>1, <2>1, SettlingWrites DEF Abroad, Asking
<1>4. /\ \A t : InJobs(t)' = InJobs(t) /\ InReports(t)' = InReports(t)
      /\ \A t : (Settling(t)' <=> Settling(t)) /\ (Concluding(t)' <=> Concluding(t))
                /\ (Reconciling' <=> Reconciling)
  BY <1>1, SameShape DEF InJobs, InReports
<1>5. \A t \in Callers \ {r} : (Asking(t)' <=> Asking(t)) /\ (Operating(t)' <=> Operating(t))
  BY <1>1, <1>4 DEF Asking, Operating
<1>6. Delivered' <=> Delivered
  BY <1>1, <1>4 DEF Delivered
<1>7. ~Operating(r)
  BY <1>3 DEF Operating
<1>8. op \in {"none", "removing"}
  BY <1>1 DEF Accepts, Kinds
<1>9. \A t \in Callers : ~Operating(t)
  <2> SUFFICES ASSUME NEW t \in Callers, Operating(t) PROVE FALSE
    OBVIOUS
  <2>1. op = OperationOf(kind[t]) /\ kind[t] \in Kinds \ {"remove"}
    BY <1>2 DEF Solo, Shown, Operating, Types, TypeOK
  <2>2. op \in {"creating", "stopping", "starting"}
    BY <2>1 DEF OperationOf, Kinds
  <2> QED BY <1>8, <2>2
<1>10. Removing => status \in Doomed
  <2>1. Removing => Committed
    BY <1>2 DEF Removing, Committed, Unmarked
  <2> QED BY <1>2, <2>1 DEF Solo, Shut
<1>11. CASE k = "remove"
  <2>1. \A t \in Callers : ~Operating(t)'
    BY <1>1, <1>5, <1>9, <1>11 DEF Operating
  <2>2. Single' /\ Shown'
    BY <2>1 DEF Single, Shown
  <2>3. Shut'
    <3> SUFFICES ASSUME Committed' PROVE status \in Doomed
      BY <1>1 DEF Shut
    <3>1. CASE Delivered'
      BY <1>6, <1>10, <3>1 DEF Removing
    <3>2. CASE ~Delivered'
      <4>1. PICK t \in Callers : /\ kind'[t] = "remove" /\ Asking(t)'
                                 /\ req'[t] \in {"accepted", "marking"} => seen'[t].status \in Defunct
        BY <3>2 DEF Committed
      <4>2. CASE t = r
        BY <1>1, <4>1, <4>2 DEF Doomed
      <4>3. CASE t # r
        BY <1>1, <1>5, <1>10, <4>1, <4>3 DEF Removing
      <4> QED BY <4>2, <4>3
    <3> QED BY <3>1, <3>2
  <2>4. Current'
    BY <1>1, <1>2, <1>4, <1>5 DEF Solo, Current
  <2> QED BY <2>2, <2>3, <2>4 DEF Solo
<1>12. CASE k # "remove"
  <2>1. status \in {"running", "stopped"}
    BY <1>1, <1>12 DEF Accepts, Kinds
  <2>2. ~Removing
    BY <1>10, <2>1 DEF Doomed, InDeletion, Defunct
  <2>3. ~Removing'
    BY <1>1, <1>5, <1>6, <1>12, <2>2 DEF Removing
  <2>4. ~Committed'
    BY <2>3 DEF Removing, Committed
  <2>5. \A t \in Callers : Operating(t)' => t = r
    BY <1>5, <1>9
  <2>6. Unmarked(r)'
    BY <1>1 DEF Unmarked
  <2>7. Single' /\ Shown'
    BY <1>1, <2>1, <2>3, <2>5, <2>6 DEF Single, Shown, InDeletion
  <2>8. Shut' /\ Current'
    <3>1. Shut'
      BY <2>4 DEF Shut
    <3>2. Current'
      BY <1>1, <1>2, <1>4, <2>3 DEF Solo, Current, Removing
    <3> QED BY <3>1, <3>2
  <2> QED BY <2>7, <2>8 DEF Solo
<1> QED BY <1>11, <1>12

LEMMA SoloByConnections ==
  ASSUME Types, OwnInv, ShapeInv, SoloInv, NEW c \in Conns, ConnectionHandled(c) \/ Connect(c), ~raced'
  PROVE  Solo'
<1> USE DEF rowVars, reqVars, hostVars, handlerVars
<1>1. Solo /\ UNCHANGED <<req, kind, seen, toBackend, worker>>
  BY DEF SoloInv, ConnectionHandled, Connect, Unregister, Register, NothingPending, ListPending,
         ReuseTask, NewTask, DispatchMarks, DispatchEmits, DispatchEnds
<1>2. /\ \A t : InReports(t)' = InReports(t)
      /\ \A t : (Settling(t)' <=> Settling(t)) /\ (Concluding(t)' <=> Concluding(t))
                /\ (Reconciling' <=> Reconciling)
      /\ \A t \in Callers : Asking(t)' <=> Asking(t)
  BY <1>1, SameShape DEF InReports, Asking
<1>3. ASSUME UNCHANGED jobs PROVE \A t \in Callers : Operating(t)' => Operating(t)
  BY <1>1, <1>2, <1>3 DEF Operating, InJobs
<1>4. reg \in [Conns -> {"unused", "announced", "listing", "pending_deletion", "deleting",
                         "marking", "emitting", "sent", "done"}]
  BY DEF Types, ChannelsOK
<1>5. ASSUME UNCHANGED <<status, op, jobs>>,
             \A d \in Conns : reg'[d] = reg[d] \/ reg'[d] \in {"announced", "listing", "done"}
      PROVE  Solo'
  <2>1. Delivered' => Delivered
    BY <1>1, <1>2, <1>5 DEF Delivered
  <2>2. \A t \in Callers : Unmarked(t) => Unmarked(t)'
    BY <1>1 DEF Unmarked
  <2> QED BY <1>1, <1>2, <1>3, <1>5, <2>1, <2>2, SoloWhileLess
<1>6. ASSUME status \in {"pending_deletion", "deleting"}
             \/ reg[c] \in {"pending_deletion", "deleting", "marking", "emitting"},
             status' \in {status, "deleting"},
             \A t \in Callers : Operating(t)' => Operating(t)
      PROVE  Solo'
  <2>1. Delivered \/ status \in InDeletion
    BY <1>6 DEF Delivered, InDeletion
  <2>2. Removing \/ status \in InDeletion
    BY <2>1 DEF Removing
  <2>3. status' \in Doomed
    BY <1>1, <1>6, <2>1 DEF Solo, Shut, Committed, Doomed, InDeletion
  <2>4. Reconciling' => Reconciling /\ status' \notin Defunct
    BY <1>1, <1>2, <1>6 DEF Solo, Current, Defunct
  <2> QED BY <1>1, <1>2, <1>6, <2>2, <2>3, <2>4, SoloByRemoval
<1>7. CASE Connect(c) \/ Unregister(c) \/ Register(c) \/ NothingPending(c)
  <2>1. /\ UNCHANGED <<status, op, jobs>>
        /\ reg' = reg \/ \E s \in {"announced", "listing", "done"} : reg' = [reg EXCEPT ![c] = s]
    BY <1>7 DEF Connect, Unregister, Register, NothingPending, RegisterStep
  <2> QED BY <1>4, <1>5, <2>1
<1>8. CASE DispatchEnds(c)
  <2>1. UNCHANGED <<status, op, jobs>> /\ reg' = [reg EXCEPT ![c] = "done"]
    BY <1>8 DEF DispatchEnds, RegisterStep
  <2> QED BY <1>4, <1>5, <2>1
<1>9. CASE ListPending(c)
  BY <1>3, <1>6, <1>9 DEF ListPending
<1>10. CASE ReuseTask(c) \/ NewTask(c)
  <2>1. UNCHANGED <<status, jobs>> /\ reg[c] \in {"pending_deletion", "deleting"}
    BY <1>10 DEF ReuseTask, NewTask, RegisterStep
  <2> QED BY <1>3, <1>6, <2>1
<1>11. CASE DispatchMarks(c)
  <2>1. status' = "deleting" /\ UNCHANGED jobs /\ reg[c] = "marking"
    BY <1>11 DEF DispatchMarks, RegisterStep
  <2> QED BY <1>3, <1>6, <2>1
<1>12. CASE DispatchEmits(c)
  <2>1. UNCHANGED status /\ reg[c] = "emitting"
    BY <1>12 DEF DispatchEmits, RegisterStep
  <2>2. \A t \in Callers : kind[t] # "remove" => (InJobs(t)' => InJobs(t))
    <3>1. \A j \in jobs' : j \in jobs \/ j.cmd.task = picked[c]
      BY <1>12 DEF DispatchEmits, Send
    <3> QED BY <3>1 DEF InJobs, OwnInv, PicksRemovals
  <2>3. \A t \in Callers : Operating(t)' => Operating(t)
    BY <1>1, <1>2, <2>2 DEF Operating
  <2> QED BY <1>6, <2>1, <2>3
<1> QED BY <1>7, <1>8, <1>9, <1>10, <1>11, <1>12 DEF ConnectionHandled

LEMMA SoloByRunner ==
  ASSUME Types, OwnInv, ShapeInv, SoloInv, Runner \/ Heartbeat \/ InstanceDies \/ Disconnect, ~raced'
  PROVE  Solo'
<1> USE DEF rowVars, reqVars, connVars, hostVars, handlerVars
<1>0. UNCHANGED <<status, op, req, kind, seen, reg, worker, raced>>
  <2>1. ASSUME NEW j \in jobs, Works(j) PROVE UNCHANGED <<status, op, req, kind, seen, reg, worker, raced>>
    BY <2>1, WorkKeepsCommands
  <2>2. ASSUME NEW j \in jobs, Reply(j) PROVE UNCHANGED <<status, op, req, kind, seen, reg, worker, raced>>
    BY <2>2 DEF Reply
  <2>3. CASE Heartbeat
    BY <2>3 DEF Heartbeat, ListInstances, SendBeat
  <2>4. CASE InstanceDies \/ Disconnect
    BY <2>4 DEF InstanceDies, Disconnect
  <2> QED BY <2>1, <2>2, <2>3, <2>4 DEF Runner
<1>1. Solo /\ UNCHANGED <<status, op, req, kind, seen, reg, worker>>
  BY <1>0 DEF SoloInv
<1>2. /\ \A t : (Settling(t)' <=> Settling(t)) /\ (Concluding(t)' <=> Concluding(t))
                /\ (Reconciling' <=> Reconciling)
      /\ \A t \in Callers : (Asking(t)' <=> Asking(t)) /\ (Unmarked(t) => Unmarked(t)')
  BY <1>1, SameShape DEF Asking, Unmarked
<1>3. SUFFICES /\ \A t \in Callers : InJobs(t)' \/ InReports(t)' => InJobs(t) \/ InReports(t)
               /\ \A j \in jobs' : j.cmd.kind = "remove" => \E i \in jobs : i.cmd.kind = "remove"
               /\ \A i \in DOMAIN toBackend' : toBackend'[i].kind = "remove" =>
                    \/ \E k \in DOMAIN toBackend : toBackend[k].kind = "remove"
                    \/ \E j \in jobs : j.cmd.kind = "remove"
  <2>1. \A t \in Callers : Operating(t)' => Operating(t)
    BY <1>1, <1>2, <1>3 DEF Operating
  <2>2. Delivered' => Delivered
    BY <1>1, <1>2, <1>3 DEF Delivered
  <2> QED BY <1>1, <1>2, <2>1, <2>2, SoloWhileLess
<1>4. CASE \E j \in jobs : Works(j)
  <2>1. PICK j \in jobs : Works(j)
    BY <1>4
  <2>2. UNCHANGED toBackend /\ \E i : jobs' = (jobs \ {j}) \cup {i} /\ i.cmd = j.cmd
    BY <2>1, WorkKeepsCommands
  <2> QED BY <2>2 DEF InJobs, InReports
<1>5. CASE \E j \in jobs : Reply(j)
  <2>1. PICK j \in jobs : Reply(j)
    BY <1>5
  <2>2. PICK m \in Messages : Sends(m) /\ m.kind = j.cmd.kind /\ m.task = j.cmd.task
    BY <2>1, ReplySends
  <2>3. jobs' = jobs \ {j}
    BY <2>1 DEF Reply
  <2>4. \A i \in DOMAIN toBackend' : \/ i \in DOMAIN toBackend /\ toBackend'[i] = toBackend[i]
                                     \/ toBackend'[i] = m
    BY <2>2, SentOrLost
  <2> QED BY <2>2, <2>3, <2>4 DEF InJobs, InReports
<1>6. CASE ListInstances \/ InstanceDies
  <2>1. UNCHANGED <<jobs, toBackend>>
    BY <1>6 DEF ListInstances, InstanceDies
  <2> QED BY <2>1 DEF InJobs, InReports
<1>7. CASE SendBeat
  <2>1. PICK m \in Messages : Sends(m) /\ m.kind = "beat"
    BY <1>7, BeatSends
  <2>2. UNCHANGED jobs
    BY <1>7 DEF SendBeat
  <2>3. \A i \in DOMAIN toBackend' : \/ i \in DOMAIN toBackend /\ toBackend'[i] = toBackend[i]
                                     \/ toBackend'[i].kind = "beat"
    BY <2>1, SentOrLost
  <2> QED BY <2>2, <2>3 DEF InJobs, InReports, Kinds
<1>8. CASE Disconnect
  <2>1. PICK n \in 0..Len(toBackend) : toBackend' = SubSeq(toBackend, 1, n)
    BY <1>8 DEF Disconnect
  <2>2. \A i \in DOMAIN toBackend' : i \in DOMAIN toBackend /\ toBackend'[i] = toBackend[i]
    BY <2>1, Cutoff DEF Types, ChannelsOK
  <2>3. jobs' \subseteq jobs
    BY <1>8 DEF Disconnect
  <2> QED BY <2>2, <2>3 DEF InJobs, InReports
<1> QED BY <1>4, <1>5, <1>6, <1>7, <1>8 DEF Runner, Heartbeat

LEMMA SoloBySocket ==
  ASSUME Types, OwnInv, ShapeInv, SoloInv, Socket \/ HandleBeat, ~raced'
  PROVE  Solo'
<1> USE DEF rowVars, reqVars, connVars, hostVars, handlerVars
<1>1. Solo /\ UNCHANGED <<req, kind, seen, reg>>
  BY DEF SoloInv, Socket, HandleReply, HandleCleanupDone, Statement, ReceiveBeat, HandleBeat
<1>2. \A t \in Callers : (Asking(t)' <=> Asking(t)) /\ (Unmarked(t) => Unmarked(t)')
  BY <1>1 DEF Asking, Unmarked
<1>3. ASSUME toBackend # <<>>, toBackend' = Tail(toBackend)
      PROVE  /\ \A t \in Callers : InReports(t)' => InReports(t)
             /\ \A i \in DOMAIN toBackend' :
                  toBackend'[i].kind = "remove"
                    => \E k \in DOMAIN toBackend : toBackend[k].kind = "remove"
  BY <1>3, OthersStay DEF InReports
<1>4. CASE HandleReply
  <2>1. Head(toBackend) \in Replies
    BY <1>4, OthersStay DEF HandleReply, Messages, Confirmations, Beats, Kinds
  <2>2. PICK m \in Replies : m = Head(toBackend)
    BY <2>1
  <2>3. /\ toBackend # <<>> /\ toBackend' = Tail(toBackend) /\ UNCHANGED <<status, op, jobs>>
        /\ worker' = Statements(m) /\ m.kind \in Kinds
        /\ m = toBackend[1] /\ 1 \in DOMAIN toBackend
    BY <1>4, <2>2, OthersStay DEF HandleReply
  <2>4. m.kind = KindOf(m.task) /\ InReports(m.task)
    BY <2>3 DEF ShapeInv, KindsAgree, InReports
  <2>5. IF m.kind = "remove" THEN Concluding(m.task)' ELSE Settling(m.task)'
    BY <2>3, <2>4, AnswerHandled
  <2>6. /\ ~Reconciling'
        /\ \A t : Settling(t)' => t = m.task
        /\ (\E t : Concluding(t)') => m.kind = "remove"
    BY <2>5, ShapesApartNext DEF ShapesApart
  <2>7. \A t \in Callers : Operating(t)' => Operating(t)
    BY <1>1, <1>2, <1>3, <2>3, <2>4, <2>6 DEF Operating, InJobs
  <2>8. Delivered' => Delivered
    BY <1>1, <1>3, <2>3, <2>6 DEF Delivered
  <2> QED BY <1>1, <1>2, <2>3, <2>6, <2>7, <2>8, SoloWhileLess
<1>5. CASE HandleCleanupDone \/ ReceiveBeat
  <2>1. /\ toBackend # <<>> /\ toBackend' = Tail(toBackend)
        /\ UNCHANGED <<status, op, jobs, worker>>
    BY <1>5 DEF HandleCleanupDone, ReceiveBeat
  <2>2. \A t \in Callers : Operating(t)' => Operating(t)
    BY <1>1, <1>2, <1>3, <2>1, SameShape DEF Operating, InJobs
  <2>3. (Delivered' => Delivered) /\ (Reconciling' => Reconciling)
    BY <1>1, <1>3, <2>1, SameShape DEF Delivered
  <2> QED BY <1>1, <1>2, <2>1, <2>2, <2>3, SoloWhileLess
<1>6. CASE Statement
  <2>1. UNCHANGED <<jobs, toBackend>> /\ WorkerOK
    BY <1>6 DEF Statement, ShapeInv
  <2>2. /\ \A t : InJobs(t)' = InJobs(t) /\ InReports(t)' = InReports(t)
        /\ (\E i \in DOMAIN toBackend' : toBackend'[i].kind = "remove")
             <=> \E i \in DOMAIN toBackend : toBackend[i].kind = "remove"
    BY <2>1 DEF InJobs, InReports
  <2>3. ASSUME \A t : ~Settling(t)' PROVE \A t \in Callers : Operating(t)' => Operating(t)
    BY <1>1, <1>2, <2>2, <2>3 DEF Operating
  <2>4. ASSUME \A t : ~Concluding(t)'
        PROVE  (Delivered' => Delivered) /\ (Removing' => Removing) /\ (Committed' => Committed)
    <3>1. Delivered' => Delivered
      BY <1>1, <2>1, <2>4 DEF Delivered
    <3> QED BY <1>1, <1>2, <3>1 DEF Removing, Committed
  <2>5. CASE /\ Reconciling /\ worker' = <<>> /\ op' = op
             /\ status' \in {"running", "stopped", "failed"}
             /\ status \in InDeletion => raced'
    <3>1. ~Reconciling' /\ \A t : ~Settling(t)' /\ ~Concluding(t)'
      BY <2>5, ShapesApartNext DEF ShapesApart
    <3>2. ~Committed
      BY <1>1, <2>5 DEF Solo, Shut, Current, Doomed
    <3>3. Single' /\ Shown'
      BY <1>1, <1>2, <2>3, <2>4, <2>5, <3>1 DEF Solo, Single, Shown, InDeletion
    <3>4. Shut' /\ Current'
      BY <2>4, <3>1, <3>2 DEF Shut, Current
    <3> QED BY <3>3, <3>4 DEF Solo
  <2>6. CASE \E t \in Tasks :
               /\ Closing(t) /\ (worker' = <<>> \/ Closing(t)')
               /\ status' \in {status, "failed"} /\ op' = op
    <3>1. ~Reconciling' /\ \A t : ~Settling(t)' /\ ~Concluding(t)'
      BY <2>6, ShapesApartNext DEF ShapesApart
    <3>2. Single' /\ Shown'
      BY <1>1, <1>2, <2>3, <2>4, <2>6, <3>1 DEF Solo, Single, Shown, InDeletion
    <3>3. Shut' /\ Current'
      BY <1>1, <2>4, <2>6, <3>1 DEF Solo, Shut, Current, Doomed, Defunct
    <3> QED BY <3>2, <3>3 DEF Solo
  <2>7. ASSUME NEW t \in Tasks, KindOf(t) # "remove", Settling(t),
               \/ Settling(t)' /\ status' \in {"running", "stopped"} /\ op' = op
               \/ Closing(t)' /\ status' = status /\ op' = "none"
        PROVE  Solo'
    <3>1. t \in Callers /\ kind[t] # "remove" /\ Operating(t)
      BY <2>7 DEF KindOf, Operating, Tasks
    <3>2. ~Reconciling' /\ \A u : ~Concluding(u)' /\ (Settling(u)' => u = t /\ ~Closing(t)')
      BY <2>7, ShapesApartNext DEF ShapesApart
    <3>3. ~Removing /\ ~Removing' /\ ~Committed' /\ status \notin InDeletion
      <4>1. ~Removing /\ status \notin InDeletion
        BY <1>1, <3>1 DEF Solo, Shown
      <4>2. ~Removing'
        BY <2>4, <3>2, <4>1
      <4> QED BY <4>1, <4>2 DEF Removing, Committed
    <3>4. \A u \in Callers : Operating(u)' => u = t
      <4>1. \A u \in Callers : Operating(u)' => Operating(u)
        BY <1>1, <1>2, <2>2, <3>1, <3>2 DEF Operating
      <4> QED BY <1>1, <3>1, <4>1 DEF Solo, Single
    <3>5. CASE Settling(t)' /\ status' \in {"running", "stopped"} /\ op' = op
      BY <1>1, <1>2, <3>1, <3>2, <3>3, <3>4, <3>5
      DEF Solo, Single, Shown, Shut, Current, InDeletion
    <3>6. CASE Closing(t)' /\ status' = status /\ op' = "none"
      <4>1. ~Asking(t) /\ ~InJobs(t) /\ ~InReports(t)
        <5>1. req[t] \in {"sent", "returned"}
          BY <2>7, <3>1, SettlingWrites DEF OwnInv, HeardWhenSent, Abroad
        <5>2. ~InJobs(t) /\ ~InReports(t)
          BY <2>7, <3>1 DEF ShapeInv, Once
        <5> QED BY <3>1, <5>1, <5>2 DEF Asking
      <4>2. ~Operating(t)'
        BY <1>2, <2>2, <3>1, <3>2, <3>6, <4>1 DEF Operating
      <4> QED BY <3>2, <3>3, <3>4, <4>2 DEF Solo, Single, Shown, Shut, Current
    <3> QED BY <2>7, <3>5, <3>6
  <2>8. ASSUME NEW t \in Tasks, KindOf(t) = "remove", Concluding(t),
               \/ Concluding(t)' /\ status' = status
               \/ Closing(t)' /\ status' \in {"deleted", "delete_failed"}
        PROVE  Solo'
    <3>1. Removing /\ status \in Doomed
      BY <1>1, <2>8 DEF Removing, Delivered, Solo, Shut, Committed
    <3>2. ~Reconciling' /\ \A u : ~Settling(u)'
      BY <2>8, ShapesApartNext DEF ShapesApart
    <3>3. status' \in Doomed
      BY <2>8, <3>1 DEF Doomed, InDeletion, Defunct
    <3> QED BY <1>1, <1>2, <2>3, <3>1, <3>2, <3>3, SoloByRemoval
  <2> QED BY <1>6, <2>1, <2>5, <2>6, <2>7, <2>8, NextStatement
<1>7. CASE HandleBeat
  <2>1. UNCHANGED <<status, op, toBackend>>
    BY <1>7 DEF HandleBeat
  <2>2. \A j \in jobs' : j \in jobs \/ (j.cmd.kind \notin Kinds /\ j.cmd.task = NoTask)
    BY <1>7 DEF HandleBeat, Send, Kinds
  <2>3. status \in Doomed => worker' = <<>>
    BY <1>7 DEF HandleBeat, Doomed, Defunct
  <2>4. worker' = <<>> \/ Reconciling'
    BY <1>7, HandleBeatReconciles
  <2>5. \A t : ~Settling(t)' /\ ~Concluding(t)'
    BY <2>4, ShapesApartNext DEF ShapesApart
  <2>6. Reconciling' => status \notin Doomed
    BY <2>3, ShapesApartNext DEF ShapesApart
  <2>7. \A t \in Callers : Operating(t)' => Operating(t)
    <3>1. \A t \in Callers : InJobs(t)' => InJobs(t)
      BY <2>2, TaskAssumption DEF InJobs, Callers
    <3> QED BY <1>1, <1>2, <2>1, <2>5, <3>1 DEF Operating, InReports
  <2>8. Delivered' => Delivered
    BY <1>1, <2>1, <2>2, <2>5 DEF Delivered, Kinds
  <2>9. (Removing' => Removing) /\ (Committed' => Committed)
    BY <1>1, <1>2, <2>8 DEF Removing, Committed
  <2>10. Single' /\ Shown'
    BY <1>1, <1>2, <2>1, <2>7, <2>9 DEF Solo, Single, Shown
  <2>11. Shut'
    BY <1>1, <2>1, <2>9 DEF Solo, Shut
  <2>12. Current'
    <3> SUFFICES ASSUME Reconciling'
                 PROVE  /\ status \notin Defunct
                        /\ \A r \in Callers : kind[r] = "remove" /\ Asking(r)
                                                => seen[r].status \notin Defunct
      BY <1>1, <1>2, <2>1 DEF Current
    <3>1. status \notin Doomed
      BY <2>6
    <3>2. ~Committed
      BY <1>1, <3>1 DEF Solo, Shut
    <3> QED BY <3>1, <3>2 DEF Committed, Doomed
  <2> QED BY <2>10, <2>11, <2>12 DEF Solo
<1> QED BY <1>4, <1>5, <1>6, <1>7 DEF Socket

LEMMA SoloStep == Types /\ OwnInv /\ ShapeInv /\ SoloInv /\ [Next]_vars => SoloInv'
<1> SUFFICES ASSUME Types, OwnInv, ShapeInv, SoloInv, [Next]_vars, ~raced' PROVE Solo'
  BY DEF SoloInv
<1>1. CASE UNCHANGED vars
  <2>1. UNCHANGED <<status, op, req, kind, seen, reg, jobs, toBackend, worker, raced>>
    BY <1>1 DEF vars, rowVars, reqVars, connVars, hostVars, handlerVars
  <2>2. \A t \in Callers : /\ Asking(t)' => Asking(t) /\ req'[t] = req[t] /\ seen'[t] = seen[t]
                           /\ Unmarked(t) => Unmarked(t)'
    BY <2>1 DEF Asking, Unmarked
  <2>3. \A t \in Callers : Operating(t)' => Operating(t)
    BY <2>1, SameShape DEF Operating, Asking, InJobs, InReports
  <2>4. (Delivered' => Delivered) /\ (Reconciling' => Reconciling)
    BY <2>1, SameShape DEF Delivered
  <2> QED BY <2>1, <2>2, <2>3, <2>4, SoloWhileLess DEF SoloInv
<1>2. CASE Backend
  BY <1>2, SoloByRequests, SoloByConnections, SoloBySocket DEF Backend
<1>3. ASSUME NEW r \in Requests, NEW k \in Kinds \ {"create"}, Load(r, k) PROVE Solo'
  BY <1>3, SoloByLoad
<1>4. ASSUME NEW r \in Callers, EmitFails(r) PROVE Solo'
  BY <1>4, SoloByRequests
<1>5. CASE Runner \/ Heartbeat \/ InstanceDies \/ Disconnect
  BY <1>5, SoloByRunner
<1>6. ASSUME NEW c \in Conns, Connect(c) PROVE Solo'
  BY <1>6, SoloByConnections
<1> QED BY <1>1, <1>2, <1>3, <1>4, <1>5, <1>6 DEF Next

(* As long as no request slips through between another's check and its      *)
(* write, and no failed removal restores a status over another removal,     *)
(* active_operation and the status keep the operations of a workspace apart:*)
(* the runner is never given two different ones to work on.                 *)
THEOREM OperationsAreExclusive == Spec => []ExclusiveAtRunner
<1>1. Types /\ ShapeInv /\ SoloInv => ExclusiveAtRunner
  <2> SUFFICES ASSUME Types, ShapeInv, Solo, NEW i \in jobs, NEW j \in jobs,
                      i.cmd.kind \in Kinds, j.cmd.kind \in Kinds
               PROVE  i.cmd.kind = j.cmd.kind
    BY DEF SoloInv, ExclusiveAtRunner, Commands
  <2>1. \A k \in jobs : k.cmd.kind \in Kinds \ {"remove"} =>
          k.cmd.task \in Callers /\ Operating(k.cmd.task) /\ kind[k.cmd.task] = k.cmd.kind
    BY DEF ShapeInv, KindsAgree, KindOf, Operating, InJobs
  <2>2. \A k \in jobs : k.cmd.kind = "remove" => Removing
    BY DEF Removing, Delivered
  <2>3. CASE i.cmd.kind # "remove" /\ j.cmd.kind # "remove"
    BY <2>1, <2>3 DEF Solo, Single
  <2>4. CASE i.cmd.kind = "remove" \/ j.cmd.kind = "remove"
    BY <2>1, <2>2, <2>4 DEF Solo, Shown
  <2> QED BY <2>3, <2>4
<1> QED BY <1>1, InitTypes, TypesStep, InitOwned, OwnedStep, InitShape, ShapeStep, InitSolo, SoloStep,
           PTL DEF Spec
-----------------------------------------------------------------------------
(* Deleted workspaces have no instance. What the runner's jobs do at the    *)
(* places where they can be.                                                *)
PlacesOK == \A j \in jobs :
  /\ j.at \in {"boot", "defined", "setup"} => j.cmd.kind = "create"
  /\ j.at = "removing" => j.cmd.kind \in {"remove", "cleanup"}

(* An instance is in the cache, or being removed, or being created, unless  *)
(* it has been left behind.                                                 *)
UnderRemoval == \E j \in jobs : j.at = "removing"
UnderCreation == \E j \in jobs : j.at \in {"boot", "defined"}
InstanceKnown == ~leaked /\ HasInstance => HasId \/ UnderRemoval \/ UnderCreation

(* A removal was asked for when no other had been: what it would restore is *)
(* no status of a deletion.                                                 *)
SeenLive == \A r \in Callers :
  kind[r] = "remove" /\ req[r] \notin {"ready", "returned"} => seen[r].status \notin InDeletion

(* From the moment the runner has removed the instance until the row says   *)
(* so, there is none.                                                       *)
Removed ==
  \/ status = "deleted"
  \/ \E j \in jobs : j.cmd.kind = "remove" /\ j.at = "ok"
  \/ \E i \in DOMAIN toBackend : toBackend[i].kind = "remove" /\ toBackend[i].ok
  \/ \E i \in DOMAIN worker : worker[i].val = "deleted"
RemovedIsGone == ~raced /\ ~leaked /\ Removed => ~HasInstance \/ UnderRemoval

GoneInv == PlacesOK /\ InstanceKnown /\ SeenLive /\ RemovedIsGone

LEMMA InitGone == Init => GoneInv
<1> SUFFICES ASSUME Init PROVE GoneInv
  OBVIOUS
<1>1. /\ toBackend = <<>> /\ jobs = {} /\ worker = <<>>
      /\ \A r \in Callers : kind[r] # "remove"
      /\ BeingCreated \/ InUse
  BY DEF Init, InitBackend
<1>2. status # "deleted" /\ (HasInstance => HasId)
  BY <1>1 DEF BeingCreated, InUse, HasInstance, HasId
<1>3. ~Removed
  BY <1>1, <1>2 DEF Removed
<1> QED BY <1>1, <1>2, <1>3 DEF GoneInv, PlacesOK, InstanceKnown, SeenLive, RemovedIsGone

(* The handler that is to write that the workspace is deleted.              *)
LEMMA DeletingConcludes ==
  ASSUME WorkerOK, NEW i \in DOMAIN worker, worker[i].val = "deleted"
  PROVE  \E t \in Tasks : Concluding(t)
<1> USE DEF Write, WriteTask, ClearOp, Failed, Outcomes
<1>1. worker # <<>>
  OBVIOUS
<1>2. ~Reconciling
  BY DEF Reconciling
<1>3. ASSUME NEW t PROVE ~Closing(t)
  BY DEF Closing
<1>4. ASSUME NEW t PROVE ~Settling(t)
  <2> SUFFICES ASSUME Settling(t) PROVE FALSE
    OBVIOUS
  <2>1. PICK v \in Outcomes :
          \/ worker = <<ClearOp, WriteTask(t, v)>>
          \/ worker = <<ClearOp, Failed, WriteTask(t, v)>>
          \/ \E s \in {"running", "stopped"} :
               worker = <<Write("status", s), ClearOp, WriteTask(t, v)>>
    BY DEF Settling
  <2>2. CASE worker = <<ClearOp, WriteTask(t, v)>>
    BY <2>2
  <2>3. CASE worker = <<ClearOp, Failed, WriteTask(t, v)>>
    BY <2>3
  <2>4. ASSUME NEW s \in {"running", "stopped"},
               worker = <<Write("status", s), ClearOp, WriteTask(t, v)>>
        PROVE  FALSE
    BY <2>4
  <2> QED BY <2>1, <2>2, <2>3, <2>4
<1> HIDE DEF Write, WriteTask, ClearOp, Failed, Outcomes
<1> QED BY <1>1, <1>2, <1>3, <1>4 DEF WorkerOK

(* No workspace is being created that has been, or is being, removed.       *)
LEMMA CreatedNotRemoved ==
  ASSUME Types, ShapeInv, Solo, NEW j \in jobs, j.cmd.kind = "create"
  PROVE  ~Removed /\ ~\E k \in jobs : k.cmd.kind = "remove"
<1>1. j.cmd.task \in Callers /\ kind[j.cmd.task] = "create" /\ Operating(j.cmd.task)
  <2>1. KindOf(j.cmd.task) = "create"
    BY DEF ShapeInv, KindsAgree, Kinds
  <2> QED BY <2>1 DEF KindOf, Operating, InJobs
<1>2. ~Delivered /\ status \notin InDeletion
  BY <1>1 DEF Solo, Shown, Removing
<1>3. \A i \in DOMAIN worker : worker[i].val # "deleted"
  BY <1>2, DeletingConcludes DEF Delivered, ShapeInv
<1> QED BY <1>2, <1>3 DEF Delivered, Removed, InDeletion

(* Steps that leave the instance, and the jobs that deal with it, alone.    *)
LEMMA GoneWhileQuiet ==
  ASSUME GoneInv, UNCHANGED <<inst, cache, leaked>>, SeenLive',
         \A j : j.at # "start" => (j \in jobs' <=> j \in jobs),
         raced => raced', Removed' => Removed
  PROVE  GoneInv'
<1>1. PlacesOK'
  BY DEF GoneInv, PlacesOK
<1>2. (UnderRemoval' <=> UnderRemoval) /\ (UnderCreation' <=> UnderCreation)
  BY DEF UnderRemoval, UnderCreation
<1>3. InstanceKnown'
  BY <1>2 DEF GoneInv, InstanceKnown, HasId, HasInstance
<1>4. RemovedIsGone'
  BY <1>2 DEF GoneInv, RemovedIsGone, HasInstance
<1> QED BY <1>1, <1>3, <1>4 DEF GoneInv

LEMMA SeenWhileQuiet ==
  ASSUME SeenLive, UNCHANGED <<req, kind, seen>>
  PROVE  SeenLive'
BY DEF SeenLive

LEMMA SentStart ==
  ASSUME NEW m, NEW to, Send(m, to)
  PROVE  \A j : j.at # "start" => (j \in jobs' <=> j \in jobs)
<1>1. [cmd |-> m, at |-> "start"].at = "start"
  OBVIOUS
<1>2. jobs' = jobs \/ jobs' = jobs \cup {[cmd |-> m, at |-> "start"]}
  BY DEF Send
<1> QED BY <1>1, <1>2

LEMMA GoneByRequests ==
  ASSUME Types, ShapeInv, GoneInv, NEW r \in Callers, RequestRuns(r) \/ EmitFails(r)
  PROVE  GoneInv'
<1> USE DEF rowVars, connVars, hostVars, handlerVars
<1>1. UNCHANGED <<kind, toBackend, worker, inst, cache, leaked>>
  BY DEF RequestRuns, CreateTask, MarkDeleting, MarkPendingDeletion, SetOperation, Emit,
         MarkInProgress, RollbackOperation, FailTask, RestoreStatus, EmitFails
<1>2. PICK from \in RequestPhases, to \in RequestPhases :
        /\ RequestStep(r, from, to)
        /\ from \notin {"ready", "returned"}
        /\ to # "ready"
  BY DEF RequestRuns, CreateTask, MarkDeleting, MarkPendingDeletion, SetOperation, Emit,
         MarkInProgress, RollbackOperation, FailTask, RestoreStatus, EmitFails, RequestPhases
<1>3. SeenLive'
  <2> SUFFICES ASSUME NEW s \in Callers, kind[s] = "remove", req'[s] \notin {"ready", "returned"}
               PROVE  seen'[s].status \notin InDeletion
    BY <1>1 DEF SeenLive
  <2>1. req[s] \notin {"ready", "returned"} /\ seen'[s] = seen[s]
    BY <1>2 DEF RequestStep, Types, TypeOK
  <2> QED BY <2>1 DEF GoneInv, SeenLive
<1>4. \A j : j.at # "start" => (j \in jobs' <=> j \in jobs)
  <2>1. Emit(r) => \E m, t : Send(m, t)
    BY DEF Emit
  <2>2. Emit(r) \/ UNCHANGED jobs
    BY DEF RequestRuns, CreateTask, MarkDeleting, MarkPendingDeletion, SetOperation,
           MarkInProgress, RollbackOperation, FailTask, RestoreStatus, EmitFails
  <2> QED BY <2>1, <2>2, SentStart
<1>5. status' = "deleted" => status = "deleted"
  <2>1. CASE RestoreStatus(r)
    <3>1. kind[r] = "remove" => seen[r].status \notin InDeletion
      BY <2>1 DEF RestoreStatus, RequestStep, GoneInv, SeenLive
    <3>2. kind[r] = "remove"
      BY <2>1 DEF RestoreStatus, RequestStep, ShapeInv, OnlyRemovals
    <3> QED BY <2>1, <3>1, <3>2 DEF RestoreStatus, InDeletion
  <2>2. CASE ~RestoreStatus(r)
    BY <2>2 DEF RequestRuns, CreateTask, MarkDeleting, MarkPendingDeletion, SetOperation, Emit,
         MarkInProgress, RollbackOperation, FailTask, EmitFails
  <2> QED BY <2>1, <2>2
<1>6. Removed' => Removed
  BY <1>1, <1>4, <1>5 DEF Removed
<1>7. raced => raced'
  BY DEF RequestRuns, CreateTask, MarkDeleting, MarkPendingDeletion, SetOperation, Emit,
         MarkInProgress, RollbackOperation, FailTask, RestoreStatus, EmitFails
<1> QED BY <1>1, <1>3, <1>4, <1>6, <1>7, GoneWhileQuiet

LEMMA GoneByLoad ==
  ASSUME Types, GoneInv, NEW r \in Requests, NEW k \in Kinds \ {"create"}, Load(r, k)
  PROVE  GoneInv'
<1> USE DEF rowVars, connVars, hostVars, handlerVars
<1>1. UNCHANGED <<status, jobs, toBackend, worker, inst, cache, leaked>>
  BY DEF Load
<1>2. SeenLive'
  <2>1. /\ r \in Callers /\ req \in [Callers -> RequestPhases] /\ kind \in [Callers -> Kinds]
        /\ DOMAIN seen = Callers
    BY DEF Callers, Types, TypeOK
  <2>2. \A s \in Callers \ {r} : req'[s] = req[s] /\ kind'[s] = kind[s] /\ seen'[s] = seen[s]
    BY <2>1 DEF Load
  <2>3. kind'[r] = k /\ seen'[r].status = status
    BY <2>1 DEF Load
  <2>4. k = "remove" => status \notin InDeletion
    BY DEF Load, Accepts
  <2> QED BY <2>2, <2>3, <2>4 DEF GoneInv, SeenLive
<1>3. Removed' => Removed
  BY <1>1 DEF Removed
<1>4. raced => raced'
  BY DEF Load
<1> QED BY <1>1, <1>2, <1>3, <1>4, GoneWhileQuiet

LEMMA GoneByConnections ==
  ASSUME Types, GoneInv, NEW c \in Conns, ConnectionHandled(c) \/ Connect(c)
  PROVE  GoneInv'
<1> USE DEF rowVars, reqVars, hostVars, handlerVars
<1>1. UNCHANGED <<req, kind, seen, toBackend, worker, inst, leaked, raced>>
  BY DEF ConnectionHandled, Connect, Unregister, Register, NothingPending, ListPending, ReuseTask,
         NewTask, DispatchMarks, DispatchEmits, DispatchEnds
<1>2. SeenLive'
  BY <1>1, SeenWhileQuiet DEF GoneInv
<1>3. \A j : j.at # "start" => (j \in jobs' <=> j \in jobs)
  <2>1. DispatchEmits(c) => \E m, t : Send(m, t)
    BY DEF DispatchEmits
  <2>2. DispatchEmits(c) \/ UNCHANGED jobs
    BY DEF ConnectionHandled, Connect, Unregister, Register, NothingPending, ListPending, ReuseTask,
           NewTask, DispatchMarks, DispatchEnds
  <2> QED BY <2>1, <2>2, SentStart
<1>4. status' = "deleted" => status = "deleted"
  BY DEF ConnectionHandled, Connect, Unregister, Register, NothingPending, ListPending, ReuseTask,
         NewTask, DispatchMarks, DispatchEmits, DispatchEnds
<1>5. Removed' => Removed
  BY <1>1, <1>3, <1>4 DEF Removed
<1>6. CASE UNCHANGED cache
  BY <1>1, <1>2, <1>3, <1>5, <1>6, GoneWhileQuiet
<1>7. CASE Connect(c)
  <2>1. UNCHANGED jobs /\ cache' = Synced(inst)
    BY <1>7 DEF Connect
  <2>2. InstanceKnown'
    BY <1>1, <2>1 DEF InstanceKnown, HasInstance, HasId, Synced
  <2>3. PlacesOK' /\ RemovedIsGone'
    BY <1>1, <1>5, <2>1 DEF GoneInv, PlacesOK, RemovedIsGone, HasInstance, UnderRemoval
  <2> QED BY <1>2, <2>2, <2>3 DEF GoneInv
<1>8. Connect(c) \/ UNCHANGED cache
  BY DEF ConnectionHandled, Unregister, Register, NothingPending, ListPending, ReuseTask,
         NewTask, DispatchMarks, DispatchEmits, DispatchEnds
<1> QED BY <1>6, <1>7, <1>8

(* A job that moves on: the places of the others stay.                      *)
LEMMA JobAt ==
  ASSUME Types, NEW j \in jobs, NEW from, NEW to, JobStep(j, from, to)
  PROVE  /\ j.at = from
         /\ \E i : i.cmd = j.cmd /\ i.at = to /\ jobs' = (jobs \ {j}) \cup {i}
<1>1. j \in [cmd : Orders, at : Places]
  BY DEF Types, ChannelsOK
<1>2. [j EXCEPT !.at = to].cmd = j.cmd /\ [j EXCEPT !.at = to].at = to
  BY <1>1
<1> QED BY <1>2 DEF JobStep

(* A job makes progress: what is to be shown of its step.                   *)
LEMMA GoneByJob ==
  ASSUME Types, GoneInv, NEW j \in jobs, NEW from, NEW to, JobStep(j, from, to),
         to \in {"boot", "defined", "setup"} => j.cmd.kind = "create",
         to = "removing" => j.cmd.kind \in {"remove", "cleanup"},
         leaked => leaked',
         ~leaked' /\ HasInstance' =>
           \/ HasId'
           \/ to \in {"boot", "defined", "removing"}
           \/ /\ HasId => HasId'
              /\ HasInstance
              /\ from \notin {"boot", "defined", "removing"},
         ~raced /\ ~leaked' /\ HasInstance' =>
           \/ to = "removing"
           \/ to = "ok" /\ j.cmd.kind = "remove" /\ UnderRemoval /\ from # "removing"
           \/ ~Removed /\ ~(to = "ok" /\ j.cmd.kind = "remove")
           \/ HasInstance /\ from # "removing" /\ ~(to = "ok" /\ j.cmd.kind = "remove")
  PROVE  GoneInv'
<1>1. PICK i : i.cmd = j.cmd /\ i.at = to /\ jobs' = (jobs \ {j}) \cup {i}
  BY JobAt
<1>2. /\ j.at = from
      /\ UNCHANGED <<status, req, kind, seen, toBackend, worker, raced>>
  BY DEF JobStep, rowVars, reqVars, handlerVars
<1>3. PlacesOK'
  BY <1>1 DEF GoneInv, PlacesOK
<1>4. SeenLive'
  BY <1>2, SeenWhileQuiet DEF GoneInv
<1>5. to = "removing" => UnderRemoval'
  BY <1>1 DEF UnderRemoval
<1>6. to \in {"boot", "defined"} => UnderCreation'
  BY <1>1 DEF UnderCreation
<1>7. from # "removing" /\ UnderRemoval => UnderRemoval'
  BY <1>1, <1>2 DEF UnderRemoval
<1>8. from \notin {"boot", "defined"} /\ UnderCreation => UnderCreation'
  BY <1>1, <1>2 DEF UnderCreation
<1>9. InstanceKnown'
  BY <1>5, <1>6, <1>7, <1>8 DEF GoneInv, InstanceKnown
<1>10. Removed' => Removed \/ (to = "ok" /\ j.cmd.kind = "remove")
  BY <1>1, <1>2 DEF Removed
<1>11. RemovedIsGone'
  BY <1>2, <1>5, <1>7, <1>10 DEF GoneInv, RemovedIsGone
<1> QED BY <1>3, <1>4, <1>9, <1>11 DEF GoneInv

LEMMA GoneByWork ==
  ASSUME Types, ShapeInv, SoloInv, GoneInv, NEW j \in jobs, Works(j)
  PROVE  GoneInv'
<1> USE DEF HasInstance, HasId
<1>1. j.cmd.kind = "create" /\ ~raced => ~Removed
  BY CreatedNotRemoved DEF SoloInv
<1>2. j.at \in {"boot", "defined", "setup"} => j.cmd.kind = "create"
  BY DEF GoneInv, PlacesOK
<1>3. CASE CreateBegins(j)
  <2>1. j.cmd.kind = "create" /\ JobStep(j, "start", "boot") /\ UNCHANGED <<inst, leaked>>
    BY <1>3 DEF CreateBegins
  <2> QED BY <1>1, <2>1, GoneByJob
<1>4. CASE CreateDefines(j)
  <2>1. JobStep(j, "boot", "defined") /\ UNCHANGED <<cache, leaked>>
    BY <1>4 DEF CreateDefines
  <2>2. j.cmd.kind = "create"
    BY <1>2, <2>1 DEF JobStep
  <2> QED BY <1>1, <2>1, <2>2, GoneByJob
<1>5. CASE CreateBoots(j)
  <2>1. PICK from \in {"boot", "defined"} : JobStep(j, from, "setup")
    BY <1>5 DEF CreateBoots
  <2>2. cache' = "creating" /\ UNCHANGED leaked
    BY <1>5 DEF CreateBoots
  <2>3. j.cmd.kind = "create"
    BY <1>2, <2>1 DEF JobStep
  <2> QED BY <1>1, <2>1, <2>2, <2>3, GoneByJob
<1>6. CASE CreateEnds(j)
  <2>1. PICK to \in {"ok", "failed"} : JobStep(j, "setup", to)
    BY <1>6 DEF CreateEnds
  <2>2. UNCHANGED <<inst, leaked>> /\ (cache' = "known" \/ UNCHANGED cache)
    BY <1>6 DEF CreateEnds
  <2>3. j.cmd.kind = "create"
    BY <1>2, <2>1 DEF JobStep
  <2> QED BY <1>1, <2>1, <2>2, <2>3, GoneByJob
<1>7. CASE CreateFails(j)
  <2>1. PICK from \in {"boot", "defined"} : JobStep(j, from, "failed")
    BY <1>7 DEF CreateFails
  <2>2. (leaked => leaked') /\ (~leaked' => ~HasInstance')
    BY <1>7 DEF CreateFails
  <2> QED BY <2>1, <2>2, GoneByJob
<1>8. CASE Stops(j) \/ Resumes(j)
  <2>1. PICK to \in {"ok", "failed"} : JobStep(j, "start", to)
    BY <1>8 DEF Stops, Resumes
  <2>2. /\ UNCHANGED leaked /\ j.cmd.kind \in {"stop", "resume"}
        /\ (HasInstance' => HasInstance) /\ (HasId => HasId')
    BY <1>8 DEF Stops, Resumes
  <2> QED BY <2>1, <2>2, GoneByJob
<1>9. CASE Uncaches(j)
  <2>1. j.cmd.kind \in {"remove", "cleanup"} /\ cache' = "absent" /\ UNCHANGED <<inst, leaked>>
    BY <1>9 DEF Uncaches
  <2>2. CASE HasId
    <3>1. JobStep(j, "start", "removing")
      BY <1>9, <2>2 DEF Uncaches
    <3> QED BY <2>1, <3>1, GoneByJob
  <2>3. CASE ~HasId
    <3>1. JobStep(j, "start", "ok")
      BY <1>9, <2>3 DEF Uncaches
    <3>2. ~leaked /\ HasInstance => UnderRemoval \/ UnderCreation
      BY <2>3 DEF GoneInv, InstanceKnown
    <3>3. ~raced /\ j.cmd.kind = "remove" => ~UnderCreation
      <4>1. UnderCreation => \E k \in jobs : k.cmd.kind = "create"
        BY DEF UnderCreation, GoneInv, PlacesOK
      <4> QED BY <4>1, CreatedNotRemoved DEF SoloInv
    <3>4. ~HasId /\ ~HasId'
      BY <2>1, <2>3
    <3> QED BY <2>1, <3>1, <3>2, <3>3, <3>4, GoneByJob
  <2> QED BY <2>2, <2>3
<1>10. CASE Removes(j)
  <2>1. JobStep(j, "removing", "ok") /\ ~HasInstance' /\ UNCHANGED leaked
    BY <1>10 DEF Removes
  <2> QED BY <2>1, GoneByJob
<1>11. CASE RemoveFails(j)
  <2>1. PICK to \in {"ok", "failed"} : JobStep(j, "removing", to)
    BY <1>11 DEF RemoveFails
  <2>2. leaked'
    BY <1>11 DEF RemoveFails
  <2> QED BY <2>1, <2>2, GoneByJob
<1> QED BY <1>3, <1>4, <1>5, <1>6, <1>7, <1>8, <1>9, <1>10, <1>11 DEF Works

(* What the runner reports of a removal that has gone well.                 *)
LEMMA ReportedAfterRemoval ==
  ASSUME Types, NEW j \in jobs, Reply(j)
  PROVE  Removed' => Removed
<1> DEFINE m == [kind |-> j.cmd.kind, task |-> j.cmd.task, ok |-> j.at = "ok"]
<1>1. m \in Messages /\ m.kind = j.cmd.kind /\ (m.ok <=> j.at = "ok")
  <2>1. j.cmd \in Orders
    BY DEF Types, ChannelsOK
  <2> QED BY <2>1 DEF Orders, Messages, Replies, Confirmations
<1>2. jobs' = jobs \ {j} /\ Sends(m) /\ UNCHANGED <<status, worker>>
  BY DEF Reply, rowVars, handlerVars
<1> HIDE DEF m
<1>3. \A i \in DOMAIN toBackend' :
        \/ i \in DOMAIN toBackend /\ toBackend'[i] = toBackend[i]
        \/ i = Len(toBackend) + 1 /\ toBackend'[i] = m
  BY <1>1, <1>2, SentOrLost
<1>4. (\E i \in DOMAIN toBackend' : toBackend'[i].kind = "remove" /\ toBackend'[i].ok) =>
        \/ \E i \in DOMAIN toBackend : toBackend[i].kind = "remove" /\ toBackend[i].ok
        \/ j.cmd.kind = "remove" /\ j.at = "ok"
  BY <1>1, <1>3
<1> QED BY <1>2, <1>4 DEF Removed

LEMMA GoneByRunner ==
  ASSUME Types, ShapeInv, SoloInv, GoneInv, Runner \/ Heartbeat \/ InstanceDies \/ Disconnect
  PROVE  GoneInv'
<1> USE DEF rowVars, reqVars, connVars, hostVars, handlerVars
<1>1. ASSUME NEW j \in jobs, Reply(j) PROVE GoneInv'
  <2>1. /\ UNCHANGED <<req, kind, seen, inst, cache, leaked, raced>>
        /\ jobs' = jobs \ {j} /\ j.at \in {"ok", "failed"}
    BY <1>1 DEF Reply
  <2>2. Removed' => Removed
    BY <1>1, ReportedAfterRemoval
  <2>3. PlacesOK'
    BY <2>1 DEF GoneInv, PlacesOK
  <2>4. (UnderRemoval => UnderRemoval') /\ (UnderCreation => UnderCreation')
    BY <2>1 DEF UnderRemoval, UnderCreation
  <2>5. InstanceKnown' /\ RemovedIsGone'
    BY <2>1, <2>2, <2>4 DEF GoneInv, InstanceKnown, RemovedIsGone, HasInstance, HasId
  <2> QED BY <2>1, <2>3, <2>5, SeenWhileQuiet DEF GoneInv
<1>2. CASE ListInstances
  <2>1. UNCHANGED <<status, req, kind, seen, toBackend, jobs, inst, cache, leaked, worker, raced>>
    BY <1>2 DEF ListInstances
  <2>2. Removed' => Removed
    BY <2>1 DEF Removed
  <2> QED BY <2>1, <2>2, SeenWhileQuiet, GoneWhileQuiet DEF GoneInv
<1>3. CASE SendBeat
  <2>1. /\ UNCHANGED <<status, req, kind, seen, jobs, inst, worker, raced>>
        /\ cache' = Synced(listed) /\ listed # "none"
        /\ leaked' = (leaked \/ (cache' = "absent" /\ HasInstance))
    BY <1>3 DEF SendBeat
  <2>2. Removed' => Removed
    <3>1. PICK m \in Messages : Sends(m) /\ m.kind = "beat"
      BY <1>3, BeatSends
    <3>2. \A i \in DOMAIN toBackend' :
            \/ i \in DOMAIN toBackend /\ toBackend'[i] = toBackend[i]
            \/ i = Len(toBackend) + 1 /\ toBackend'[i] = m
      BY <3>1, SentOrLost
    <3>3. \A i \in DOMAIN toBackend' : toBackend'[i].kind = "remove"
                                         => i \in DOMAIN toBackend /\ toBackend'[i] = toBackend[i]
      BY <3>1, <3>2
    <3> QED BY <2>1, <3>3 DEF Removed
  <2>3. cache' = "absent" \/ HasId' \/ cache' = cache
    BY <2>1 DEF Synced, HasId
  <2>4. PlacesOK' /\ (UnderRemoval' <=> UnderRemoval) /\ (UnderCreation' <=> UnderCreation)
    BY <2>1 DEF GoneInv, PlacesOK, UnderRemoval, UnderCreation
  <2>5. InstanceKnown' /\ RemovedIsGone'
    BY <2>1, <2>2, <2>3, <2>4 DEF GoneInv, InstanceKnown, RemovedIsGone, HasInstance, HasId
  <2> QED BY <2>1, <2>4, <2>5, SeenWhileQuiet DEF GoneInv
<1>4. CASE InstanceDies
  <2>1. /\ UNCHANGED <<status, req, kind, seen, toBackend, jobs, cache, leaked, worker, raced>>
        /\ HasInstance
    BY <1>4 DEF InstanceDies
  <2>2. Removed' => Removed
    BY <2>1 DEF Removed
  <2>3. PlacesOK' /\ (UnderRemoval' <=> UnderRemoval) /\ (UnderCreation' <=> UnderCreation)
    BY <2>1 DEF GoneInv, PlacesOK, UnderRemoval, UnderCreation
  <2>4. InstanceKnown' /\ RemovedIsGone'
    BY <2>1, <2>2, <2>3 DEF GoneInv, InstanceKnown, RemovedIsGone, HasId
  <2> QED BY <2>1, <2>3, <2>4, SeenWhileQuiet DEF GoneInv
<1>5. CASE Disconnect
  <2>1. UNCHANGED <<status, req, kind, seen, inst, cache, leaked, worker, raced>>
    BY <1>5 DEF Disconnect
  <2>2. \A j : j.at # "start" => (j \in jobs' <=> j \in jobs)
    BY <1>5 DEF Disconnect
  <2>3. \A i \in DOMAIN toBackend' : i \in DOMAIN toBackend /\ toBackend'[i] = toBackend[i]
    <3>1. PICK n \in 0..Len(toBackend) : toBackend' = SubSeq(toBackend, 1, n)
      BY <1>5 DEF Disconnect
    <3> QED BY <3>1, Cutoff DEF Types, ChannelsOK
  <2>4. Removed' => Removed
    BY <2>1, <2>2, <2>3 DEF Removed
  <2> QED BY <2>1, <2>2, <2>4, SeenWhileQuiet, GoneWhileQuiet DEF GoneInv
<1> QED BY <1>1, <1>2, <1>3, <1>4, <1>5, GoneByWork DEF Runner, Heartbeat

(* The answer that lets the backend write that the workspace is deleted.    *)
LEMMA DeletedByAnswer ==
  ASSUME NEW m \in Replies, NEW i \in DOMAIN Statements(m), Statements(m)[i].val = "deleted"
  PROVE  m.kind = "remove" /\ m.ok
<1> USE DEF Write, WriteTask
<1>1. m.kind \in Kinds /\ m.ok \in BOOLEAN
  BY DEF Replies
<1>2. m.ok
  <2> SUFFICES ASSUME ~m.ok PROVE FALSE
    BY <1>1
  <2>1. Statements(m) = OnError(m.task)
    BY DEF Statements
  <2>2. \/ OnError(m.task) = <<Write("op", "none"), Write("status", "failed"),
                               WriteTask(m.task, "failed")>>
        \/ OnError(m.task) = <<Write("op", "none"), Write("deletion", "delete_failed"),
                               WriteTask(m.task, "failed")>>
        \/ OnError(m.task) = <<Write("op", "none"), WriteTask(m.task, "failed")>>
    <3> HIDE DEF Write, WriteTask
    <3>1. CASE KindOf(m.task) = "create"
      BY <3>1, Concatenated DEF OnError
    <3>2. CASE KindOf(m.task) = "remove"
      BY <3>2, Concatenated DEF OnError
    <3>3. CASE KindOf(m.task) \notin {"create", "remove"}
      BY <3>3, Concatenated DEF OnError
    <3> QED BY <3>1, <3>2, <3>3
  <2> QED BY <2>1, <2>2
<1>3. CASE m.kind = "create"
  BY <1>2, <1>3 DEF Statements, OnCreated
<1>4. CASE m.kind = "stop"
  BY <1>2, <1>4 DEF Statements, OnStopped
<1>5. CASE m.kind = "resume"
  BY <1>2, <1>5 DEF Statements, OnResumed
<1> QED BY <1>1, <1>2, <1>3, <1>4, <1>5 DEF Kinds

LEMMA GoneBySocket ==
  ASSUME Types, GoneInv, Socket \/ HandleBeat
  PROVE  GoneInv'
<1> USE DEF rowVars, reqVars, connVars, hostVars, handlerVars
<1>1. UNCHANGED <<req, kind, seen, inst, cache, leaked>>
  BY DEF Socket, HandleReply, HandleCleanupDone, Statement, ReceiveBeat, HandleBeat
<1>0. raced => raced'
  <2>1. UNCHANGED raced \/ Statement
    BY DEF Socket, HandleReply, HandleCleanupDone, ReceiveBeat, HandleBeat
  <2>2. Statement /\ raced => raced'
    BY Zenon DEF Statement
  <2> QED BY <2>1, <2>2
<1>2. SeenLive'
  BY <1>1, SeenWhileQuiet DEF GoneInv
<1>3. \A j : j.at # "start" => (j \in jobs' <=> j \in jobs)
  <2>1. HandleBeat => UNCHANGED jobs \/ \E m, t : Send(m, t)
    BY DEF HandleBeat
  <2>2. HandleBeat \/ UNCHANGED jobs
    BY DEF Socket, HandleReply, HandleCleanupDone, Statement, ReceiveBeat
  <2> QED BY <2>1, <2>2, SentStart
<1>4. SUFFICES Removed' => Removed
  BY <1>0, <1>1, <1>2, <1>3, GoneWhileQuiet
<1>5. CASE HandleReply
  <2>1. Head(toBackend) \in Replies
    BY <1>5, OthersStay DEF HandleReply, Messages, Confirmations, Beats, Kinds
  <2>2. PICK m \in Replies : m = Head(toBackend)
    BY <2>1
  <2>3. /\ worker' = Statements(m) /\ UNCHANGED <<status, jobs>>
        /\ m = toBackend[1] /\ 1 \in DOMAIN toBackend
        /\ \A i \in DOMAIN toBackend' : i + 1 \in DOMAIN toBackend
                                        /\ toBackend'[i] = toBackend[i + 1]
    BY <1>5, <2>2, OthersStay DEF HandleReply
  <2>4. (\E i \in DOMAIN worker' : worker'[i].val = "deleted") => m.kind = "remove" /\ m.ok
    BY <2>3, DeletedByAnswer
  <2> QED BY <2>3, <2>4 DEF Removed
<1>6. CASE HandleCleanupDone \/ ReceiveBeat
  <2>1. UNCHANGED <<status, jobs, worker>>
        /\ \A i \in DOMAIN toBackend' : i + 1 \in DOMAIN toBackend
                                        /\ toBackend'[i] = toBackend[i + 1]
    BY <1>6, OthersStay DEF HandleCleanupDone, ReceiveBeat
  <2> QED BY <2>1 DEF Removed
<1>7. CASE Statement
  <2>1. /\ worker # <<>> /\ worker' = Tail(worker) /\ UNCHANGED <<jobs, toBackend>>
        /\ status' = IF Head(worker).col \in {"status", "reported", "deletion"}
                     THEN Head(worker).val ELSE status
    BY <1>7 DEF Statement, Idle
  <2>2. /\ Head(worker) = worker[1] /\ 1 \in DOMAIN worker
        /\ \A i \in DOMAIN worker' : i + 1 \in DOMAIN worker /\ worker'[i] = worker[i + 1]
    BY <2>1, Taken DEF Types, ChannelsOK
  <2> QED BY <2>1, <2>2 DEF Removed
<1>8. CASE HandleBeat
  <2>1. UNCHANGED <<status, toBackend>>
    BY <1>8 DEF HandleBeat
  <2>2. \A i \in DOMAIN worker' : worker'[i].val # "deleted"
    BY <1>8, HandleBeatReconciles DEF Reconciling, Write
  <2> QED BY <1>3, <2>1, <2>2 DEF Removed
<1> QED BY <1>5, <1>6, <1>7, <1>8 DEF Socket

LEMMA GoneStep == Types /\ ShapeInv /\ SoloInv /\ GoneInv /\ [Next]_vars => GoneInv'
<1> SUFFICES ASSUME Types, ShapeInv, SoloInv, GoneInv, [Next]_vars PROVE GoneInv'
  OBVIOUS
<1>1. CASE UNCHANGED vars
  <2>1. UNCHANGED <<status, req, kind, seen, toBackend, jobs, inst, cache, leaked, worker, raced>>
    BY <1>1 DEF vars, rowVars, reqVars, connVars, hostVars, handlerVars
  <2>2. Removed' => Removed
    BY <2>1 DEF Removed
  <2> QED BY <2>1, <2>2, SeenWhileQuiet, GoneWhileQuiet DEF GoneInv
<1>2. CASE Backend
  BY <1>2, GoneByRequests, GoneByConnections, GoneBySocket DEF Backend
<1>3. ASSUME NEW r \in Requests, NEW k \in Kinds \ {"create"}, Load(r, k) PROVE GoneInv'
  BY <1>3, GoneByLoad
<1>4. ASSUME NEW r \in Callers, EmitFails(r) PROVE GoneInv'
  BY <1>4, GoneByRequests
<1>5. CASE Runner \/ Heartbeat \/ InstanceDies \/ Disconnect
  BY <1>5, GoneByRunner
<1>6. ASSUME NEW c \in Conns, Connect(c) PROVE GoneInv'
  BY <1>6, GoneByConnections
<1> QED BY <1>1, <1>2, <1>3, <1>4, <1>5, <1>6 DEF Next

(* With the same proviso, and unless the runner's cache has lost it, a      *)
(* workspace that the backend calls deleted has no container or VM left, or *)
(* one that the runner is removing.                                         *)
THEOREM DeletionsAreReal == Spec => []DeletedIsGone
<1>1. GoneInv => DeletedIsGone
  BY DEF GoneInv, RemovedIsGone, Removed, HasInstance, UnderRemoval, DeletedIsGone
<1> QED BY <1>1, InitTypes, TypesStep, InitOwned, OwnedStep, InitShape, ShapeStep, InitSolo, SoloStep,
           InitGone, GoneStep, PTL DEF Spec
-----------------------------------------------------------------------------
(* Induction over a finite set, by way of the least number of elements for     *)
(* which a claim fails, and from it what sums of sizes are.                    *)
LEMMA LeastNatural ==
  ASSUME NEW T \in SUBSET Nat, T # {}
  PROVE  \E n \in T : \A m \in T : ~(m < n)
<1>1. \E n \in T : \A m \in T : ~(<<m, n>> \in OpToRel(<, Nat))
  BY WFMin, NatLessThanWellFounded
<1> QED BY <1>1 DEF OpToRel

LEMMA GrowsToAll ==
  ASSUME NEW S, IsFiniteSet(S), NEW Q \in SUBSET (SUBSET S), {} \in Q,
         \A s \in Q : \A x \in S \ s : s \cup {x} \in Q
  PROVE  S \in Q
<1> DEFINE Rest == {Cardinality(S \ s) : s \in Q}
<1>1. ASSUME NEW s \in Q PROVE IsFiniteSet(S \ s) /\ Cardinality(S \ s) \in Nat
  BY FS_Subset, FS_CardinalityType
<1>2. Rest \in SUBSET Nat /\ Rest # {}
  BY <1>1
<1>3. PICK n \in Rest : \A m \in Rest : ~(m < n)
  <2> HIDE DEF Rest
  <2> QED BY <1>2, LeastNatural
<1>4. PICK s \in Q : n = Cardinality(S \ s)
  BY <1>3
<1>5. ASSUME NEW x \in S \ s PROVE FALSE
  <2>1. s \cup {x} \in Q /\ S \ (s \cup {x}) = (S \ s) \ {x}
    BY <1>5
  <2>2. Cardinality((S \ s) \ {x}) = Cardinality(S \ s) - 1
    <3>1. PICK R : R = S \ s
      OBVIOUS
    <3>2. IsFiniteSet(R) /\ x \in R
      BY <1>1, <1>5, <3>1
    <3>3. Cardinality(R \ {x}) = Cardinality(R) - 1
      BY <3>2, FS_RemoveElement
    <3> QED BY <3>1, <3>3
  <2>3. Cardinality(S \ (s \cup {x})) \in Rest
    BY <2>1
  <2>4. Cardinality(S \ (s \cup {x})) < Cardinality(S \ s)
    <3>1. PICK m \in Nat : m = Cardinality(S \ s)
      BY <1>1
    <3>2. Cardinality(S \ (s \cup {x})) = m - 1
      BY <2>1, <2>2, <3>1
    <3> QED BY <3>1, <3>2
  <2> HIDE DEF Rest
  <2> QED BY <1>3, <1>4, <2>3, <2>4
<1> QED BY <1>4, <1>5

(* The sum of the sizes of a set, by the recursion of MapThenSumSet.        *)
Pick(s) == CHOOSE x \in s : TRUE
Sums(it, v, S) ==
  it = [s \in SUBSET S |-> IF s = {} THEN 0 ELSE v[Pick(s)].size + it[s \ {Pick(s)}]]
Sum(v, S) == (CHOOSE it : Sums(it, v, S))[S]

Sized(v, S) == \A x \in S : v[x].size \in Nat

LEMMA Picked == ASSUME NEW s, s # {} PROVE Pick(s) \in s
BY DEF Pick

(* Approximations of the recursion, for the subsets of a size at most.      *)
LEMMA SumsExist ==
  ASSUME NEW S, IsFiniteSet(S), NEW v, Sized(v, S)
  PROVE  \E it : Sums(it, v, S)
<1> DEFINE Step(g, s) == IF s = {} THEN 0 ELSE v[Pick(s)].size + g[s \ {Pick(s)}]
           Right(n) == \E g \in [SUBSET S -> Nat] :
                         \A s \in SUBSET S : Cardinality(s) <= n => g[s] = Step(g, s)
           Wrong == {n \in Nat : ~Right(n)}
<1>0. ASSUME NEW s \in SUBSET S, s # {}
      PROVE  /\ Cardinality(s) \in Nat /\ s \ {Pick(s)} \in SUBSET S
             /\ Cardinality(s \ {Pick(s)}) = Cardinality(s) - 1 /\ v[Pick(s)].size \in Nat
  <2>1. Pick(s) \in s /\ IsFiniteSet(s)
    BY <1>0, Picked, FS_Subset
  <2> QED BY <2>1, FS_CardinalityType, FS_RemoveElement DEF Sized
<1>1. Right(0)
  <2> DEFINE g == [s \in SUBSET S |-> 0]
  <2>1. ASSUME NEW s \in SUBSET S, Cardinality(s) <= 0 PROVE s = {}
    BY <2>1, FS_Subset, FS_EmptySet, FS_CardinalityType
  <2>2. g \in [SUBSET S -> Nat] /\ \A s \in SUBSET S : Cardinality(s) <= 0 => g[s] = Step(g, s)
    BY <2>1
  <2> QED BY <2>2
<1>2. ASSUME NEW n \in Nat, Right(n) PROVE Right(n + 1)
  <2>1. PICK g \in [SUBSET S -> Nat] :
          \A s \in SUBSET S : Cardinality(s) <= n => g[s] = Step(g, s)
    BY <1>2
  <2> DEFINE h == [s \in SUBSET S |-> Step(g, s)]
  <2>2. h \in [SUBSET S -> Nat]
    <3>1. ASSUME NEW s \in SUBSET S PROVE Step(g, s) \in Nat
      <4>1. CASE s = {}
        BY <4>1
      <4>2. CASE s # {}
        <5>1. g[s \ {Pick(s)}] \in Nat
          BY <1>0, <4>2
        <5>2. v[Pick(s)].size \in Nat
          BY <1>0, <4>2
        <5>3. Step(g, s) = v[Pick(s)].size + g[s \ {Pick(s)}]
          BY <4>2
        <5> HIDE DEF Step
        <5> QED BY <5>1, <5>2, <5>3
      <4> QED BY <4>1, <4>2
    <3> HIDE DEF Step
    <3> QED BY <3>1
  <2>3. ASSUME NEW s \in SUBSET S, Cardinality(s) <= n + 1 PROVE h[s] = Step(h, s)
    <3>1. CASE s = {}
      BY <3>1
    <3>2. CASE s # {}
      <4> DEFINE r == s \ {Pick(s)}
      <4>1. r \in SUBSET S /\ Cardinality(r) <= n
        BY <1>0, <2>3, <3>2
      <4>2. g[r] = Step(g, r) /\ h[r] = Step(g, r) /\ h[s] = Step(g, s)
        <5> HIDE DEF r, Step
        <5> QED BY <2>1, <4>1
      <4>3. Step(g, s) = v[Pick(s)].size + g[r] /\ Step(h, s) = v[Pick(s)].size + h[r]
        <5> HIDE DEF h
        <5> QED BY <3>2
      <4> HIDE DEF h, r, Step
      <4> QED BY <4>2, <4>3
    <3> QED BY <3>1, <3>2
  <2> HIDE DEF h, Step
  <2> QED BY <2>2, <2>3
<1>3. \A n \in Nat : Right(n)
  <2> HIDE DEF Right
  <2> SUFFICES ASSUME Wrong # {} PROVE FALSE
    OBVIOUS
  <2>1. PICK n \in Wrong : \A m \in Wrong : ~(m < n)
    BY LeastNatural
  <2>2. n # 0 /\ n - 1 \in Nat
    BY <1>1
  <2>3. Right(n - 1)
    BY <2>1, <2>2
  <2>4. Right((n - 1) + 1)
    BY <1>2, <2>2, <2>3
  <2> QED BY <2>2, <2>4
<1>4. Cardinality(S) \in Nat /\ \A s \in SUBSET S : Cardinality(s) <= Cardinality(S)
  BY FS_CardinalityType, FS_Subset
<1>5. PICK g \in [SUBSET S -> Nat] : \A s \in SUBSET S : g[s] = Step(g, s)
  <2> HIDE DEF Step
  <2> QED BY <1>3, <1>4
<1>6. Sums(g, v, S)
  <2>1. g = [s \in SUBSET S |-> g[s]]
    BY <1>5
  <2> QED BY <1>5, <2>1 DEF Sums
<1> QED BY <1>6

(* A recursion of this kind for one set gives the sums of its subsets.      *)
LEMMA SumsStep ==
  ASSUME NEW S, NEW v, NEW it, Sums(it, v, S), NEW s \in SUBSET S
  PROVE  it[s] = IF s = {} THEN 0 ELSE v[Pick(s)].size + it[s \ {Pick(s)}]
<1> DEFINE F(r) == IF r = {} THEN 0 ELSE v[Pick(r)].size + it[r \ {Pick(r)}]
<1>1. it = [r \in SUBSET S |-> F(r)]
  BY DEF Sums
<1>2. it[s] = F(s)
  <2> HIDE DEF F
  <2> QED BY <1>1
<1> QED BY <1>2

LEMMA SumsAgree ==
  ASSUME NEW S, IsFiniteSet(S), NEW v, NEW it, Sums(it, v, S),
         NEW U \in SUBSET S, NEW iu, Sums(iu, v, U)
  PROVE  it[U] = iu[U]
<1> DEFINE Wrong == {n \in Nat : \E s \in SUBSET U : Cardinality(s) = n /\ it[s] # iu[s]}
<1>0. ASSUME NEW s \in SUBSET U PROVE Cardinality(s) \in Nat /\ IsFiniteSet(s)
  BY FS_Subset, FS_CardinalityType
<1>1. SUFFICES Wrong = {}
  <2>1. U \in SUBSET U
    OBVIOUS
  <2> QED BY <1>0, <2>1
<1>2. SUFFICES ASSUME Wrong # {} PROVE FALSE
  OBVIOUS
<1>3. PICK n \in Wrong : \A m \in Wrong : ~(m < n)
  <2>1. Wrong \in SUBSET Nat
    OBVIOUS
  <2> HIDE DEF Wrong
  <2> QED BY <1>2, <2>1, LeastNatural
<1>4. PICK s \in SUBSET U : Cardinality(s) = n /\ it[s] # iu[s]
  OBVIOUS
<1>5. s # {}
  <2> SUFFICES ASSUME s = {} PROVE FALSE
    OBVIOUS
  <2> QED BY <1>4, SumsStep
<1>6. PICK r \in SUBSET U : r = s \ {Pick(s)}
  OBVIOUS
<1>7. it[r] = iu[r]
  <2>1. n \in Nat /\ Cardinality(r) = n - 1 /\ Cardinality(r) \in Nat
    BY <1>0, <1>4, <1>5, <1>6, Picked, FS_RemoveElement
  <2>2. Cardinality(r) \notin Wrong
    <3>1. Cardinality(r) < n
      BY <2>1
    <3> HIDE DEF Wrong
    <3> QED BY <1>3, <3>1
  <2> QED BY <2>1, <2>2
<1>8. it[s] = v[Pick(s)].size + it[r] /\ iu[s] = v[Pick(s)].size + iu[r]
  <2>1. s \in SUBSET S
    OBVIOUS
  <2> QED BY <1>5, <1>6, <2>1, SumsStep
<1> QED BY <1>4, <1>7, <1>8

LEMMA SumSums ==
  ASSUME NEW S, IsFiniteSet(S), NEW v, Sized(v, S)
  PROVE  \E it : Sums(it, v, S) /\ \A U \in SUBSET S : Sum(v, U) = it[U]
<1>1. PICK it : Sums(it, v, S) /\ it = CHOOSE i : Sums(i, v, S)
  BY SumsExist
<1>2. ASSUME NEW U \in SUBSET S PROVE Sum(v, U) = it[U]
  <2>1. IsFiniteSet(U) /\ Sized(v, U)
    BY FS_Subset DEF Sized
  <2>2. PICK iu : Sums(iu, v, U) /\ iu = CHOOSE i : Sums(i, v, U)
    BY <2>1, SumsExist
  <2>3. it[U] = iu[U]
    BY <1>1, <2>2, SumsAgree
  <2> QED BY <2>2, <2>3 DEF Sum
<1> QED BY <1>1, <1>2

(* An empty set sums to zero, another to one of its elements and the rest.  *)
LEMMA SumPicks ==
  ASSUME NEW S, IsFiniteSet(S), NEW v, Sized(v, S)
  PROVE  Sum(v, S) = IF S = {} THEN 0 ELSE v[Pick(S)].size + Sum(v, S \ {Pick(S)})
<1>1. PICK it : Sums(it, v, S) /\ \A U \in SUBSET S : Sum(v, U) = it[U]
  BY SumSums
<1>2. S \in SUBSET S /\ S \ {Pick(S)} \in SUBSET S
  OBVIOUS
<1> QED BY <1>1, <1>2, SumsStep

LEMMA SumAny ==
  ASSUME NEW S, IsFiniteSet(S), NEW v, Sized(v, S)
  PROVE  Sum(v, S) \in Nat /\ \A x \in S : Sum(v, S) = v[x].size + Sum(v, S \ {x})
<1> DEFINE Fine(s) == Sum(v, s) \in Nat /\ \A x \in s : Sum(v, s) = v[x].size + Sum(v, s \ {x})
           Wrong == {n \in Nat : \E s \in SUBSET S : Cardinality(s) = n /\ ~Fine(s)}
<1>0. ASSUME NEW s \in SUBSET S
      PROVE  Cardinality(s) \in Nat /\ IsFiniteSet(s) /\ Sized(v, s)
  BY FS_Subset, FS_CardinalityType DEF Sized
<1>1. SUFFICES Wrong = {}
  <2>1. S \in SUBSET S
    OBVIOUS
  <2>2. Fine(S)
    <3> HIDE DEF Fine
    <3> QED BY <1>0, <2>1
  <2> QED BY <2>2
<1>2. SUFFICES ASSUME Wrong # {} PROVE FALSE
  OBVIOUS
<1>3. PICK n \in Wrong : \A m \in Wrong : ~(m < n)
  <2>1. Wrong \in SUBSET Nat
    OBVIOUS
  <2> HIDE DEF Wrong
  <2> QED BY <1>2, <2>1, LeastNatural
<1>4. PICK s \in SUBSET S : Cardinality(s) = n /\ ~Fine(s)
  OBVIOUS
<1>5. ASSUME NEW r \in SUBSET s, r # s PROVE Fine(r)
  <2>1. r \in SUBSET S /\ Cardinality(r) < Cardinality(s) /\ Cardinality(r) \in Nat
    BY <1>0, <1>5, FS_Subset
  <2>2. Cardinality(r) \notin Wrong
    <3> HIDE DEF Wrong
    <3> QED BY <1>3, <1>4, <2>1
  <2> HIDE DEF Fine
  <2> QED BY <2>1, <2>2
<1>6. s # {}
  <2>1. ASSUME s = {} PROVE Fine(s)
    <3>1. Sum(v, s) = 0
      BY <1>0, <2>1, SumPicks
    <3> QED BY <2>1, <3>1
  <2> HIDE DEF Fine
  <2> QED BY <1>4, <2>1
<1>7. PICK p : p = Pick(s) /\ p \in s
  BY <1>6, Picked
<1>8. Sum(v, s) = v[p].size + Sum(v, s \ {p})
  BY <1>0, <1>6, <1>7, SumPicks
<1>9. Sum(v, s) \in Nat
  <2>1. Sum(v, s \ {p}) \in Nat
    BY <1>5, <1>7
  <2>2. v[p].size \in Nat
    BY <1>7 DEF Sized
  <2> QED BY <1>8, <2>1, <2>2
<1>10. ASSUME NEW x \in s PROVE Sum(v, s) = v[x].size + Sum(v, s \ {x})
  <2>1. CASE x = p
    BY <1>8, <2>1
  <2>2. CASE x # p
    <3>1. PICK r : r = s \ {x, p}
      OBVIOUS
    <3>2. (s \ {p}) \ {x} = r /\ (s \ {x}) \ {p} = r
      BY <3>1
    <3>3. x \in s \ {p} /\ p \in s \ {x}
      BY <1>7, <2>2
    <3>4. Sum(v, s \ {p}) = v[x].size + Sum(v, r)
      BY <1>5, <1>7, <3>2, <3>3
    <3>5. Sum(v, s \ {x}) = v[p].size + Sum(v, r)
      BY <1>5, <3>2, <3>3
    <3>6. Sum(v, r) \in Nat
      BY <1>5, <1>7, <3>1
    <3>7. v[x].size \in Nat /\ v[p].size \in Nat
      BY <1>7 DEF Sized
    <3> QED BY <1>8, <3>4, <3>5, <3>6, <3>7
  <2> QED BY <2>1, <2>2
<1> QED BY <1>4, <1>9, <1>10

(* A larger set of larger sizes sums to no less.                            *)
LEMMA SumGrows ==
  ASSUME NEW T, IsFiniteSet(T), NEW S \in SUBSET T, NEW u, NEW v, Sized(u, S), Sized(v, T),
         \A x \in S : u[x].size <= v[x].size
  PROVE  Sum(u, S) <= Sum(v, T)
<1> DEFINE Q == {s \in SUBSET T : Sum(u, S \cap s) <= Sum(v, s)}
<1>0. ASSUME NEW s \in SUBSET T
      PROVE  /\ IsFiniteSet(s) /\ IsFiniteSet(S \cap s) /\ Sized(v, s) /\ Sized(u, S \cap s)
             /\ Sum(v, s) \in Nat /\ Sum(u, S \cap s) \in Nat
  <2>1. IsFiniteSet(s) /\ IsFiniteSet(S \cap s) /\ Sized(v, s) /\ Sized(u, S \cap s)
    BY FS_Subset DEF Sized
  <2> QED BY <2>1, SumAny
<1>1. {} \in Q
  <2>1. S \cap {} = {}
    OBVIOUS
  <2>2. Sum(u, {}) = 0 /\ Sum(v, {}) = 0
    BY FS_EmptySet, SumPicks DEF Sized
  <2> QED BY <2>1, <2>2
<1>2. ASSUME NEW s \in Q, NEW x \in T \ s PROVE s \cup {x} \in Q
  <2>1. PICK t \in SUBSET T : t = s \cup {x}
    OBVIOUS
  <2>2. t \ {x} = s /\ x \in t
    BY <2>1
  <2>3. Sum(v, t) = v[x].size + Sum(v, s) /\ v[x].size \in Nat
    BY <1>0, <2>2, SumAny DEF Sized
  <2>4. CASE x \in S
    <3>1. (S \cap t) \ {x} = S \cap s /\ x \in S \cap t
      BY <2>1, <2>4
    <3>2. Sum(u, S \cap t) = u[x].size + Sum(u, S \cap s) /\ u[x].size \in Nat
      <4>1. PICK r \in SUBSET T : r = S \cap t
        OBVIOUS
      <4>2. IsFiniteSet(r) /\ Sized(u, r) /\ x \in r
        BY <1>0, <3>1, <4>1
      <4>3. Sum(u, r) = u[x].size + Sum(u, r \ {x}) /\ u[x].size \in Nat
        BY <4>2, SumAny DEF Sized
      <4> QED BY <3>1, <4>1, <4>3
    <3>3. u[x].size <= v[x].size /\ Sum(u, S \cap s) <= Sum(v, s)
      BY <2>4
    <3>4. Sum(u, S \cap s) \in Nat /\ Sum(v, s) \in Nat
      BY <1>0
    <3>5. Sum(u, S \cap t) <= Sum(v, t)
      BY <2>3, <3>2, <3>3, <3>4
    <3> QED BY <2>1, <3>5
  <2>5. CASE x \notin S
    <3>1. S \cap t = S \cap s
      BY <2>1, <2>5
    <3>2. Sum(u, S \cap s) <= Sum(v, s) /\ Sum(u, S \cap s) \in Nat /\ Sum(v, s) \in Nat
      BY <1>0
    <3>3. PICK k \in Nat : k = Sum(v, s)
      BY <3>2
    <3>4. Sum(u, S \cap s) <= v[x].size + k
      BY <2>3, <3>2, <3>3
    <3>5. Sum(u, S \cap t) <= Sum(v, t)
      BY <2>3, <3>1, <3>3, <3>4
    <3> QED BY <2>1, <3>5
  <2> QED BY <2>4, <2>5
<1>3. T \in Q
  <2>1. Q \in SUBSET (SUBSET T)
    OBVIOUS
  <2> HIDE DEF Q
  <2> QED BY <1>1, <1>2, <2>1, GrowsToAll
<1>4. S \cap T = S
  OBVIOUS
<1> QED BY <1>3, <1>4
-----------------------------------------------------------------------------
(* Capacity. Types first. A workspace whose row exists has one of the sizes,   *)
(* and only such workspaces have tasks, messages and requests but to create.   *)
Ops == {"start", "resume", "update", "stop"}
QemuRows == [status : {"none", "creating", "running", "stopped", "failed"},
             op : Ops \cup {"none"}, size : Sizes \cup {0}]
QemuRequests == [kind : Ops \cup {"create", "save", "save and apply"}, ws : Workspaces, size : Sizes]
QemuTasks == [kind : Ops \cup {"resize"}, ws : Workspaces, size : Sizes \cup {0}]
Machines == [state : {"none", "running", "stopped"}, size : Sizes \cup {0}]
QemuMessages == [kind : {"created", "resumed", "updated", "stopped", "error", "beat"},
             ws : Workspaces \cup {"none"}, of : Ops \cup {"resize", "none"}, up : SUBSET Workspaces]

Made(w) == w \in Workspaces /\ row[w].status # "none"

RowsTyped == row \in [Workspaces -> QemuRows] /\ \A w \in Workspaces : Made(w) => row[w].size \in Sizes
RequestsTyped ==
  /\ request \in [Users -> QemuRequests \cup {Qemu!NoRequest}]
  /\ \A u \in Users : request[u].kind \notin {"none", "create"} => Made(request[u].ws)
TasksTyped == tasks \subseteq QemuTasks /\ \A t \in tasks : Made(t.ws)
MachinesTyped == vm \in [Workspaces -> Machines]
MessagesTyped ==
  uplink \in Seq(QemuMessages) /\ \A i \in DOMAIN uplink : uplink[i].kind # "beat" => Made(uplink[i].ws)
MarksTyped == idle \subseteq Workspaces /\ active \subseteq Workspaces /\ stops \subseteq Workspaces
CountsTyped == capInputs \in 0..MaxInputs /\ faults \in 0..MaxFaults /\ capRaced \in BOOLEAN
QemuTyped == RowsTyped /\ RequestsTyped /\ TasksTyped /\ MachinesTyped /\ MessagesTyped /\ MarksTyped
             /\ CountsTyped

LEMMA QemuFinite == Qemu!CapacityAssumption => IsFiniteSet(Workspaces)
BY DEF Qemu!CapacityAssumption, Qemu!IsFiniteSet, IsFiniteSet

LEMMA QemuTypes == QemuTyped => Qemu!TypeOK
BY DEF QemuTyped, RowsTyped, RequestsTyped, TasksTyped, MachinesTyped, MarksTyped, CountsTyped,
       Qemu!TypeOK, Ops, QemuRows, QemuRequests, QemuTasks, Machines, Qemu!NoRequest

LEMMA QemuBegins == Qemu!CapacityAssumption /\ Qemu!Init => QemuTyped
<1> SUFFICES ASSUME Qemu!CapacityAssumption, Qemu!Init PROVE QemuTyped
  OBVIOUS
<1> USE DEF Qemu!Init, Qemu!CapacityAssumption
<1>1. RowsTyped
  BY DEF RowsTyped, QemuRows, Ops, Qemu!Blank, Made
<1>2. RequestsTyped /\ TasksTyped
  BY DEF RequestsTyped, TasksTyped, Qemu!NoRequest, Made
<1>3. MachinesTyped
  BY DEF MachinesTyped, Machines, Qemu!Blank
<1>4. MessagesTyped
  BY DEF MessagesTyped
<1>5. MarksTyped
  BY DEF MarksTyped
<1>6. CountsTyped
  <2>1. capInputs \in 0..MaxInputs /\ faults \in 0..MaxFaults
    BY SMT
  <2>2. capRaced \in BOOLEAN
    BY Zenon
  <2> QED BY <2>1, <2>2 DEF CountsTyped
<1> QED BY <1>1, <1>2, <1>3, <1>4, <1>5, <1>6 DEF QemuTyped

(* A row that exists goes on to exist.                                         *)
Stay == \A w \in Workspaces : Made(w) => row'[w].status # "none"

LEMMA RestTyped ==
  ASSUME QemuTyped, Stay
  PROVE  /\ UNCHANGED request => RequestsTyped'
         /\ UNCHANGED tasks => TasksTyped'
         /\ UNCHANGED uplink => MessagesTyped'
         /\ UNCHANGED vm => MachinesTyped'
         /\ UNCHANGED <<idle, active, stops>> => MarksTyped'
         /\ UNCHANGED <<capInputs, faults, capRaced>> => CountsTyped'
<1>1. ASSUME UNCHANGED request PROVE RequestsTyped'
  BY <1>1 DEF QemuTyped, RequestsTyped, Stay, Made, Qemu!NoRequest
<1>2. ASSUME UNCHANGED tasks PROVE TasksTyped'
  BY <1>2 DEF QemuTyped, TasksTyped, Stay, Made
<1>3. ASSUME UNCHANGED uplink PROVE MessagesTyped'
  BY <1>3 DEF QemuTyped, MessagesTyped, Stay, Made
<1>4. UNCHANGED vm => MachinesTyped'
  BY DEF QemuTyped, MachinesTyped
<1>5. UNCHANGED <<idle, active, stops>> => MarksTyped'
  BY DEF QemuTyped, MarksTyped
<1>6. UNCHANGED <<capInputs, faults, capRaced>> => CountsTyped'
  BY DEF QemuTyped, CountsTyped
<1> QED BY <1>1, <1>2, <1>3, <1>4, <1>5, <1>6

LEMMA RowsSame == QemuTyped /\ UNCHANGED row => RowsTyped' /\ Stay
BY DEF QemuTyped, RowsTyped, Stay, Made

LEMMA Counted == ASSUME NEW m \in Nat, NEW k \in 0..m, k < m PROVE k + 1 \in 0..m
OBVIOUS

LEMMA AskTyped ==
  ASSUME Qemu!CapacityAssumption, QemuTyped, NEW u \in Users, NEW w \in Workspaces,
         Qemu!AskResume(u, w) \/ Qemu!AskStop(u, w)
         \/ \E size \in Sizes : Qemu!AskCreate(u, w, size) \/ Qemu!AskResize(u, w, size)
  PROVE  QemuTyped'
<1>1. PICK what \in {"create", "resume", "save and apply", "save", "stop"}, size \in Sizes :
        Qemu!Ask(u, what, w, size) /\ (what # "create" => Made(w))
  BY DEF QemuTyped, RowsTyped, QemuRows, Made, Qemu!AskResume, Qemu!AskStop, Qemu!AskCreate,
         Qemu!AskResize
<1>2. RowsTyped' /\ Stay
  BY <1>1, RowsSame DEF Qemu!Ask
<1>3. RequestsTyped'
  <2>1. request' = [request EXCEPT ![u] = [kind |-> what, ws |-> w, size |-> size]] /\ row' = row
    BY <1>1 DEF Qemu!Ask
  <2>2. [kind |-> what, ws |-> w, size |-> size] \in QemuRequests
    BY DEF QemuRequests, Ops
  <2>3. request' \in [Users -> QemuRequests \cup {Qemu!NoRequest}]
    BY <2>1, <2>2 DEF QemuTyped, RequestsTyped
  <2>4. ASSUME NEW v \in Users PROVE request'[v].kind \notin {"none", "create"} => Made(request[v].ws)' 
    BY <1>1, <2>1 DEF QemuTyped, RequestsTyped, Made
  <2> QED BY <2>3, <2>4 DEF RequestsTyped, Qemu!NoRequest
<1>4. MarksTyped'
  BY <1>1 DEF QemuTyped, MarksTyped, Qemu!Ask
<1>5. CountsTyped'
  <2>1. capInputs' \in 0..MaxInputs /\ faults' \in 0..MaxFaults
    <3>1. capInputs < MaxInputs /\ capInputs' = capInputs + 1 /\ faults' = faults
      BY <1>1 DEF Qemu!Ask
    <3>2. MaxInputs \in Nat /\ MaxFaults \in Nat
      BY DEF Qemu!CapacityAssumption
    <3>3. capInputs \in 0..MaxInputs /\ faults \in 0..MaxFaults
      BY Zenon DEF QemuTyped, CountsTyped
    <3>4. capInputs + 1 \in 0..MaxInputs
      BY <3>1, <3>2, <3>3, Counted
    <3> QED BY <3>1, <3>3, <3>4, Zenon
  <2>2. capRaced' \in BOOLEAN
    BY <1>1, Zenon DEF QemuTyped, CountsTyped, Qemu!Ask
  <2> QED BY <2>1, <2>2 DEF CountsTyped
<1> QED BY <1>1, <1>2, <1>3, <1>4, <1>5, RestTyped DEF QemuTyped, Qemu!Ask

(* A row that changes keeps its type, and a row that exists goes on to exist.  *)
LEMMA RowWritten ==
  ASSUME QemuTyped, NEW w \in Workspaces, NEW r \in QemuRows, r.status # "none", r.size \in Sizes,
         row' = [row EXCEPT ![w] = r]
  PROVE  RowsTyped' /\ Stay
<1>1. row' \in [Workspaces -> QemuRows]
  BY DEF QemuTyped, RowsTyped
<1>2. ASSUME NEW v \in Workspaces PROVE row'[v] = IF v = w THEN r ELSE row[v]
  BY DEF QemuTyped, RowsTyped
<1> QED BY <1>1, <1>2 DEF QemuTyped, RowsTyped, Stay, Made

LEMMA RequestStepTyped ==
  ASSUME Qemu!CapacityAssumption, QemuTyped, Qemu!RequestStep
  PROVE  QemuTyped'
<1>1. PICK u \in Users : Qemu!Create(u) \/ Qemu!Save(u) \/ Qemu!Dispatch(u)
  BY DEF Qemu!RequestStep
<1>2. PICK r \in QemuRequests : r = request[u]
  <2>1. request[u].kind # "none"
    BY <1>1 DEF Qemu!Create, Qemu!Save, Qemu!Dispatch
  <2>2. request[u] \in QemuRequests \cup {Qemu!NoRequest}
    BY DEF QemuTyped, RequestsTyped
  <2> QED BY <2>1, <2>2 DEF Qemu!NoRequest
<1>3. r.ws \in Workspaces /\ r.size \in Sizes
  BY DEF QemuRequests
<1>4. row[r.ws] \in QemuRows /\ (r.kind # "create" => Made(r.ws) /\ row[r.ws].size \in Sizes)
  <2>1. r.kind # "none"
    BY DEF QemuRequests, Ops
  <2> QED BY <1>2, <1>3, <2>1 DEF QemuTyped, RequestsTyped, RowsTyped
<1>5. UNCHANGED <<idle, stops, vm, uplink, capInputs, faults, capRaced, active>>
  BY DEF Qemu!RequestStep
<1>6. ASSUME RowsTyped', Stay, tasks' \subseteq QemuTasks, NEW e \in QemuRequests \cup {Qemu!NoRequest},
             request' = [request EXCEPT ![u] = e], e.kind # "create",
             e.kind # "none" => e.ws = r.ws /\ row'[r.ws].status # "none",
             \A t \in tasks' : t \in tasks \/ (t.ws = r.ws /\ row'[r.ws].status # "none")
      PROVE  QemuTyped'
  <2>1. request' \in [Users -> QemuRequests \cup {Qemu!NoRequest}]
    BY <1>6 DEF QemuTyped, RequestsTyped
  <2>2. ASSUME NEW v \in Users PROVE request'[v] = IF v = u THEN e ELSE request[v]
    BY <1>6 DEF QemuTyped, RequestsTyped
  <2>3. RequestsTyped'
    BY <1>3, <1>6, <2>1, <2>2 DEF RequestsTyped, QemuTyped, Stay, Made, Qemu!NoRequest
  <2>4. TasksTyped'
    BY <1>3, <1>6 DEF TasksTyped, QemuTyped, Stay, Made
  <2> QED BY <1>5, <1>6, <2>3, <2>4, RestTyped DEF QemuTyped
<1>7. CASE Qemu!Create(u)
  <2>1. PICK n \in QemuRows : n = [status |-> "creating", op |-> "start", size |-> r.size]
    BY <1>3 DEF QemuRows, Ops
  <2>2. row' = [row EXCEPT ![r.ws] = n]
    BY <1>2, <1>7, <2>1 DEF Qemu!Create
  <2>3. RowsTyped' /\ Stay /\ row'[r.ws].status # "none"
    BY <1>3, <2>1, <2>2, RowWritten DEF QemuTyped, RowsTyped
  <2>4. PICK e \in QemuRequests : e = [r EXCEPT !.kind = "start"]
    BY DEF QemuRequests, Ops
  <2>5. request' = [request EXCEPT ![u] = e] /\ e.ws = r.ws /\ e.kind = "start" /\ tasks' = tasks
    BY <1>2, <1>7, <2>4 DEF Qemu!Create, QemuRequests
  <2> QED BY <1>6, <2>3, <2>5 DEF QemuTyped, TasksTyped
<1>8. CASE Qemu!Save(u)
  <2>0. r.kind # "create"
    BY <1>2, <1>8 DEF Qemu!Save
  <2>1. PICK n \in QemuRows : n = [row[r.ws] EXCEPT !.size = r.size]
    BY <1>3, <1>4 DEF QemuRows
  <2>2. row' = [row EXCEPT ![r.ws] = n]
    BY <1>2, <1>3, <1>8, <2>1 DEF Qemu!Save, QemuTyped, RowsTyped
  <2>3. RowsTyped' /\ Stay /\ row'[r.ws].status # "none"
    <3>1. n.size \in Sizes /\ n.status # "none"
      BY <1>3, <1>4, <2>0, <2>1 DEF QemuRows, Made
    <3> QED BY <1>3, <2>2, <3>1, RowWritten DEF QemuTyped, RowsTyped
  <2>4. PICK e \in QemuRequests \cup {Qemu!NoRequest} :
          e = IF r.kind = "save" THEN Qemu!NoRequest ELSE [r EXCEPT !.kind = "update"]
    BY DEF QemuRequests, Ops
  <2>5. request' = [request EXCEPT ![u] = e] /\ tasks' = tasks
    BY <1>2, <1>8, <2>4 DEF Qemu!Save
  <2>6. e.kind # "create" /\ (e.kind # "none" => e.ws = r.ws)
    BY <2>4 DEF Qemu!NoRequest, QemuRequests
  <2> QED BY <1>6, <2>3, <2>5, <2>6 DEF QemuTyped, TasksTyped
<1>9. CASE Qemu!Dispatch(u)
  <2>0. r.kind \in Ops
    BY <1>2, <1>9 DEF Qemu!Dispatch, Ops
  <2>1. PICK n \in QemuRows : n = [row[r.ws] EXCEPT !.op = r.kind]
    BY <1>3, <1>4, <2>0 DEF QemuRows
  <2>2. row' = [row EXCEPT ![r.ws] = n]
    BY <1>2, <1>3, <1>9, <2>1 DEF Qemu!Dispatch, QemuTyped, RowsTyped
  <2>3. RowsTyped' /\ Stay /\ row'[r.ws].status # "none"
    <3>1. n.size \in Sizes /\ n.status # "none"
      BY <1>3, <1>4, <2>0, <2>1 DEF QemuRows, Made, Ops
    <3> QED BY <1>3, <2>2, <3>1, RowWritten DEF QemuTyped, RowsTyped
  <2>4. r \in QemuTasks
    BY <2>0 DEF QemuRequests, QemuTasks
  <2>5. request' = [request EXCEPT ![u] = Qemu!NoRequest] /\ tasks' = tasks \cup {r}
    BY <1>2, <1>9 DEF Qemu!Dispatch
  <2>6. Qemu!NoRequest.kind = "none"
    BY DEF Qemu!NoRequest
  <2> QED BY <1>6, <2>3, <2>4, <2>5, <2>6 DEF QemuTyped, TasksTyped
<1> QED BY <1>1, <1>7, <1>8, <1>9

LEMMA AutoStopTyped ==
  ASSUME QemuTyped, NEW w \in Workspaces, Qemu!AutoStop(w)
  PROVE  QemuTyped'
<1>1. stops' \subseteq Workspaces /\ UNCHANGED <<idle, request, vm, uplink, capInputs, faults, capRaced, active>>
  BY DEF Qemu!AutoStop, QemuTyped, MarksTyped
<1>2. MarksTyped'
  BY <1>1 DEF QemuTyped, MarksTyped
<1>3. CASE row[w].status = "running" /\ row[w].op = "none"
  <2>1. PICK n \in QemuRows : n = [row[w] EXCEPT !.op = "stop"]
    BY DEF QemuTyped, RowsTyped, QemuRows, Ops
  <2>2. row' = [row EXCEPT ![w] = n]
    BY <1>3, <2>1 DEF Qemu!AutoStop, QemuTyped, RowsTyped
  <2>3. n.status = "running" /\ n.size \in Sizes
    BY <1>3, <2>1 DEF QemuTyped, RowsTyped, QemuRows, Made
  <2>4. RowsTyped' /\ Stay
    BY <2>2, <2>3, RowWritten
  <2>5. PICK r \in QemuTasks : r = [kind |-> "stop", ws |-> w, size |-> row[w].size]
    BY DEF QemuTyped, RowsTyped, QemuRows, QemuTasks, Ops
  <2>6. tasks' = tasks \cup {r}
    BY <1>3, <2>5 DEF Qemu!AutoStop
  <2>7. TasksTyped'
    <3>1. row'[w].status # "none"
      BY <1>3, <2>4 DEF Stay, Made
    <3> QED BY <2>4, <2>5, <2>6, <3>1 DEF QemuTyped, TasksTyped, Stay, Made
  <2> QED BY <1>1, <1>2, <2>4, <2>7, RestTyped DEF QemuTyped
<1>4. CASE ~(row[w].status = "running" /\ row[w].op = "none")
  <2>1. UNCHANGED <<row, tasks>>
    BY <1>4 DEF Qemu!AutoStop
  <2> QED BY <1>1, <1>2, <2>1, RestTyped, RowsSame DEF QemuTyped
<1> QED BY <1>3, <1>4

LEMMA ActivityTyped ==
  ASSUME Qemu!CapacityAssumption, QemuTyped, Qemu!Activity
  PROVE  QemuTyped'
<1>1. PICK w \in Qemu!Running :
        \/ (Qemu!Touch(w) \/ Qemu!Work(w)) /\ capInputs < MaxInputs /\ capInputs' = capInputs + 1
        \/ Qemu!Elapse(w) /\ UNCHANGED capInputs
  BY DEF Qemu!Activity
<1>2. w \in Workspaces
  BY DEF Qemu!Running
<1>3. UNCHANGED <<row, request, stops, tasks, vm, uplink, faults, capRaced>>
  BY DEF Qemu!Activity
<1>4. MarksTyped'
  BY <1>1, <1>2, <1>3 DEF QemuTyped, MarksTyped, Qemu!Touch, Qemu!Work, Qemu!Elapse
<1>5. CountsTyped'
  <2>1. capInputs' = capInputs \/ (capInputs < MaxInputs /\ capInputs' = capInputs + 1)
    BY <1>1
  <2>2. MaxInputs \in Nat
    BY DEF Qemu!CapacityAssumption
  <2> QED BY <1>3, <2>1, <2>2 DEF QemuTyped, CountsTyped
<1> QED BY <1>3, <1>4, <1>5, RestTyped, RowsSame DEF QemuTyped

(* What the runner does with its tasks and machines.                           *)
LEMMA EndsTyped ==
  ASSUME QemuTyped, UNCHANGED row, NEW t \in tasks,
         NEW what \in {"created", "resumed", "updated", "stopped", "error"}, Qemu!Ends(t, what)
  PROVE  TasksTyped' /\ MessagesTyped'
<1>1. PICK m \in QemuMessages : m = [kind |-> what, ws |-> t.ws, of |-> t.kind, up |-> {}]
  BY DEF QemuTyped, TasksTyped, QemuTasks, QemuMessages
<1>2. uplink' = Append(uplink, m) /\ tasks' = tasks \ {t}
  BY <1>1 DEF Qemu!Ends
<1>3. TasksTyped'
  BY <1>2 DEF QemuTyped, TasksTyped, Made
<1>4. uplink \in Seq(QemuMessages)
  BY DEF QemuTyped, MessagesTyped
<1>5. /\ uplink' \in Seq(QemuMessages) /\ Len(uplink') = Len(uplink) + 1 /\ Len(uplink) \in Nat
      /\ \A i \in 1..Len(uplink) : uplink'[i] = uplink[i]
      /\ uplink'[Len(uplink) + 1] = m
  BY <1>2, <1>4, AppendProperties, LenProperties
<1>6. ASSUME NEW i \in DOMAIN uplink', uplink'[i].kind # "beat" PROVE Made(uplink'[i].ws)
  <2>1. i \in 1..Len(uplink) + 1
    BY <1>5, LenProperties
  <2>2. CASE i = Len(uplink) + 1
    BY <1>1, <1>5, <2>2 DEF QemuTyped, TasksTyped
  <2>3. CASE i # Len(uplink) + 1
    <3>1. i \in 1..Len(uplink) /\ i \in DOMAIN uplink
      BY <1>4, <1>5, <2>1, <2>3, LenProperties
    <3> QED BY <1>5, <1>6, <3>1 DEF QemuTyped, MessagesTyped
  <2> QED BY <2>2, <2>3
<1> QED BY <1>3, <1>5, <1>6 DEF MessagesTyped, Made

LEMMA MachineTyped ==
  ASSUME QemuTyped, NEW w \in Workspaces, NEW state \in {"running", "stopped"},
         NEW size \in Sizes \cup {0}, Qemu!Machine(w, state, size)
  PROVE  MachinesTyped'
<1>1. [state |-> state, size |-> size] \in Machines
  BY DEF Machines
<1> QED BY <1>1 DEF QemuTyped, MachinesTyped, Qemu!Machine

LEMMA TaskFacts ==
  ASSUME QemuTyped, NEW t \in tasks
  PROVE  /\ t \in QemuTasks /\ t.ws \in Workspaces /\ t.size \in Sizes \cup {0} /\ Made(t.ws)
         /\ vm[t.ws] \in Machines /\ vm[t.ws].size \in Sizes \cup {0}
BY DEF QemuTyped, TasksTyped, QemuTasks, MachinesTyped, Machines

LEMMA RunnerStepTyped ==
  ASSUME QemuTyped, Qemu!RunnerStep
  PROVE  QemuTyped'
<1>1. PICK t \in tasks : Qemu!Performs(t) \/ Qemu!Refuses(t) \/ Qemu!Halts(t)
  BY DEF Qemu!RunnerStep
<1>2. UNCHANGED <<row, idle, request, stops, capInputs, faults, capRaced, active>>
  BY DEF Qemu!RunnerStep
<1>3. RowsTyped' /\ Stay /\ RequestsTyped' /\ MarksTyped' /\ CountsTyped'
  BY <1>2, RowsSame, RestTyped
<1>4. CASE Qemu!Performs(t)
  <2>1. PICK what \in {"created", "resumed", "updated", "stopped"} : Qemu!Ends(t, what)
    BY <1>4 DEF Qemu!Performs, Qemu!Told
  <2>2. PICK state \in {"running", "stopped"}, size \in Sizes \cup {0} : Qemu!Machine(t.ws, state, size)
    BY <1>4, TaskFacts DEF Qemu!Performs
  <2> QED BY <1>2, <1>3, <2>1, <2>2, EndsTyped, MachineTyped, TaskFacts DEF QemuTyped
<1>5. CASE Qemu!Refuses(t)
  <2>1. UNCHANGED vm /\ Qemu!Ends(t, "error")
    BY <1>5 DEF Qemu!Refuses
  <2> QED BY <1>2, <1>3, <2>1, EndsTyped, RestTyped DEF QemuTyped
<1>6. CASE Qemu!Halts(t)
  <2>1. Qemu!Machine(t.ws, "stopped", vm[t.ws].size) /\ UNCHANGED uplink
    BY <1>6 DEF Qemu!Halts
  <2>2. PICK r \in QemuTasks : r = [t EXCEPT !.kind = "resize"] /\ r.ws = t.ws
    <3>1. t \in QemuTasks
      BY TaskFacts
    <3>2. [t EXCEPT !.kind = "resize"] \in QemuTasks /\ [t EXCEPT !.kind = "resize"].ws = t.ws
      BY <3>1 DEF QemuTasks
    <3> QED BY <3>2
  <2>3. tasks' = (tasks \ {t}) \cup {r}
    BY <1>6, <2>2 DEF Qemu!Halts
  <2>4. TasksTyped'
    BY <1>2, <2>2, <2>3 DEF QemuTyped, TasksTyped, Made
  <2> QED BY <1>3, <2>1, <2>4, MachineTyped, TaskFacts, RestTyped DEF QemuTyped
<1> QED BY <1>1, <1>4, <1>5, <1>6

LEMMA FaultTyped ==
  ASSUME Qemu!CapacityAssumption, QemuTyped, Qemu!Fault
  PROVE  QemuTyped'
<1>1. UNCHANGED <<row, idle, request, stops, capInputs, active>>
  BY DEF Qemu!Fault
<1>2. RowsTyped' /\ Stay /\ RequestsTyped' /\ MarksTyped'
  BY <1>1, RowsSame, RestTyped
<1>3. capRaced' \in BOOLEAN
  <2>1. CASE \E t \in tasks : Qemu!Fails(t)
    BY <2>1 DEF Qemu!Fails
  <2>2. CASE \E w \in Workspaces : Qemu!PowerOff(w)
    BY <2>2 DEF Qemu!PowerOff, QemuTyped, CountsTyped
  <2> QED BY <2>1, <2>2 DEF Qemu!Fault
<1>4. CountsTyped'
  <2>1. faults < MaxFaults /\ faults' = faults + 1 /\ capInputs' = capInputs
    BY DEF Qemu!Fault
  <2>2. MaxFaults \in Nat
    BY DEF Qemu!CapacityAssumption
  <2>3. capInputs \in 0..MaxInputs /\ faults \in 0..MaxFaults
    BY Zenon DEF QemuTyped, CountsTyped
  <2>4. capInputs' \in 0..MaxInputs /\ faults' \in 0..MaxFaults
    BY <2>1, <2>2, <2>3
  <2> QED BY <1>3, <2>4 DEF CountsTyped
<1>5. CASE \E t \in tasks : Qemu!Fails(t)
  <2>1. PICK t \in tasks : Qemu!Fails(t)
    BY <1>5
  <2>2. TasksTyped' /\ MessagesTyped'
    BY <1>1, <2>1, EndsTyped DEF Qemu!Fails
  <2>3. MachinesTyped'
    BY <1>2, <2>1, RestTyped, MachineTyped, TaskFacts DEF Qemu!Fails
  <2> QED BY <1>2, <1>4, <2>2, <2>3 DEF QemuTyped
<1>6. CASE \E w \in Workspaces : Qemu!PowerOff(w)
  <2>1. PICK w \in Workspaces : Qemu!PowerOff(w)
    BY <1>6
  <2>2. vm[w].size \in Sizes \cup {0}
    BY DEF QemuTyped, MachinesTyped, Machines
  <2>3. MachinesTyped'
    BY <2>1, <2>2, MachineTyped DEF Qemu!PowerOff
  <2> QED BY <1>2, <1>4, <2>1, <2>3, RestTyped DEF QemuTyped, Qemu!PowerOff
<1> QED BY <1>5, <1>6 DEF Qemu!Fault

LEMMA BeatTyped ==
  ASSUME QemuTyped, Qemu!Beat
  PROVE  QemuTyped'
<1>1. PICK m \in QemuMessages : /\ m = [kind |-> "beat", ws |-> "none", of |-> "none",
                                    up |-> {w \in Workspaces : vm[w].state = "running"}]
                            /\ m.kind = "beat"
  <2>1. PICK up \in SUBSET Workspaces : up = {w \in Workspaces : vm[w].state = "running"}
    OBVIOUS
  <2>2. [kind |-> "beat", ws |-> "none", of |-> "none", up |-> up] \in QemuMessages
    BY DEF QemuMessages
  <2> QED BY <2>1, <2>2
<1>2. uplink' = Append(uplink, m) /\ uplink \in Seq(QemuMessages)
  BY <1>1 DEF Qemu!Beat, QemuTyped, MessagesTyped
<1>3. /\ uplink' \in Seq(QemuMessages) /\ Len(uplink') = Len(uplink) + 1 /\ Len(uplink) \in Nat
      /\ \A i \in 1..Len(uplink) : uplink'[i] = uplink[i]
      /\ uplink'[Len(uplink) + 1] = m
  BY <1>2, AppendProperties, LenProperties
<1>4. UNCHANGED row
  BY DEF Qemu!Beat
<1>5. ASSUME NEW i \in DOMAIN uplink', uplink'[i].kind # "beat" PROVE Made(uplink'[i].ws)
  <2>1. i \in 1..Len(uplink) + 1
    BY <1>3, LenProperties
  <2>2. i # Len(uplink) + 1
    BY <1>1, <1>3, <1>5
  <2>3. i \in 1..Len(uplink) /\ i \in DOMAIN uplink
    BY <1>2, <1>3, <2>1, <2>2, LenProperties
  <2> QED BY <1>3, <1>5, <2>3 DEF QemuTyped, MessagesTyped
<1>6. MessagesTyped'
  BY <1>3, <1>4, <1>5 DEF MessagesTyped, Made
<1> QED BY <1>6, RowsSame, RestTyped DEF QemuTyped, Qemu!Beat

(* The handlers change what a row says, not its size.                          *)
LEMMA RowsHandled ==
  ASSUME QemuTyped, Qemu!Handle
  PROVE  /\ RowsTyped' /\ Stay /\ stops' \subseteq Workspaces
         /\ \A w \in Workspaces : row'[w].size = row[w].size
<1>1. uplink \in Seq(QemuMessages) /\ row \in [Workspaces -> QemuRows]
  BY DEF QemuTyped, MessagesTyped, RowsTyped
<1>2. CASE Qemu!OnEnd
  <2>1. PICK m \in QemuMessages : m = Head(uplink) /\ m.kind # "beat" /\ Made(m.ws)
    <3>1. uplink # <<>> /\ Head(uplink).kind # "beat"
      BY <1>2 DEF Qemu!OnEnd
    <3>2. 1 \in DOMAIN uplink /\ Head(uplink) = uplink[1] /\ Head(uplink) \in QemuMessages
      BY <1>1, <3>1, HeadTailProperties, EmptySeq, LenProperties
    <3> QED BY <3>1, <3>2 DEF QemuTyped, MessagesTyped
  <2>2. row[m.ws] \in QemuRows /\ row[m.ws].size \in Sizes /\ row[m.ws].status # "none" /\ m.ws \in Workspaces
    BY <1>1, <2>1 DEF QemuTyped, RowsTyped, Made
  <2>3. PICK said : said = IF m.kind \in DOMAIN Qemu!Status THEN Qemu!Status[m.kind]
                               ELSE IF m.kind = "error" /\ m.of = "start" THEN "failed"
                               ELSE row[m.ws].status
    OBVIOUS
  <2>4. said \in {"creating", "running", "stopped", "failed"}
    BY <2>2, <2>3 DEF QemuRows, Qemu!Status
  <2>5. PICK n \in QemuRows : n = [row[m.ws] EXCEPT !.op = "none", !.status = said]
                              /\ n.size = row[m.ws].size /\ n.status = said
    <3>1. PICK o : o = row[m.ws]
      OBVIOUS
    <3>2. o \in QemuRows
      BY <2>2, <3>1
    <3>3. [o EXCEPT !.op = "none", !.status = said] \in QemuRows
      BY <2>4, <3>2 DEF QemuRows
    <3>4. /\ [o EXCEPT !.op = "none", !.status = said].size = o.size
          /\ [o EXCEPT !.op = "none", !.status = said].status = said
      BY <3>2 DEF QemuRows
    <3> QED BY <3>1, <3>3, <3>4
  <2>6. row' = [row EXCEPT ![m.ws] = n]
    BY <1>1, <1>2, <2>1, <2>2, <2>3, <2>5 DEF Qemu!OnEnd
  <2>7. RowsTyped' /\ Stay
    BY <2>2, <2>4, <2>5, <2>6, RowWritten
  <2> QED BY <1>1, <1>2, <2>2, <2>5, <2>6, <2>7 DEF Qemu!OnEnd, QemuTyped, MarksTyped
<1>3. CASE Qemu!OnBeat
  <2>1. ASSUME NEW w \in Workspaces
        PROVE  /\ row'[w] \in QemuRows /\ row'[w].size = row[w].size
               /\ row'[w].status = "none" <=> row[w].status = "none"
    <3>1. PICK o \in QemuRows : o = row[w]
      BY <1>1
    <3>2. row'[w] = o \/ (o.status \in {"running", "stopped"}
                          /\ \E s \in {"running", "stopped"} : row'[w] = [o EXCEPT !.status = s])
      BY <1>3, <3>1 DEF Qemu!OnBeat
    <3> QED BY <3>1, <3>2 DEF QemuRows
  <2>2. row' \in [Workspaces -> QemuRows]
    <3>1. row' = [w \in Workspaces |-> row'[w]]
      BY <1>3, Zenon DEF Qemu!OnBeat
    <3> QED BY <2>1, <3>1
  <2>3. stops' \subseteq Workspaces
    BY <1>3 DEF Qemu!OnBeat, QemuTyped, MarksTyped
  <2> QED BY <2>1, <2>2, <2>3 DEF QemuTyped, RowsTyped, Stay, Made
<1> QED BY <1>2, <1>3 DEF Qemu!Handle

LEMMA HandleTyped ==
  ASSUME QemuTyped, Qemu!Handle
  PROVE  QemuTyped'
<1>1. RowsTyped' /\ Stay /\ stops' \subseteq Workspaces
  BY RowsHandled
<1>2. UNCHANGED <<idle, request, tasks, vm, capInputs, faults, capRaced, active>>
  BY DEF Qemu!Handle
<1>3. uplink \in Seq(QemuMessages) /\ uplink # <<>> /\ uplink' = Tail(uplink)
  BY DEF QemuTyped, MessagesTyped, Qemu!Handle, Qemu!OnEnd, Qemu!OnBeat
<1>4. /\ uplink' \in Seq(QemuMessages) /\ Len(uplink') = Len(uplink) - 1 /\ Len(uplink) \in Nat
      /\ \A i \in 1..Len(uplink') : uplink'[i] = uplink[i + 1]
  BY <1>3, HeadTailProperties, LenProperties
<1>5. ASSUME NEW i \in DOMAIN uplink', uplink'[i].kind # "beat"
      PROVE  uplink'[i].ws \in Workspaces /\ row'[uplink'[i].ws].status # "none"
  <2>1. i \in 1..Len(uplink') /\ i + 1 \in DOMAIN uplink /\ uplink'[i] = uplink[i + 1]
    BY <1>3, <1>4, LenProperties
  <2>2. Made(uplink[i + 1].ws)
    BY <1>5, <2>1 DEF QemuTyped, MessagesTyped
  <2> QED BY <1>1, <2>1, <2>2 DEF Stay, Made
<1>6. MessagesTyped'
  BY <1>4, <1>5 DEF MessagesTyped, Made
<1>7. MarksTyped'
  BY <1>1, <1>2 DEF QemuTyped, MarksTyped
<1> QED BY <1>1, <1>2, <1>6, <1>7, RestTyped DEF QemuTyped

LEMMA QemuTypedStep ==
  Qemu!CapacityAssumption /\ QemuTyped /\ [Qemu!Next]_(Qemu!vars) => QemuTyped'
<1> SUFFICES ASSUME Qemu!CapacityAssumption, QemuTyped, [Qemu!Next]_(Qemu!vars) PROVE QemuTyped'
  OBVIOUS
<1>1. CASE UNCHANGED Qemu!vars
  BY <1>1, RowsSame, RestTyped DEF Qemu!vars, QemuTyped
<1>2. CASE Qemu!Input
  BY <1>2, AskTyped DEF Qemu!Input
<1>3. CASE \E w \in Workspaces : Qemu!AutoStop(w)
  BY <1>3, AutoStopTyped
<1> QED BY <1>1, <1>2, <1>3, RequestStepTyped, ActivityTyped, RunnerStepTyped, FaultTyped, BeatTyped,
           HandleTyped DEF Qemu!Next
-----------------------------------------------------------------------------
(* Nothing that could start a machine overtakes another such thing, so one     *)
(* request or task at a time has room beside the machines that run.            *)
NonStop(r) == r.kind \notin {"none", "stop"}
Up(w) == vm[w].state = "running"
Ups == {w \in Workspaces : Up(w)}
Room(w, size) == Sum(vm, Ups \ {w}) + size <= Cap

Alone ==
  /\ \A u, v \in Users : NonStop(request[u]) /\ NonStop(request[v]) => u = v
  /\ \A s, t \in tasks : NonStop(s) /\ NonStop(t) => s = t
  /\ \A u \in Users, t \in tasks : ~(NonStop(request[u]) /\ NonStop(t))
Planned(r) ==
  NonStop(r) =>
    /\ r.kind \in {"create", "save"} => ~Up(r.ws)
    /\ r.kind \in {"start", "resume", "update"} => row[r.ws].size = r.size
    /\ Room(r.ws, r.size)
Ordered(t) ==
  NonStop(t) => row[t.ws].size = t.size /\ (t.kind = "resize" => ~Up(t.ws)) /\ Room(t.ws, t.size)
Changing(w) ==
  \/ \E u \in Users : request[u].kind = "update" /\ request[u].ws = w
  \/ \E t \in tasks : t.kind = "update" /\ t.ws = w
SizesShown == \A w \in Workspaces : Up(w) /\ ~Changing(w) => vm[w].size = row[w].size
Fit == Sum(vm, Ups) <= Cap
Unraced == Alone /\ (\A u \in Users : Planned(request[u])) /\ (\A t \in tasks : Ordered(t)) /\ SizesShown /\ Fit
CapInv == QemuTyped /\ (~capRaced => Unraced)

LEMMA MachinesSum == Qemu!MachinesFit <=> Fit
BY DEF Qemu!MachinesFit, Qemu!MapThenSumSet, Qemu!MapThenFoldSet, Fit, Sum, Sums, Pick, Ups, Up

LEMMA RowsSum == ASSUME NEW S PROVE Qemu!Total(S) = Sum(row, S)
BY DEF Qemu!Total, Qemu!MapThenSumSet, Qemu!MapThenFoldSet, Sum, Sums, Pick

LEMMA CapHolds == CapInv => Qemu!CapKeptUnraced /\ Qemu!RunsAsShown
<1>1. CapInv => Qemu!CapKeptUnraced
  BY MachinesSum DEF CapInv, Unraced, Qemu!CapKeptUnraced, Qemu!CapKept
<1>2. CapInv => Qemu!RunsAsShown
  <2> SUFFICES ASSUME CapInv, ~capRaced, tasks = {}, \A u \in Users : request[u] = Qemu!NoRequest,
                      NEW w \in Workspaces, vm[w].state = "running"
               PROVE  vm[w].size = row[w].size
    BY DEF Qemu!RunsAsShown
  <2>1. ~Changing(w)
    BY DEF Changing, Qemu!NoRequest
  <2> QED BY <2>1 DEF CapInv, Unraced, SizesShown, Up
<1> QED BY <1>1, <1>2

LEMMA VmSized ==
  ASSUME Qemu!CapacityAssumption, QemuTyped, NEW S \in SUBSET Workspaces
  PROVE  Sized(vm, S) /\ Sized(row, S) /\ IsFiniteSet(S)
<1>1. Sizes \cup {0} \subseteq Nat
  BY DEF Qemu!CapacityAssumption
<1>2. IsFiniteSet(S)
  BY QemuFinite, FS_Subset
<1>3. Sized(vm, S)
  BY <1>1 DEF QemuTyped, MachinesTyped, Machines, Sized
<1>4. Sized(row, S)
  BY <1>1 DEF QemuTyped, RowsTyped, QemuRows, Sized
<1> QED BY <1>2, <1>3, <1>4

LEMMA CapBegins == Qemu!CapacityAssumption /\ Qemu!Init => CapInv
<1> SUFFICES ASSUME Qemu!CapacityAssumption, Qemu!Init PROVE CapInv
  OBVIOUS
<1>1. QemuTyped
  BY QemuBegins
<1>2. Alone /\ (\A u \in Users : Planned(request[u])) /\ (\A t \in tasks : Ordered(t))
  BY DEF Qemu!Init, Alone, Planned, NonStop, Qemu!NoRequest
<1>3. SizesShown
  BY DEF Qemu!Init, SizesShown
<1>4. Fit
  BY MachinesSum DEF Qemu!Init
<1> QED BY <1>1, <1>2, <1>3, <1>4 DEF CapInv, Unraced

(* Fewer machines of the same sizes leave no less room.                        *)
LEMMA FewerFit ==
  ASSUME Qemu!CapacityAssumption, QemuTyped, QemuTyped', Ups' \subseteq Ups,
         \A w \in Ups' : vm'[w].size = vm[w].size
  PROVE  /\ Fit => Fit'
         /\ \A w \in Workspaces, size \in Nat : Room(w, size) => Sum(vm', Ups' \ {w}) + size <= Cap
<1>1. ASSUME NEW S \in SUBSET Workspaces, NEW T \in SUBSET S, T \subseteq Ups'
      PROVE  Sum(vm', T) <= Sum(vm, S) /\ Sum(vm', T) \in Nat /\ Sum(vm, S) \in Nat
  <2>1. T \in SUBSET Workspaces
    OBVIOUS
  <2>2. Sized(vm, S) /\ Sized(vm, T) /\ IsFiniteSet(S)
    BY <2>1, VmSized
  <2>3. Sized(vm', T) /\ IsFiniteSet(T)
    BY <1>1, <2>1, <2>2, FS_Subset DEF Sized
  <2>4. \A x \in T : vm'[x].size <= vm[x].size
    BY <1>1, <2>2 DEF Sized
  <2> QED BY <2>2, <2>3, <2>4, SumGrows, SumAny
<1>2. Ups \in SUBSET Workspaces /\ Ups' \in SUBSET Ups
  BY DEF Ups
<1>3. Cap \in Nat
  BY DEF Qemu!CapacityAssumption
<1>4. Fit => Fit'
  BY <1>1, <1>2, <1>3 DEF Fit
<1>5. ASSUME NEW w \in Workspaces, NEW size \in Nat, Room(w, size)
      PROVE  Sum(vm', Ups' \ {w}) + size <= Cap
  <2>1. PICK S \in SUBSET Workspaces : S = Ups \ {w}
    BY <1>2
  <2>2. PICK T \in SUBSET S : T = Ups' \ {w}
    BY <1>2, <2>1
  <2>3. T \subseteq Ups'
    BY <2>2
  <2>4. Sum(vm', T) <= Sum(vm, S) /\ Sum(vm', T) \in Nat /\ Sum(vm, S) \in Nat
    BY <1>1, <2>3
  <2>5. Sum(vm, S) + size <= Cap
    BY <1>5, <2>1 DEF Room
  <2> QED BY <1>3, <2>2, <2>4, <2>5
<1> QED BY <1>4, <1>5

LEMMA RequestAt ==
  ASSUME QemuTyped, NEW u \in Users, request[u].kind # "none"
  PROVE  request[u] \in QemuRequests /\ request[u].ws \in Workspaces /\ request[u].size \in Sizes
<1>1. request[u] \in QemuRequests
  BY DEF QemuTyped, RequestsTyped, Qemu!NoRequest
<1> QED BY <1>1 DEF QemuRequests

(* Steps that leave the machines and the sizes alone, and start nothing.       *)
LEMMA QuietKeeps ==
  ASSUME QemuTyped, Unraced, UNCHANGED vm, \A w \in Workspaces : row'[w].size = row[w].size,
         \A u \in Users : NonStop(request'[u]) => request'[u] = request[u],
         \A t \in tasks' : NonStop(t) => t \in tasks,
         \A w \in Workspaces : Changing(w) => Changing(w)'
  PROVE  Unraced'
<1>1. Ups' = Ups /\ Fit' /\ \A w, size : Room(w, size)' <=> Room(w, size)
  BY DEF Unraced, Ups, Up, Fit, Room
<1>2. Alone'
  BY DEF Unraced, Alone
<1>3. ASSUME NEW u \in Users PROVE Planned(request[u])'
  <2>1. CASE NonStop(request'[u])
    <3>1. request'[u] = request[u] /\ NonStop(request[u]) /\ Planned(request[u])
      BY <2>1 DEF Unraced
    <3>2. request[u].ws \in Workspaces
      BY <3>1, RequestAt DEF NonStop
    <3> QED BY <1>1, <3>1, <3>2 DEF Planned, Up, Room
  <2>2. CASE ~NonStop(request'[u])
    BY <2>2 DEF Planned
  <2> QED BY <2>1, <2>2
<1>4. ASSUME NEW t \in tasks' PROVE NonStop(t) => /\ row'[t.ws].size = t.size
                                                  /\ t.kind = "resize" => vm'[t.ws].state # "running"
                                                  /\ Sum(vm', Ups' \ {t.ws}) + t.size <= Cap
  BY <1>1, TaskFacts DEF Unraced, Ordered, Up, Room
<1>5. \A t \in tasks' : Ordered(t)'
  BY <1>4 DEF Ordered, Up, Room, NonStop
<1>6. SizesShown'
  BY DEF Unraced, SizesShown, Up
<1> QED BY <1>1, <1>2, <1>3, <1>5, <1>6 DEF Unraced

AskKinds == {"create", "save", "save and apply", "resume", "stop"}

LEMMA AskKeeps ==
  ASSUME Qemu!CapacityAssumption, CapInv, NEW u \in Users, NEW w \in Workspaces,
         NEW what \in AskKinds, NEW n \in Sizes
  PROVE  /\ Qemu!Ask(u, what, w, n) /\ ~capRaced'
         /\ what # "stop" => Sum(row, Qemu!Running \ {w}) + n <= Cap
         /\ what \in {"create", "save"} => row[w].status # "running"
         /\ what = "resume" => row[w].size = n
         => Unraced'
<1> DEFINE r == [kind |-> what, ws |-> w, size |-> n]
<1>0. SUFFICES ASSUME Qemu!Ask(u, what, w, n), ~capRaced',
                      what # "stop" => Sum(row, Qemu!Running \ {w}) + n <= Cap,
                      what \in {"create", "save"} => row[w].status # "running",
                      what = "resume" => row[w].size = n
               PROVE  Unraced'
  OBVIOUS
<1>1. QemuTyped /\ Unraced
  BY <1>0 DEF CapInv, Qemu!Ask
<1>2. UNCHANGED <<row, tasks, vm>> /\ request[u] = Qemu!NoRequest
  BY <1>0 DEF Qemu!Ask
<1>3. request' = [request EXCEPT ![u] = r]
  BY <1>0 DEF Qemu!Ask
<1>4. ASSUME NEW v \in Users PROVE request'[v] = IF v = u THEN r ELSE request[v]
  <2> HIDE DEF r
  <2> QED BY <1>1, <1>3 DEF QemuTyped, RequestsTyped
<1>5. \A v \in Workspaces : Changing(v) => Changing(v)'
  <2>1. \A v \in Users : request[v].kind = "update" => request'[v] = request[v]
    <3>1. request[u].kind = "none"
      BY <1>2 DEF Qemu!NoRequest
    <3> HIDE DEF r
    <3> QED BY <1>4, <3>1
  <2> QED BY <1>2, <2>1 DEF Changing
<1>6. CASE what = "stop"
  <2>1. \A v \in Users : NonStop(request'[v]) => request'[v] = request[v]
    BY <1>4, <1>6 DEF NonStop
  <2> QED BY <1>1, <1>2, <1>5, <2>1, QuietKeeps
<1>7. CASE what # "stop"
  <2>1. \A v \in Workspaces : ~Qemu!OnItsWay(v)
    BY <1>0, <1>7 DEF Qemu!Ask
  <2>2. \A v \in Users : ~NonStop(request[v])
    BY <1>1, <2>1, RequestAt DEF Qemu!OnItsWay, Qemu!Admitted, NonStop
  <2>3. \A t \in tasks : ~NonStop(t)
    BY <1>1, <2>1, TaskFacts DEF Qemu!OnItsWay, NonStop
  <2>4. Ups \subseteq Qemu!Running
    BY <2>1 DEF Qemu!OnItsWay, Ups, Up, Qemu!Running
  <2>5. \A v \in Ups : vm[v].size = row[v].size
    BY <1>1, <2>2, <2>3 DEF Unraced, SizesShown, Changing, Ups, NonStop
  <2>6. Room(w, n)
    <3>1. PICK S \in SUBSET Workspaces : S = Qemu!Running \ {w}
      BY DEF Qemu!Running
    <3>2. PICK T \in SUBSET S : T = Ups \ {w}
      BY <2>4, <3>1
    <3>3. Sized(vm, T) /\ Sized(row, S) /\ IsFiniteSet(S) /\ Sized(row, T) /\ IsFiniteSet(T)
      BY <1>1, <3>1, <3>2, VmSized
    <3>4. \A x \in T : vm[x].size <= row[x].size
      <4> SUFFICES ASSUME NEW x \in T PROVE vm[x].size <= row[x].size
        OBVIOUS
      <4>1. PICK j \in Nat : j = row[x].size
        BY <3>3 DEF Sized
      <4>2. vm[x].size = j
        BY <2>5, <3>2, <4>1
      <4> QED BY <4>1, <4>2
    <3>5. Sum(vm, T) <= Sum(row, S) /\ Sum(vm, T) \in Nat /\ Sum(row, S) \in Nat
      BY <3>3, <3>4, SumGrows, SumAny
    <3>6. n \in Nat /\ Cap \in Nat
      BY DEF Qemu!CapacityAssumption
    <3>7. Sum(row, S) + n <= Cap
      BY <1>0, <1>7, <3>1
    <3>8. PICK k \in Nat, m \in Nat : k = Sum(vm, T) /\ m = Sum(row, S)
      BY <3>5
    <3>9. k <= m /\ m + n <= Cap
      BY <3>5, <3>7, <3>8
    <3>10. k + n <= Cap
      BY <3>6, <3>9
    <3> QED BY <3>2, <3>8, <3>10 DEF Room
  <2>7. Alone'
    BY <1>2, <1>4, <2>2, <2>3 DEF Alone
  <2>8. Ups' = Ups /\ Fit' /\ \A v, s : Room(v, s)' <=> Room(v, s)
    BY <1>1, <1>2 DEF Unraced, Ups, Up, Fit, Room
  <2>9. ASSUME NEW v \in Users PROVE Planned(request[v])'
    <3>1. CASE v = u
      <4>1. request'[v] = r
        BY <1>4, <3>1
      <4>2. what \in {"create", "save"} => ~Up(w)
        BY <1>0, <2>4 DEF Ups, Qemu!Running
      <4>3. request'[v].kind = what /\ request'[v].ws = w /\ request'[v].size = n
        BY <4>1
      <4>4. Sum(vm', Ups' \ {w}) + n <= Cap
        BY <1>2, <2>6, <2>8 DEF Room
      <4>5. what \in {"create", "save"} => vm'[w].state # "running"
        BY <1>2, <4>2 DEF Up
      <4>6. what \in {"start", "resume", "update"} => row'[w].size = n
        BY <1>0, <1>2 DEF AskKinds
      <4> HIDE DEF r
      <4> QED BY <4>3, <4>4, <4>5, <4>6 DEF Planned, Up, Room
    <3>2. CASE v # u
      BY <1>4, <2>2, <3>2 DEF Planned
    <3> QED BY <3>1, <3>2
  <2>10. \A t \in tasks' : Ordered(t)'
    BY <1>2, <2>3 DEF Ordered, NonStop
  <2>11. SizesShown'
    BY <1>1, <1>2, <1>5 DEF Unraced, SizesShown, Up
  <2> QED BY <2>7, <2>8, <2>9, <2>10, <2>11 DEF Unraced
<1> QED BY <1>6, <1>7

LEMMA InputKeeps ==
  ASSUME Qemu!CapacityAssumption, CapInv, Qemu!Input, ~capRaced'
  PROVE  Unraced'
<1>1. PICK u \in Users, w \in Workspaces :
        \/ Qemu!AskResume(u, w) \/ Qemu!AskStop(u, w)
        \/ \E size \in Sizes : Qemu!AskCreate(u, w, size) \/ Qemu!AskResize(u, w, size)
  BY DEF Qemu!Input
<1>2. row[w].status # "none" => row[w].size \in Sizes
  BY DEF CapInv, QemuTyped, RowsTyped, Made
<1>3. \A S : Qemu!Total(S) = Sum(row, S)
  BY RowsSum
<1>4. CASE Qemu!AskResume(u, w)
  BY <1>2, <1>3, <1>4, AskKeeps DEF AskKinds, Qemu!AskResume, Qemu!Fits
<1>5. CASE Qemu!AskStop(u, w)
  BY <1>2, <1>5, AskKeeps DEF AskKinds, Qemu!AskStop
<1>6. ASSUME NEW size \in Sizes, Qemu!AskCreate(u, w, size) PROVE Unraced'
  BY <1>3, <1>6, AskKeeps DEF AskKinds, Qemu!AskCreate, Qemu!Fits
<1>7. ASSUME NEW size \in Sizes, Qemu!AskResize(u, w, size) PROVE Unraced'
  <2>1. PICK what \in AskKinds :
          what = (IF row[w].status = "running" THEN "save and apply" ELSE "save")
    BY DEF AskKinds
  <2>2. Qemu!Ask(u, what, w, size)
    BY <1>7, <2>1 DEF Qemu!AskResize
  <2>3. Sum(row, Qemu!Running \ {w}) + size <= Cap
    BY <1>3, <1>7 DEF Qemu!AskResize, Qemu!Fits
  <2>4. what # "resume" /\ (what \in {"create", "save"} => row[w].status # "running")
    BY <2>1
  <2> QED BY <2>2, <2>3, <2>4, AskKeeps
<1> QED BY <1>1, <1>4, <1>5, <1>6, <1>7

(* The request that alone may start a machine goes a step further, as e or     *)
(* as a task.                                                                  *)
LEMMA MoveKeeps ==
  ASSUME QemuTyped, Unraced, UNCHANGED vm, NEW u \in Users, NonStop(request[u]), NEW e,
         \A v \in Users : request'[v] = IF v = u THEN e ELSE request[v],
         NonStop(e) => /\ e.kind \in {"start", "update"} /\ e.ws = request[u].ws /\ e.size = request[u].size
                       /\ tasks' = tasks,
         \A t \in tasks' : t \in tasks \/ /\ t = request[u] /\ ~NonStop(e)
                                          /\ t.kind \in {"start", "resume", "update"},
         \A w \in Workspaces : row'[w].size = IF w = request[u].ws THEN request[u].size ELSE row[w].size,
         \A w \in Workspaces : w = request[u].ws /\ Up(w) /\ ~Changing(w)' =>
           row[w].size = request[u].size /\ request[u].kind # "update"
  PROVE  Unraced'
<1>1. PICK r : r = request[u]
  OBVIOUS
<1>2. /\ \A v \in Users : v # u => ~NonStop(request[v])
      /\ \A t \in tasks : ~NonStop(t)
      /\ Planned(r) /\ NonStop(r) /\ r.ws \in Workspaces
  BY <1>1, RequestAt DEF Unraced, Alone, NonStop
<1>3. Ups' = Ups /\ Fit' /\ \A w, size : Room(w, size)' <=> Room(w, size)
  BY DEF Unraced, Ups, Up, Fit, Room
<1>4. Alone'
  BY <1>1, <1>2 DEF Alone
<1>5. ASSUME NEW v \in Users PROVE Planned(request[v])'
  <2>1. CASE v = u
    <3>1. request'[v] = e
      BY <2>1
    <3>2. NonStop(e) => /\ e.kind \notin {"create", "save"} /\ row'[e.ws].size = e.size
                        /\ Sum(vm', Ups' \ {e.ws}) + e.size <= Cap
      BY <1>1, <1>2, <1>3 DEF Planned, Room
    <3> QED BY <3>1, <3>2 DEF Planned, Room
  <2>2. CASE v # u
    BY <1>2, <2>2 DEF Planned
  <2> QED BY <2>1, <2>2
<1>6. ASSUME NEW t \in tasks', NonStop(t)
      PROVE  row'[t.ws].size = t.size /\ t.kind # "resize" /\ Sum(vm', Ups' \ {t.ws}) + t.size <= Cap
  <2>1. t = r /\ r.kind \in {"start", "resume", "update"}
    BY <1>1, <1>2, <1>6
  <2> QED BY <1>1, <1>2, <1>3, <2>1 DEF Planned, Room
<1>7. \A t \in tasks' : Ordered(t)'
  BY <1>6 DEF Ordered, Room, NonStop
<1>8. ASSUME NEW w \in Workspaces, Up(w), ~Changing(w)'
      PROVE  vm[w].size = row'[w].size
  <2>1. w = r.ws => row[w].size = r.size /\ r.kind # "update"
    BY <1>1, <1>8
  <2>2. ~Changing(w)
    BY <1>1, <1>2, <2>1 DEF Changing, NonStop
  <2> QED BY <1>1, <1>8, <2>1, <2>2 DEF Unraced, SizesShown
<1>9. SizesShown'
  BY <1>8 DEF SizesShown, Up
<1> QED BY <1>3, <1>4, <1>5, <1>7, <1>9 DEF Unraced

LEMMA RequestStepKeeps ==
  ASSUME CapInv, Qemu!RequestStep, ~capRaced'
  PROVE  Unraced'
<1>1. PICK u \in Users : Qemu!Create(u) \/ Qemu!Save(u) \/ Qemu!Dispatch(u)
  BY DEF Qemu!RequestStep
<1>2. UNCHANGED vm /\ QemuTyped /\ Unraced
  BY DEF Qemu!RequestStep, CapInv
<1>3. PICK r \in QemuRequests : r = request[u] /\ r.ws \in Workspaces
  <2>1. request[u].kind # "none"
    BY <1>1 DEF Qemu!Create, Qemu!Save, Qemu!Dispatch
  <2> QED BY <1>2, <2>1, RequestAt
<1>4. row \in [Workspaces -> QemuRows] /\ request \in [Users -> QemuRequests \cup {Qemu!NoRequest}]
  BY <1>2 DEF QemuTyped, RowsTyped, RequestsTyped
<1>5. row[r.ws] \in QemuRows
  BY <1>3, <1>4
<1>6. Qemu!NoRequest.kind = "none"
  BY DEF Qemu!NoRequest
<1>7. CASE Qemu!Create(u)
  <2>1. PICK e \in QemuRequests : e = [r EXCEPT !.kind = "start"]
    BY DEF QemuRequests, Ops
  <2>2. e.kind = "start" /\ e.ws = r.ws /\ e.size = r.size
    BY <2>1 DEF QemuRequests
  <2>3. request' = [request EXCEPT ![u] = e] /\ tasks' = tasks /\ r.kind = "create"
    BY <1>3, <1>4, <1>7, <2>1 DEF Qemu!Create
  <2>4. \A v \in Users : request'[v] = IF v = u THEN e ELSE request[v]
    BY <1>4, <2>3
  <2>5. PICK n : n = [status |-> "creating", op |-> "start", size |-> r.size]
    OBVIOUS
  <2>12. n.size = r.size
    BY <2>5
  <2>6. row' = [row EXCEPT ![r.ws] = n]
    BY <1>3, <1>7, <2>5 DEF Qemu!Create
  <2>7. \A w \in Workspaces : row'[w].size = IF w = r.ws THEN r.size ELSE row[w].size
    BY <1>4, <2>12, <2>6
  <2>8. NonStop(r)
    BY <2>3 DEF NonStop
  <2>9. ~Up(r.ws)
    BY <1>2, <1>3, <2>3, <2>8 DEF Unraced, Planned
  <2> QED BY <1>2, <1>3, <2>2, <2>3, <2>4, <2>7, <2>8, <2>9, MoveKeeps
<1>8. CASE Qemu!Save(u)
  <2>1. PICK e \in QemuRequests \cup {Qemu!NoRequest} :
          e = IF r.kind = "save" THEN Qemu!NoRequest ELSE [r EXCEPT !.kind = "update"]
    BY DEF QemuRequests, Ops
  <2>2. /\ r.kind = "save" => e.kind = "none"
        /\ r.kind # "save" => e.kind = "update" /\ e.ws = r.ws /\ e.size = r.size
    BY <1>6, <2>1 DEF QemuRequests
  <2>3. request' = [request EXCEPT ![u] = e] /\ tasks' = tasks
    BY <1>3, <1>4, <1>8, <2>1 DEF Qemu!Save
  <2>4. \A v \in Users : request'[v] = IF v = u THEN e ELSE request[v]
    BY <1>4, <2>3
  <2>5. PICK n : n = [row[r.ws] EXCEPT !.size = r.size]
    OBVIOUS
  <2>12. n.size = r.size
    BY <1>5, <2>5 DEF QemuRows
  <2>6. row' = [row EXCEPT ![r.ws] = n]
    BY <1>3, <1>4, <1>8, <2>5 DEF Qemu!Save
  <2>7. \A w \in Workspaces : row'[w].size = IF w = r.ws THEN r.size ELSE row[w].size
    BY <1>4, <2>12, <2>6
  <2>8. NonStop(r)
    BY <1>3, <1>8 DEF NonStop, Qemu!Save
  <2>9. r.kind = "save" => ~Up(r.ws)
    BY <1>2, <1>3, <2>8 DEF Unraced, Planned
  <2>10. \A w \in Workspaces : r.kind # "save" /\ w = r.ws => Changing(w)'
    BY <2>2, <2>4 DEF Changing
  <2>11. NonStop(e) => e.kind = "update" /\ e.ws = r.ws /\ e.size = r.size
    BY <2>2 DEF NonStop
  <2> QED BY <1>2, <1>3, <2>3, <2>4, <2>7, <2>8, <2>9, <2>10, <2>11, MoveKeeps
<1>9. CASE Qemu!Dispatch(u)
  <2>1. request' = [request EXCEPT ![u] = Qemu!NoRequest] /\ tasks' = tasks \cup {r}
        /\ r.kind \in {"start", "resume", "update", "stop"}
    BY <1>3, <1>9 DEF Qemu!Dispatch
  <2>2. PICK e : e = Qemu!NoRequest /\ ~NonStop(e)
    BY <1>6 DEF NonStop
  <2>3. \A v \in Users : request'[v] = IF v = u THEN e ELSE request[v]
    BY <1>4, <2>1, <2>2
  <2>4. PICK n : n = [row[r.ws] EXCEPT !.op = r.kind]
    OBVIOUS
  <2>12. n.size = row[r.ws].size
    BY <1>5, <2>4 DEF QemuRows
  <2>5. row' = [row EXCEPT ![r.ws] = n]
    BY <1>3, <1>4, <1>9, <2>4 DEF Qemu!Dispatch
  <2>6. \A w \in Workspaces : row'[w].size = row[w].size
    BY <1>4, <2>12, <2>5
  <2>7. CASE r.kind = "stop"
    <3>1. ~NonStop(r)
      BY <2>7 DEF NonStop
    <3>2. \A w \in Workspaces : Changing(w) => Changing(w)'
      BY <1>3, <2>1, <2>3, <2>7 DEF Changing
    <3> QED BY <1>2, <1>3, <2>1, <2>2, <2>3, <2>6, <3>1, <3>2, QuietKeeps
  <2>8. CASE r.kind # "stop"
    <3>1. NonStop(r) /\ r.kind \in {"start", "resume", "update"}
      BY <2>1, <2>8 DEF NonStop
    <3>2. row[r.ws].size = r.size
      BY <1>2, <1>3, <3>1 DEF Unraced, Planned
    <3>3. \A w \in Workspaces : r.kind = "update" /\ w = r.ws => Changing(w)'
      BY <2>1 DEF Changing
    <3> QED BY <1>2, <1>3, <2>1, <2>2, <2>3, <2>6, <3>1, <3>2, <3>3, MoveKeeps
  <2> QED BY <2>7, <2>8
<1> QED BY <1>1, <1>7, <1>8, <1>9

LEMMA SizeNat == Qemu!CapacityAssumption => Cap \in Nat /\ \A n \in Sizes \cup {0} : n \in Nat
BY DEF Qemu!CapacityAssumption

(* A machine stops, and the task that stopped it ends or is to resize it.      *)
LEMMA DownKeeps ==
  ASSUME Qemu!CapacityAssumption, QemuTyped, QemuTyped', Unraced, UNCHANGED <<row, request>>,
         Ups' \subseteq Ups, \A w \in Ups' : vm'[w].size = vm[w].size,
         \A t \in tasks' : NonStop(t) =>
           \E s \in tasks : /\ NonStop(s) /\ t.ws = s.ws /\ t.size = s.size
                            /\ t = s \/ (t.kind = "resize" /\ t.ws \notin Ups'),
         \A s, t \in tasks' : NonStop(s) /\ NonStop(t) => s = t,
         \A w \in Ups' : Changing(w) => Changing(w)'
  PROVE  Unraced'
<1>0. Sizes \subseteq Nat
  BY DEF Qemu!CapacityAssumption
<1>1. Fit' /\ \A w \in Workspaces, size \in Nat : Room(w, size) => Sum(vm', Ups' \ {w}) + size <= Cap
  BY FewerFit DEF Unraced
<1>2. \A w : vm'[w].state = "running" /\ w \in Workspaces <=> w \in Ups'
  BY DEF Ups, Up
<1>3. \A w : vm[w].state = "running" /\ w \in Workspaces <=> w \in Ups
  BY DEF Ups, Up
<1>4. Alone'
  <2>1. \A u \in Users, t \in tasks' : ~(NonStop(request[u]) /\ NonStop(t))
    BY DEF Unraced, Alone
  <2> QED BY <2>1 DEF Unraced, Alone
<1>5. ASSUME NEW u \in Users, NonStop(request[u])
      PROVE  /\ request[u].kind \in {"create", "save"} => vm'[request[u].ws].state # "running"
             /\ request[u].kind \in {"start", "resume", "update"} => row[request[u].ws].size = request[u].size
             /\ Sum(vm', Ups' \ {request[u].ws}) + request[u].size <= Cap
  <2>1. request[u].ws \in Workspaces /\ request[u].size \in Nat
    BY <1>0, <1>5, RequestAt DEF NonStop
  <2>2. Planned(request[u])
    BY DEF Unraced
  <2> QED BY <1>1, <1>2, <1>3, <1>5, <2>1, <2>2 DEF Planned, Up
<1>6. \A u \in Users : Planned(request[u])'
  BY <1>5 DEF Planned, Up, Room, NonStop
<1>7. ASSUME NEW t \in tasks', NonStop(t)
      PROVE  /\ row[t.ws].size = t.size /\ (t.kind = "resize" => vm'[t.ws].state # "running")
             /\ Sum(vm', Ups' \ {t.ws}) + t.size <= Cap
  <2>1. PICK s \in tasks : /\ NonStop(s) /\ t.ws = s.ws /\ t.size = s.size
                           /\ t = s \/ (t.kind = "resize" /\ t.ws \notin Ups')
    BY <1>7
  <2>2. s.ws \in Workspaces /\ s.size \in Sizes \cup {0} /\ Ordered(s)
    BY TaskFacts DEF Unraced
  <2>3. s.size \in Nat
    BY <2>2, SizeNat
  <2>4. row[s.ws].size = s.size /\ Room(s.ws, s.size) /\ (s.kind = "resize" => s.ws \notin Ups)
    BY <1>3, <2>1, <2>2 DEF Ordered, Up
  <2>5. Sum(vm', Ups' \ {s.ws}) + s.size <= Cap
    BY <1>1, <2>2, <2>3, <2>4
  <2>6. t.kind = "resize" => t.ws \notin Ups'
    BY <2>1, <2>4
  <2> QED BY <1>2, <2>1, <2>2, <2>4, <2>5, <2>6
<1>8. \A t \in tasks' : Ordered(t)'
  BY <1>7 DEF Ordered, Up, Room, NonStop
<1>9. SizesShown'
  <2>1. ASSUME NEW w \in Workspaces, vm'[w].state = "running", ~Changing(w)'
        PROVE  vm'[w].size = row[w].size
    <3>1. w \in Ups' /\ w \in Ups
      BY <1>2, <2>1
    <3>2. Up(w) /\ ~Changing(w)
      BY <2>1, <3>1 DEF Ups
    <3> QED BY <3>1, <3>2 DEF Unraced, SizesShown
  <2> QED BY <2>1 DEF SizesShown, Up
<1> QED BY <1>1, <1>4, <1>6, <1>8, <1>9 DEF Unraced

LEMMA AddedUp == ASSUME NEW a \in Nat, NEW b \in Nat, NEW s \in Nat, NEW c \in Nat, a <= b, b + s <= c
                 PROVE  s + a <= c
OBVIOUS

(* The machine of the one task that may start it starts.                       *)
LEMMA UpKeeps ==
  ASSUME Qemu!CapacityAssumption, QemuTyped, QemuTyped', Unraced, UNCHANGED <<row, request>>,
         NEW t \in tasks, t.kind \in {"start", "resume", "resize"},
         Qemu!Machine(t.ws, "running", t.size), tasks' = tasks \ {t}
  PROVE  Unraced'
<1>0. NonStop(t) /\ Ordered(t) /\ t.ws \in Workspaces /\ t.size \in Sizes \cup {0}
  BY TaskFacts DEF NonStop, Unraced
<1>1. (\A u \in Users : ~NonStop(request[u])) /\ (\A s \in tasks : NonStop(s) => s = t)
  BY <1>0 DEF Unraced, Alone
<1>2. Alone' /\ (\A u \in Users : Planned(request[u])') /\ (\A s \in tasks' : Ordered(s)')
  BY <1>1 DEF Alone, Planned, Ordered, NonStop
<1>3. ASSUME NEW w \in Workspaces
      PROVE  vm'[w] = IF w = t.ws THEN [state |-> "running", size |-> t.size] ELSE vm[w]
  BY DEF Qemu!Machine, QemuTyped, MachinesTyped
<1>4. Ups' \ {t.ws} = Ups \ {t.ws} /\ t.ws \in Ups' /\ vm'[t.ws].size = t.size
  BY <1>0, <1>3 DEF Ups, Up
<1>5. SizesShown'
  <2>1. ASSUME NEW w \in Workspaces, vm'[w].state = "running"
        PROVE  vm'[w].size = row[w].size
    <3>1. CASE w = t.ws
      BY <1>0, <1>3, <3>1 DEF Ordered
    <3>2. CASE w # t.ws
      <4>1. vm'[w] = vm[w] /\ Up(w)
        BY <1>3, <2>1, <3>2 DEF Up
      <4>2. ~Changing(w)
        BY <1>1 DEF Changing, NonStop
      <4> QED BY <4>1, <4>2 DEF Unraced, SizesShown
    <3> QED BY <3>1, <3>2
  <2> QED BY <2>1 DEF SizesShown, Up
<1>6. Fit'
  <2>1. PICK S \in SUBSET Workspaces : S = Ups'
    BY DEF Ups
  <2>2. PICK T \in SUBSET S : T = S \ {t.ws}
    OBVIOUS
  <2>3. /\ IsFiniteSet(S) /\ Sized(vm', S) /\ Sized(vm', T) /\ IsFiniteSet(T) /\ Sized(vm, T)
    <3>1. T \in SUBSET Workspaces
      OBVIOUS
    <3>2. Sizes \cup {0} \subseteq Nat
      BY DEF Qemu!CapacityAssumption
    <3>3. Sized(vm', S) /\ Sized(vm', T)
      BY <3>1, <3>2 DEF Sized, QemuTyped, MachinesTyped, Machines
    <3> QED BY <3>1, <3>3, VmSized
  <2>4. Sum(vm', S) = vm'[t.ws].size + Sum(vm', S \ {t.ws})
    BY <1>4, <2>1, <2>3, SumAny
  <2>5. \A x \in T : vm'[x].size <= vm[x].size
    <3> SUFFICES ASSUME NEW x \in T PROVE vm'[x].size <= vm[x].size
      OBVIOUS
    <3>1. vm'[x] = vm[x]
      BY <1>3, <2>1, <2>2
    <3>2. PICK k \in Nat : k = vm[x].size
      BY <2>3 DEF Sized
    <3> QED BY <3>1, <3>2
  <2>6. Sum(vm', T) <= Sum(vm, T) /\ Sum(vm', T) \in Nat /\ Sum(vm, T) \in Nat
    BY <2>3, <2>5, SumGrows, SumAny
  <2>7. Sum(vm, T) + t.size <= Cap
    BY <1>0, <1>4, <2>1, <2>2 DEF Ordered, Room
  <2>8. t.size \in Nat /\ Cap \in Nat
    BY <1>0, SizeNat
  <2>9. t.size + Sum(vm', T) <= Cap
    BY <2>6, <2>7, <2>8, AddedUp, Zenon
  <2>10. Sum(vm', S) <= Cap
    BY <1>4, <2>2, <2>4, <2>9, Zenon
  <2> QED BY <2>1, <2>10 DEF Fit
<1> QED BY <1>2, <1>5, <1>6 DEF Unraced

LEMMA RunnerStepKeeps ==
  ASSUME Qemu!CapacityAssumption, CapInv, QemuTyped', Qemu!RunnerStep, ~capRaced'
  PROVE  Unraced'
<1>1. PICK t \in tasks : Qemu!Performs(t) \/ Qemu!Refuses(t) \/ Qemu!Halts(t)
  BY DEF Qemu!RunnerStep
<1>2. UNCHANGED <<row, request>> /\ QemuTyped /\ Unraced
  BY DEF Qemu!RunnerStep, CapInv
<1>3. t.ws \in Workspaces /\ vm \in [Workspaces -> Machines]
  BY <1>2, TaskFacts DEF QemuTyped, MachinesTyped
<1>4. ASSUME Qemu!Machine(t.ws, "stopped", vm[t.ws].size)
      PROVE  Ups' = Ups \ {t.ws} /\ \A w \in Ups' : vm'[w].size = vm[w].size
  BY <1>3, <1>4 DEF Qemu!Machine, Ups, Up
<1>5. CASE t.kind = "stop" /\ Qemu!Machine(t.ws, "stopped", vm[t.ws].size) /\ Qemu!Ends(t, "stopped")
  <2>1. tasks' = tasks \ {t} /\ ~NonStop(t)
    BY <1>5 DEF Qemu!Ends, NonStop
  <2>2. Ups' \subseteq Ups /\ \A w \in Ups' : vm'[w].size = vm[w].size
    BY <1>4, <1>5
  <2>3. \A w \in Workspaces : Changing(w) => Changing(w)'
    BY <1>2, <1>5, <2>1 DEF Changing
  <2>4. Ups' \subseteq Workspaces
    BY DEF Ups
  <2>5. \A r, s \in tasks' : NonStop(r) /\ NonStop(s) => r = s
    BY <1>2, <2>1 DEF Unraced, Alone
  <2> QED BY <1>2, <2>1, <2>2, <2>3, <2>4, <2>5, DownKeeps
<1>6. CASE t.kind \in {"start", "resume", "resize"} /\ Qemu!Machine(t.ws, "running", t.size)
           /\ Qemu!Ends(t, Qemu!Told[t.kind])
  BY <1>2, <1>6, UpKeeps DEF Qemu!Ends
<1>7. CASE Qemu!Refuses(t)
  <2>1. tasks' = tasks \ {t} /\ vm' = vm /\ t.kind # "update"
    BY <1>7 DEF Qemu!Refuses, Qemu!Ends
  <2>2. \A w \in Workspaces : Changing(w) => Changing(w)'
    BY <1>2, <2>1 DEF Changing
  <2> QED BY <1>2, <2>1, <2>2, QuietKeeps
<1>8. CASE Qemu!Halts(t)
  <2>1. PICK n : n = [t EXCEPT !.kind = "resize"]
    OBVIOUS
  <2>2. n.kind = "resize" /\ n.ws = t.ws /\ n.size = t.size
    BY <1>2, <2>1, TaskFacts DEF QemuTasks
  <2>3. t.kind = "update" /\ tasks' = (tasks \ {t}) \cup {n}
        /\ Qemu!Machine(t.ws, "stopped", vm[t.ws].size)
    BY <1>8, <2>1 DEF Qemu!Halts
  <2>4. Ups' = Ups \ {t.ws} /\ \A w \in Ups' : vm'[w].size = vm[w].size
    BY <1>4, <2>3
  <2>5. NonStop(t)
    BY <2>3 DEF NonStop
  <2>6. \A s \in tasks : NonStop(s) => s = t
    BY <1>2, <2>5 DEF Unraced, Alone
  <2>7. \A s \in tasks' : NonStop(s) => s = n
    BY <2>3, <2>6
  <2>8. \A s \in tasks' : NonStop(s) => \E r \in tasks : /\ NonStop(r) /\ s.ws = r.ws /\ s.size = r.size
                                                         /\ s = r \/ (s.kind = "resize" /\ s.ws \notin Ups')
    BY <2>2, <2>4, <2>5, <2>7
  <2>9. \A w \in Ups' : Changing(w) => Changing(w)'
    <3>1. \A u \in Users : request[u].kind # "update"
      BY <1>2, <2>5 DEF Unraced, Alone, NonStop
    <3>2. \A s \in tasks : s.kind = "update" => s = t
      BY <2>6 DEF NonStop
    <3> QED BY <2>4, <3>1, <3>2 DEF Changing
  <2>10. Ups' \subseteq Ups /\ \A w \in Ups' : vm'[w].size = vm[w].size
    BY <2>4
  <2>11. \A r, s \in tasks' : NonStop(r) /\ NonStop(s) => r = s
    BY <2>7
  <2> QED BY <1>2, <2>8, <2>9, <2>10, <2>11, DownKeeps
<1> QED BY <1>1, <1>5, <1>6, <1>7, <1>8 DEF Qemu!Performs

LEMMA FaultKeeps ==
  ASSUME Qemu!CapacityAssumption, CapInv, QemuTyped', Qemu!Fault, ~capRaced'
  PROVE  Unraced'
<1>1. CASE \E t \in tasks : Qemu!Fails(t)
  <2>1. PICK t \in tasks : Qemu!Fails(t)
    BY <1>1
  <2>2. UNCHANGED <<row, request>> /\ tasks' = tasks \ {t} /\ t.kind # "update" /\ QemuTyped /\ Unraced
    BY <2>1 DEF Qemu!Fault, Qemu!Fails, Qemu!Ends, CapInv
  <2>3. CASE UNCHANGED vm
    <3>1. \A w \in Workspaces : Changing(w) => Changing(w)'
      BY <2>2 DEF Changing
    <3> QED BY <2>2, <2>3, <3>1, QuietKeeps
  <2>4. CASE t.kind = "resume" /\ Qemu!Machine(t.ws, "running", t.size)
    BY <2>2, <2>4, UpKeeps
  <2> QED BY <2>1, <2>3, <2>4 DEF Qemu!Fails
<1>2. CASE \E w \in Workspaces : Qemu!PowerOff(w)
  <2>1. PICK w \in Workspaces : Qemu!PowerOff(w)
    BY <1>2
  <2>2. UNCHANGED <<row, request, tasks>> /\ QemuTyped /\ Unraced
    BY <2>1 DEF Qemu!Fault, Qemu!PowerOff, CapInv
  <2>3. Ups' \subseteq Ups /\ \A v \in Ups' : vm'[v].size = vm[v].size
    BY <2>1, <2>2 DEF Qemu!PowerOff, Qemu!Machine, Ups, Up, QemuTyped, MachinesTyped
  <2>4. \A v \in Ups' : Changing(v) => Changing(v)'
    BY <2>2 DEF Changing
  <2>5. \A r, s \in tasks' : NonStop(r) /\ NonStop(s) => r = s
    BY <2>2 DEF Unraced, Alone
  <2> QED BY <2>2, <2>3, <2>4, <2>5, DownKeeps
<1> QED BY <1>1, <1>2 DEF Qemu!Fault

LEMMA CapStep ==
  Qemu!CapacityAssumption /\ CapInv /\ [Qemu!Next]_(Qemu!vars) => CapInv'
<1> SUFFICES ASSUME Qemu!CapacityAssumption, CapInv, [Qemu!Next]_(Qemu!vars) PROVE CapInv'
  OBVIOUS
<1>1. QemuTyped /\ QemuTyped'
  BY QemuTypedStep DEF CapInv
<1>2. ASSUME ~capRaced' PROVE Unraced'
  <2>1. ASSUME ~capRaced, UNCHANGED <<request, vm>>, \A w \in Workspaces : row'[w].size = row[w].size,
               tasks \subseteq tasks', \A t \in tasks' \ tasks : ~NonStop(t)
        PROVE  Unraced'
    <3>1. \A w \in Workspaces : Changing(w) => Changing(w)'
      BY <2>1 DEF Changing
    <3> QED BY <1>1, <2>1, <3>1, QuietKeeps DEF CapInv
  <2>2. CASE UNCHANGED Qemu!vars
    BY <1>2, <2>1, <2>2 DEF Qemu!vars
  <2>3. CASE Qemu!Input
    BY <1>2, <2>3, InputKeeps
  <2>4. CASE \E w \in Workspaces : Qemu!AutoStop(w)
    <3>1. PICK w \in Workspaces : Qemu!AutoStop(w)
      BY <2>4
    <3>2. \A v \in Workspaces : row'[v].size = row[v].size
      BY <1>1, <3>1 DEF Qemu!AutoStop, QemuTyped, RowsTyped, QemuRows
    <3>3. UNCHANGED <<request, vm, capRaced>> /\ tasks \subseteq tasks'
          /\ \A t \in tasks' \ tasks : t.kind = "stop"
      BY <3>1 DEF Qemu!AutoStop
    <3> QED BY <1>2, <2>1, <3>2, <3>3 DEF NonStop
  <2>5. CASE Qemu!RequestStep
    BY <1>2, <2>5, RequestStepKeeps
  <2>6. CASE Qemu!Activity
    BY <1>2, <2>1, <2>6 DEF Qemu!Activity
  <2>7. CASE Qemu!RunnerStep
    BY <1>1, <1>2, <2>7, RunnerStepKeeps
  <2>8. CASE Qemu!Fault
    BY <1>1, <1>2, <2>8, FaultKeeps
  <2>9. CASE Qemu!Beat
    BY <1>2, <2>1, <2>9 DEF Qemu!Beat
  <2>10. CASE Qemu!Handle
    <3>1. \A w \in Workspaces : row'[w].size = row[w].size
      BY <1>1, <2>10, RowsHandled
    <3>2. UNCHANGED <<request, vm, tasks, capRaced>>
      BY <2>10 DEF Qemu!Handle
    <3> QED BY <1>2, <2>1, <3>1, <3>2
  <2> QED BY <2>2, <2>3, <2>4, <2>5, <2>6, <2>7, <2>8, <2>9, <2>10 DEF Qemu!Next
<1> QED BY <1>1, <1>2 DEF CapInv

-----------------------------------------------------------------------------
(* Whichever of the two modules moves, each of them takes steps of its own.    *)
LEMMA SumSteps ==
  /\ SumInit => Init /\ Qemu!Init
  /\ [SumNext]_<<moves, vars, qemuVars>> => [Next]_vars /\ [Qemu!Next]_(Qemu!vars)
BY DEF SumInit, SumNext, qemuVars, Qemu!vars

(* The variables of both modules have their types.                             *)
THEOREM TypesCorrect == SumSpec => []TypesOK
<1>1. Types /\ QemuTyped => TypesOK
  BY QemuTypes DEF Types, TypesOK
<1>2. Qemu!Init => QemuTyped
  BY QemuBegins, CapacityLimits
<1>3. QemuTyped /\ [Qemu!Next]_(Qemu!vars) => QemuTyped'
  BY QemuTypedStep, CapacityLimits
<1> QED BY <1>1, <1>2, <1>3, SumSteps, InitTypes, TypesStep, PTL DEF SumSpec

(* The machines that run stay within the cap as long as no request is admitted *)
(* while another one, or a machine the rows do not show, is on its way to run: *)
(* through stops, resizes of stopped workspaces, and commands that fail.       *)
THEOREM CapIsKept == SumSpec => []CapKeptUnraced
<1>1. CapInv => CapKeptUnraced
  BY CapHolds DEF CapKeptUnraced
<1>2. Qemu!Init => CapInv
  BY CapBegins, CapacityLimits
<1>3. CapInv /\ [Qemu!Next]_(Qemu!vars) => CapInv'
  BY CapStep, CapacityLimits
<1> QED BY <1>1, <1>2, <1>3, SumSteps, PTL DEF SumSpec

(* With the same proviso, once nothing is under way, a machine that runs has   *)
(* the size its row shows, whatever was resized, refused or failed before.     *)
THEOREM MachinesRunAsShown == SumSpec => []RunsAsShown
<1>1. CapInv => RunsAsShown
  BY CapHolds DEF RunsAsShown
<1>2. Qemu!Init => CapInv
  BY CapBegins, CapacityLimits
<1>3. CapInv /\ [Qemu!Next]_(Qemu!vars) => CapInv'
  BY CapStep, CapacityLimits
<1> QED BY <1>1, <1>2, <1>3, SumSteps, PTL DEF SumSpec
=============================================================================
