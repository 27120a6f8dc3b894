-------------------------- MODULE ServicePartsProofs --------------------------
(* Theorems about the parts MCServices puts side by side, for every value of   *)
(* their constants. Processes: a process the backend shows as ended is dead    *)
(* unless its entry was lost or an answer formed before the entry was there    *)
(* wrote it off. Desktops and terminals: a page shows them without a gap, and  *)
(* keys reach a shell in their order. Images: a build is deleted together with *)
(* its image, and a definition after its builds.                               *)
EXTENDS WorkspaceProcesses, SequenceLemmas

CONSTANTS
  Tunnels, MaxFrames, MaxBreaks,                               \* DesktopTunnel
  Pages, MaxTerminals, MaxChunks, MaxKeys, MaxDrops, Threaded, \* Terminals
  Jobs, Captures, Host, Beginnings, MaxInputs                  \* Images

VARIABLES
  proxy, queue, socket, frames, orders, answers, session, nextSession, breaks,
  page, requests, opening, ptys, writes, uplink, storing, inbox, current, drops,
  def, job, image, imageTask, used, purge, online, stage, owed, sent, working, reports, second,
  inputs

Desk == INSTANCE DesktopTunnel WITH MaxFaults <- MaxBreaks, sent <- frames, replies <- answers
Term == INSTANCE Terminals
Img == INSTANCE Images WITH task <- imageTask, todo <- owed
-----------------------------------------------------------------------------
(* WorkspaceProcesses                                                          *)
Rows == [status : {"none", "running", "exited", "killed", "failed"}, pid : BOOLEAN]
Calls == [kind : {"none", "start", "list", "get", "stop"}, proc : Procs \cup {None},
          at : {"idle", "checked", "ready", "asked", "failed", "confirmed", "over"}]
Phases == {"none", "sent", "spawned", "probing", "found", "termed", "dead", "answered", "lost"}
Results == {"none", "ok", "error", "not found", "exited", "unknown"}
Handlings == [at : Phases, result : Results, report : Reports, todo : SUBSET Procs,
              early : SUBSET Procs]
Beatings == [at : {"idle", "collecting", "sent"}, box : {"running", "exited"},
             begun : SUBSET Procs, todo : SUBSET Procs, report : Reports, early : SUBSET Procs]

(* The parts of the state the backend, the runner and the heartbeat write.     *)
RowsOK == rows \in [Procs -> Rows]
CallsOK == request \in [Requests -> Calls]
TasksOK == task \in [Requests -> Handlings]
ProcsOK == os \in [Procs -> {"none", "alive", "exited", "gone"}]
BeatOK == beat \in Beatings
EntriesOK == tracked \in SUBSET Procs /\ doomed \in SUBSET Procs
BoxOK == /\ wsStatus \in {"running", "stopped"} /\ box \in {"running", "exited"}
         /\ stopping \in {"no", "sent", "killing", "dropped", "stopped", "resumed"}
CountOK == faults \in 0..MaxFaults
PastOK == known \in SUBSET Procs /\ forgotten \in SUBSET Procs /\ overtaken \in SUBSET Procs

LEMMA TypeParts ==
  TypeOK <=> RowsOK /\ CallsOK /\ TasksOK /\ ProcsOK /\ BeatOK /\ EntriesOK /\ BoxOK /\ CountOK
             /\ PastOK
BY DEF TypeOK, RowsOK, CallsOK, TasksOK, ProcsOK, BeatOK, EntriesOK, BoxOK, CountOK, PastOK,
       Rows, Calls, Phases, Results, Handlings, Beatings

LEMMA TypePartsNext ==
  TypeOK' <=> RowsOK' /\ CallsOK' /\ TasksOK' /\ ProcsOK' /\ BeatOK' /\ EntriesOK' /\ BoxOK'
              /\ CountOK' /\ PastOK'
BY TypeParts, PTL

LEMMA NoReportTyped == NoReport \in Reports
BY DEF NoReport, Reports

LEMMA NoTaskTyped == NoTask \in Handlings
BY NoReportTyped DEF NoTask, Handlings, Phases, Results

LEMMA NoBeatTyped == NoBeat \in Beatings
BY NoReportTyped DEF NoBeat, Beatings

LEMMA NoRequestTyped == NoRequest \in Calls
BY DEF NoRequest, Calls

LEMMA InitTyped == FaultsAssumption /\ Init => TypeOK
<1> SUFFICES ASSUME FaultsAssumption, Init PROVE TypeOK
  OBVIOUS
<1>1. RowsOK /\ CallsOK /\ TasksOK /\ ProcsOK /\ BeatOK
  BY NoTaskTyped, NoBeatTyped, NoRequestTyped
     DEF Init, RowsOK, CallsOK, TasksOK, ProcsOK, BeatOK, Rows
<1>2. EntriesOK /\ BoxOK /\ CountOK /\ PastOK
  BY DEF FaultsAssumption, Init, EntriesOK, BoxOK, CountOK, PastOK
<1> QED BY <1>1, <1>2, TypeParts

LEMMA MarkedTyped ==
  ASSUME RowsOK, NEW S, NEW status \in {"exited", "killed", "failed"}
  PROVE  MarkedAs(S, status) \in [Procs -> Rows]
<1> SUFFICES ASSUME NEW p \in Procs
             PROVE  (IF p \in S THEN [rows[p] EXCEPT !.status = status] ELSE rows[p]) \in Rows
  BY DEF MarkedAs
<1> QED BY DEF RowsOK, Rows

LEMMA BecomesTyped ==
  ASSUME CallsOK, NEW r \in Requests, Becomes(r, "over") \/ Becomes(r, "ready")
    \/ Becomes(r, "asked") \/ Becomes(r, "failed") \/ Becomes(r, "confirmed")
  PROVE  CallsOK'
BY DEF CallsOK, Calls, Becomes

LEMMA StepsTyped ==
  ASSUME TasksOK, NEW r \in Requests, NEW at \in Phases, Steps(r, at)
  PROVE  TasksOK'
BY DEF TasksOK, Handlings, Steps

LEMMA AnswersTyped ==
  ASSUME TasksOK, NEW r \in Requests, NEW t \in Results, AnswersWith(r, t)
  PROVE  TasksOK'
BY NoTaskTyped DEF TasksOK, Handlings, AnswersWith, Phases

LEMMA SaysTyped == \A p : SaysOf(p) \in {"running", "exited", "unknown"}
BY DEF SaysOf
(* A call about a process is about one of Procs.                               *)
Subjects == \A r \in Requests : request[r].kind \in {"start", "get", "stop"} => request[r].proc \in Procs
-----------------------------------------------------------------------------
(* Types                                                                      *)

LEMMA ReconciledTyped ==
  ASSUME RowsOK, PastOK, NEW report, NEW early, Reconciled(report, early)
  PROVE  RowsOK' /\ overtaken' \in SUBSET Procs
<1> DEFINE over == {p \in RunningRows : rows[p].pid /\ report[p] \in {"exited", "absent"}}
<1>1. over \subseteq Procs /\ rows' = MarkedAs(over, "exited")
      /\ overtaken' = overtaken \cup (over \cap early)
  BY DEF Reconciled, RunningRows
<1> HIDE DEF over
<1> QED BY <1>1, MarkedTyped DEF RowsOK, PastOK

LEMMA KilledTyped ==
  ASSUME RowsOK, PastOK, NEW early, KilledWithWorkspace(early)
  PROVE  RowsOK' /\ overtaken' \in SUBSET Procs
BY MarkedTyped DEF KilledWithWorkspace, RunningRows, RowsOK, PastOK

LEMMA CallsTyped ==
  ASSUME TypeOK, NEW r \in Requests,
         \/ \E p \in Procs : StartChecked(r, p) \/ \E kind \in {"get", "stop"} : LookChecked(r, kind, p)
         \/ LookChecked(r, "list", None)
         \/ AskFails(r) \/ CallCancelled(r) \/ CallRuns(r)
  PROVE  TypeOK'
<1> USE TypeParts, TypePartsNext
<1> SUFFICES RowsOK' /\ CallsOK' /\ TasksOK' /\ PastOK' /\ (UNCHANGED <<os, tracked, box, stopping,
             doomed, beat, faults, wsStatus>>)
  BY DEF ProcsOK, BeatOK, EntriesOK, BoxOK, CountOK
<1>1. ASSUME NEW p \in Procs, StartChecked(r, p) PROVE CallsOK'
  BY <1>1 DEF StartChecked, CallsOK, Calls
<1>2. ASSUME NEW p \in Procs \cup {None}, NEW kind \in {"list", "get", "stop"},
             LookChecked(r, kind, p)
      PROVE CallsOK'
  BY <1>2 DEF LookChecked, CallsOK, Calls
<1>3. CASE (\E p \in Procs : StartChecked(r, p) \/ \E kind \in {"get", "stop"} : LookChecked(r, kind, p))
           \/ LookChecked(r, "list", None)
  BY <1>3, <1>1, <1>2 DEF StartChecked, LookChecked, RowsOK, TasksOK, PastOK, runnerVars
<1>4. CASE StartCreatesRow(r)
  <2>1. request[r].proc \in Procs \cup {None}
    BY DEF CallsOK, Calls
  <2>2. RowsOK'
    BY <1>4, <2>1 DEF StartCreatesRow, RowsOK, Rows
  <2> QED BY <1>4, <2>2, BecomesTyped DEF StartCreatesRow, TasksOK, PastOK, runnerVars
<1>5. CASE Ask(r)
  <2>1. TasksOK'
    BY <1>5 DEF Ask, TasksOK, Handlings, Phases
  <2> QED BY <1>5, <2>1, BecomesTyped DEF Ask, RowsOK, PastOK, runnerVars
<1>6. CASE AskFails(r) \/ CallCancelled(r)
  BY <1>6, BecomesTyped DEF AskFails, CallCancelled, Over, RowsOK, TasksOK, PastOK, runnerVars
<1>7. CASE StartFailed(r)
  BY <1>7, BecomesTyped, MarkedTyped
     DEF StartFailed, Over, RowsOK, TasksOK, PastOK, runnerVars
<1>8. CASE StartSucceeds(r)
  <2>1. RowsOK'
    BY <1>8 DEF StartSucceeds, RowsOK, Rows
  <2>2. CallsOK'
    BY <1>8 DEF StartSucceeds, CallsOK, Calls
  <2> QED BY <1>8, <2>1, <2>2 DEF StartSucceeds, Answered, TasksOK, PastOK, runnerVars
<1>9. CASE ListTaken(r)
  <2>1. RowsOK' /\ overtaken' \in SUBSET Procs
    BY <1>9, ReconciledTyped DEF ListTaken, RowsOK, PastOK
  <2> QED BY <1>9, <2>1, BecomesTyped DEF ListTaken, Answered, Over, TasksOK, PastOK, runnerVars
<1>10. CASE GetTaken(r)
  <2>1. RowsOK' /\ overtaken' \in SUBSET Procs
    BY <1>10, MarkedTyped DEF GetTaken, RowsOK, PastOK, TasksOK, Handlings
  <2> QED BY <1>10, <2>1, BecomesTyped DEF GetTaken, Answered, Over, TasksOK, PastOK, runnerVars
<1>11. CASE StopTaken(r)
  <2>1. RowsOK' /\ overtaken' \in SUBSET Procs
    BY <1>11, MarkedTyped DEF StopTaken, RowsOK, PastOK, TasksOK, Handlings
  <2> QED BY <1>11, <2>1, BecomesTyped DEF StopTaken, Answered, Over, TasksOK, PastOK, runnerVars
<1> QED
  BY <1>3, <1>4, <1>5, <1>6, <1>7, <1>8, <1>9, <1>10, <1>11 DEF CallRuns

LEMMA RunnerTyped ==
  ASSUME TypeOK, Subjects, NEW r \in Requests, RunnerRuns(r)
  PROVE  TypeOK'
<1> USE TypeParts, TypePartsNext
<1> SUFFICES TasksOK' /\ ProcsOK' /\ tracked' \in SUBSET Procs /\ known' \in SUBSET Procs
             /\ (UNCHANGED <<rows, wsStatus, request, box, stopping, doomed, beat, faults, forgotten,
                             overtaken>>)
  BY DEF RowsOK, CallsOK, BeatOK, EntriesOK, BoxOK, CountOK, PastOK
<1>1. request[r].proc \in Procs \cup {None}
  BY DEF CallsOK, Calls
<1>2. tracked \in SUBSET Procs /\ known \in SUBSET Procs /\ forgotten \in SUBSET Procs
  BY DEF EntriesOK, PastOK
<1>3. CASE Spawns(r)
  BY <1>3, <1>1, <1>2, StepsTyped, AnswersTyped
     DEF Spawns, ProcsOK, Phases, Results, history
<1>4. CASE Tracks(r)
  <2>1. request[r].proc \in Procs
    BY <1>4 DEF Tracks, TaskIs, Subjects
  <2> QED BY <1>4, <2>1, <1>2, AnswersTyped DEF Tracks, ProcsOK, Results
<1>5. CASE Looks(r)
  <2>1. TasksOK'
    <3> DEFINE todo == IF request[r].kind = "list" THEN tracked ELSE tracked \cap {request[r].proc}
    <3>1. todo \in SUBSET Procs /\ Unknown \in SUBSET Procs
      BY <1>2 DEF Unknown
    <3>2. AnswersWith(r, "error")
          \/ task' = [task EXCEPT ![r] = [NoTask EXCEPT !.at = "probing", !.todo = todo,
                                                        !.early = Unknown]]
      BY <1>5 DEF Looks
    <3> HIDE DEF todo
    <3>3. [NoTask EXCEPT !.at = "probing", !.todo = todo, !.early = Unknown] \in Handlings
      BY <3>1, NoTaskTyped DEF Handlings, Phases
    <3> QED BY <3>2, <3>3, AnswersTyped DEF TasksOK, Results
  <2> QED BY <1>5, <2>1, <1>2 DEF Looks, ProcsOK, runnerVars
<1>6. CASE Probes(r)
  <2>1. TasksOK'
    <3>1. CASE task' = [task EXCEPT ![r].at = "answered", ![r].result = "ok"]
      <4>1. [task[r] EXCEPT !.at = "answered", !.result = "ok"] \in Handlings
        BY DEF TasksOK, Handlings, Phases, Results
      <4>2. task' = [task EXCEPT ![r] = [task[r] EXCEPT !.at = "answered", !.result = "ok"]]
        BY <3>1, Zenon
      <4> QED BY <4>1, <4>2 DEF TasksOK
    <3>2. ASSUME NEW p \in task[r].todo,
                 task' = [task EXCEPT ![r].todo = @ \ {p}, ![r].report[p] = SaysOf(p)]
          PROVE  TasksOK'
      <4>1. task[r] \in Handlings
        BY DEF TasksOK
      <4>2. [task[r].report EXCEPT ![p] = SaysOf(p)] \in Reports
        BY <4>1, SaysTyped DEF Handlings, Reports
      <4>3. [task[r] EXCEPT !.todo = @ \ {p}, !.report = [task[r].report EXCEPT ![p] = SaysOf(p)]]
              \in Handlings
        BY <4>1, <4>2 DEF Handlings
      <4>4. task' = [task EXCEPT ![r] = [task[r] EXCEPT !.todo = @ \ {p},
                                           !.report = [task[r].report EXCEPT ![p] = SaysOf(p)]]]
        BY <3>2
      <4> QED BY <4>3, <4>4 DEF TasksOK
    <3>3. task' = [task EXCEPT ![r].at = "answered", ![r].result = "ok"]
          \/ \E p \in task[r].todo :
               task' = [task EXCEPT ![r].todo = @ \ {p}, ![r].report[p] = SaysOf(p)]
      BY <1>6 DEF Probes
    <3> QED BY <3>1, <3>2, <3>3
  <2> QED BY <1>6, <2>1, <1>2 DEF Probes, ProcsOK, runnerVars
<1>7. CASE StopFinds(r)
  <2>1. TasksOK'
    <3>1. [NoTask EXCEPT !.at = "answered", !.result = "not found", !.early = Unknown] \in Handlings
      BY NoTaskTyped DEF Handlings, Phases, Results, Unknown
    <3> QED BY <1>7, <3>1, StepsTyped DEF StopFinds, TasksOK, Phases
  <2> QED BY <1>7, <2>1, <1>2 DEF StopFinds, ProcsOK, runnerVars
<1>8. CASE Terminates(r)
  BY <1>8, <1>1, <1>2, StepsTyped DEF Terminates, ProcsOK, Phases, history
<1>9. CASE Escalates(r)
  BY <1>9, <1>1, <1>2, StepsTyped DEF Escalates, ProcsOK, Phases, history
<1>10. CASE Drops(r)
  BY <1>10, <1>1, <1>2, AnswersTyped DEF Drops, ProcsOK, Results, history
<1> QED BY <1>3, <1>4, <1>5, <1>6, <1>7, <1>8, <1>9, <1>10 DEF RunnerRuns

LEMMA StopsTyped ==
  ASSUME FaultsAssumption, TypeOK,
         (\E p \in Procs : ProcessEnds(p)) \/ RunnerRestarts \/ StopSent \/ Stops
  PROVE  TypeOK'
<1> USE TypeParts, TypePartsNext
<1>1. CASE \E p \in Procs : ProcessEnds(p)
  BY <1>1 DEF ProcessEnds, history, RowsOK, CallsOK, TasksOK, ProcsOK, BeatOK, EntriesOK, BoxOK,
              CountOK, PastOK
<1>2. CASE RunnerRestarts
  <2>1. TasksOK'
    <3>1. [NoTask EXCEPT !.at = "lost"] \in Handlings
      BY NoTaskTyped DEF Handlings, Phases
    <3> QED BY <1>2, <3>1 DEF RunnerRestarts, TasksOK
  <2>2. BeatOK' /\ CountOK' /\ BoxOK'
    BY <1>2, NoBeatTyped DEF RunnerRestarts, BeatOK, CountOK, BoxOK, FaultsAssumption
  <2> QED BY <1>2, <2>1, <2>2
          DEF RunnerRestarts, RowsOK, CallsOK, ProcsOK, EntriesOK, PastOK
<1>3. CASE StopSent
  BY <1>3 DEF StopSent, runnerVars, RowsOK, CallsOK, TasksOK, ProcsOK, BeatOK, EntriesOK, BoxOK,
              CountOK, PastOK, FaultsAssumption
<1>4. CASE KillsAll \/ DropsAll \/ InstanceStops
  BY <1>4 DEF KillsAll, DropsAll, InstanceStops, history, RowsOK, CallsOK, TasksOK, ProcsOK,
              BeatOK, EntriesOK, BoxOK, CountOK, PastOK
<1>5. CASE HandleStopped
  <2>1. RowsOK' /\ overtaken' \in SUBSET Procs
    BY <1>5, KilledTyped DEF HandleStopped
  <2> QED BY <1>5, <2>1 DEF HandleStopped, runnerVars, CallsOK, TasksOK, ProcsOK,
              BeatOK, EntriesOK, BoxOK, CountOK, PastOK
<1>6. CASE Resumes \/ HandleResumed
  BY <1>6 DEF Resumes, HandleResumed, runnerVars, RowsOK, CallsOK, TasksOK, ProcsOK,
              BeatOK, EntriesOK, BoxOK, CountOK, PastOK
<1> QED BY <1>1, <1>2, <1>3, <1>4, <1>5, <1>6 DEF Stops

LEMMA BeatsTyped ==
  ASSUME FaultsAssumption, TypeOK, Beats \/ HeartbeatLost
  PROVE  TypeOK'
<1> USE TypeParts, TypePartsNext
<1> SUFFICES RowsOK' /\ BeatOK' /\ wsStatus' \in {"running", "stopped"} /\ CountOK'
             /\ overtaken' \in SUBSET Procs
  BY DEF Beats, BeatBegins, BeatProbes, HandleHeartbeat, HeartbeatLost, runnerVars,
         CallsOK, TasksOK, ProcsOK, EntriesOK, BoxOK, PastOK
<1>1. CASE BeatBegins
  BY <1>1, NoReportTyped
     DEF BeatBegins, BeatOK, Beatings, runnerVars, RowsOK, EntriesOK, BoxOK, CountOK, PastOK, Unknown
<1>2. CASE BeatProbes
  <2>1. BeatOK'
    <3>1. CASE beat' = NoBeat \/ beat' = [beat EXCEPT !.at = "sent"]
      BY <3>1, NoBeatTyped DEF BeatOK, Beatings
    <3>2. ASSUME NEW p \in beat.todo,
                 beat' = [beat EXCEPT !.todo = @ \ {p}, !.report[p] = SaysOf(p)]
          PROVE  BeatOK'
      BY <3>2, SaysTyped DEF BeatOK, Beatings, Reports
    <3> QED BY <1>2, <3>1, <3>2 DEF BeatProbes
  <2> QED BY <1>2, <2>1 DEF BeatProbes, RowsOK, BoxOK, CountOK, PastOK
<1>3. CASE HandleHeartbeat
  <2>1. RowsOK' /\ overtaken' \in SUBSET Procs
    BY <1>3, KilledTyped, ReconciledTyped DEF HandleHeartbeat
  <2> QED BY <1>3, <2>1, NoBeatTyped DEF HandleHeartbeat, BeatOK, CountOK
<1>4. CASE HeartbeatLost
  BY <1>4, NoBeatTyped DEF HeartbeatLost, RowsOK, BeatOK, BoxOK, CountOK, PastOK, FaultsAssumption
<1> QED BY <1>1, <1>2, <1>3, <1>4 DEF Beats

(* A call begins; what it starts, no other call is about.                      *)
Begins(r) ==
  /\ Idle(r) /\ UNCHANGED <<task, os, rows, known, overtaken>>
  /\ \A q \in Requests \ {r} : request'[q] = request[q]
  /\ \/ /\ request'[r].kind = "start" /\ request'[r].proc \in Procs /\ request'[r].at = "checked"
        /\ \A q \in Requests : request[q].proc # request'[r].proc
     \/ request'[r].kind = "list" /\ request'[r].at = "ready"
     \/ /\ request'[r].kind \in {"get", "stop"} /\ request'[r].proc \in Procs
        /\ request'[r].at = "ready"

(* A call that has begun keeps its subject and goes on.                        *)
Continues(r) ==
  /\ request'[r].kind = request[r].kind /\ request'[r].proc = request[r].proc
  /\ \/ request'[r] = request[r]
     \/ StartCreatesRow(r) /\ request'[r].at = "ready"
     \/ StartSucceeds(r) /\ request'[r].at = "confirmed"
     \/ ~Idle(r) /\ request'[r].at \in {"asked", "failed", "over"}

LEMMA CallsKept ==
  ASSUME TypeOK, [Next]_vars, NEW r \in Requests
  PROVE  Continues(r) \/ Begins(r)
<1> USE TypeParts
<1>1. ASSUME UNCHANGED request PROVE Continues(r)
  BY <1>1 DEF Continues
<1>2. ASSUME NEW q \in Requests, NEW at \in {"asked", "failed", "over"}, ~Idle(q), Becomes(q, at)
      PROVE  Continues(r)
  BY <1>2 DEF Becomes, CallsOK, Calls, Continues
<1>3. ASSUME NEW q \in Requests, NEW p \in Procs, StartChecked(q, p)
      PROVE  Continues(r) \/ Begins(r)
  BY <1>3 DEF StartChecked, Continues, Begins, CallsOK, runnerVars
<1>4. ASSUME NEW q \in Requests, NEW p \in Procs \cup {None}, NEW kind \in {"list", "get", "stop"},
             LookChecked(q, kind, p), kind # "list" => p \in Procs
      PROVE  Continues(r) \/ Begins(r)
  BY <1>4 DEF LookChecked, Continues, Begins, CallsOK, runnerVars
<1>5. ASSUME NEW q \in Requests, AskFails(q) \/ CallCancelled(q) \/ Ask(q) \/ StartFailed(q)
               \/ ListTaken(q) \/ GetTaken(q) \/ StopTaken(q)
      PROVE  Continues(r)
  BY <1>5, <1>2 DEF AskFails, CallCancelled, Ask, StartFailed, ListTaken, GetTaken, StopTaken,
       Answered, Over, Idle
<1>6. ASSUME NEW q \in Requests, StartCreatesRow(q) PROVE Continues(r)
  BY <1>6 DEF StartCreatesRow, Becomes, CallsOK, Calls, Continues
<1>7. ASSUME NEW q \in Requests, StartSucceeds(q) PROVE Continues(r)
  BY <1>7 DEF StartSucceeds, CallsOK, Calls, Continues
<1>8. ASSUME NEW q \in Requests, RunnerRuns(q) PROVE UNCHANGED request
  BY <1>8 DEF RunnerRuns, Spawns, Tracks, Looks, Probes, StopFinds, Terminates, Escalates, Drops
<1>9. ASSUME (\E p \in Procs : ProcessEnds(p)) \/ RunnerRestarts \/ StopSent \/ Stops \/ Beats
             \/ HeartbeatLost \/ UNCHANGED vars
      PROVE  UNCHANGED request
  BY <1>9 DEF ProcessEnds, RunnerRestarts, StopSent, Stops, KillsAll, DropsAll, InstanceStops,
       HandleStopped, Resumes, HandleResumed, Beats, BeatBegins, BeatProbes, HandleHeartbeat,
       HeartbeatLost, vars
<1> QED BY <1>1, <1>3, <1>4, <1>5, <1>6, <1>7, <1>8, <1>9 DEF Next, CallRuns

LEMMA SubjectsStep == TypeOK /\ Subjects /\ [Next]_vars => Subjects'
BY CallsKept DEF Subjects, Begins, Continues

LEMMA StepTyped == FaultsAssumption /\ TypeOK /\ Subjects /\ [Next]_vars => TypeOK'
<1> SUFFICES ASSUME FaultsAssumption, TypeOK, Subjects, [Next]_vars PROVE TypeOK'
  OBVIOUS
<1>1. CASE UNCHANGED vars
  BY <1>1 DEF vars, TypeOK, history, runnerVars
<1> QED BY <1>1, CallsTyped, RunnerTyped, StopsTyped, BeatsTyped DEF Next

(* Rows, calls, handlers, processes and reports keep their types, with any     *)
(* number of calls under way at once.                                          *)
THEOREM TypeCorrect == ASSUME FaultsAssumption PROVE Spec => []TypeOK
<1>1. Init => TypeOK /\ Subjects
  BY InitTyped DEF Init, Subjects, NoRequest
<1>2. TypeOK /\ Subjects /\ [Next]_vars => (TypeOK /\ Subjects)'
  BY StepTyped, SubjectsStep
<1> QED BY <1>1, <1>2, PTL DEF Spec
-----------------------------------------------------------------------------
(* The invariant                                                              *)

(* A process that is dead stays so, and an entry that was lost has been lost.  *)
Dead(p) == os[p] \in {"exited", "gone"}
Lost(p) == Dead(p) \/ p \in forgotten

(* What is dropped from the entries is dead or forgotten, and only what a call *)
(* is about was ever started.                                                  *)
EntriesTell ==
  /\ tracked \subseteq known
  /\ \A p \in known : os[p] # "none" /\ (p \notin tracked => Lost(p))
  /\ \A p \in Procs : os[p] # "none" => \E r \in Requests : request[r].proc = p

(* Each process is started by one call, and at most once.                      *)
StartsOnce ==
  \A q, r \in Requests : request[q].kind = "start" /\ request[r].kind = "start"
                         /\ request[q].proc = request[r].proc => q = r
Once(r) ==
  /\ request[r].at = "idle" => request[r] = NoRequest
  /\ request[r].at \in {"idle", "checked", "ready"} => task[r].at \in {"none", "lost"}
  /\ request[r].kind = "start" =>
       /\ request[r].at \in {"checked", "ready"} \/ task[r].at = "sent" => os[request[r].proc] = "none"
       /\ task[r].at = "spawned" => os[request[r].proc] # "none"
       /\ task[r].at = "answered" /\ task[r].result = "ok" => request[r].proc \in known
  /\ request[r].at = "confirmed" => request[r].kind = "start" /\ request[r].proc \in known

(* Nothing lives in an instance that has stopped.                              *)
Boxed ==
  /\ box = "exited" => \A p \in Procs : os[p] # "alive"
  /\ stopping = "stopped" => box = "exited"

(* A report speaks the truth of what it names as exited; what it leaves out    *)
(* was lost, or not there yet when it was begun.                               *)
Exits(report) == \A p \in Procs : report[p] = "exited" => os[p] = "exited"
Misses(report, todo, early) ==
  \A p \in Procs : report[p] = "absent" => p \in todo \/ p \in early \/ Lost(p)

BeatTells == beat.at # "idle" =>
  /\ Exits(beat.report) /\ Misses(beat.report, beat.todo, beat.early)
  /\ beat.at = "sent" => beat.todo = {}
  /\ beat.box = "exited" => \A p \in Procs : p \in beat.early \/ Lost(p)

TaskTells(r) ==
  /\ request[r].kind \in {"list", "get"} /\ task[r].at \in {"probing", "answered"} =>
       Exits(task[r].report)
  /\ request[r].kind = "list" =>
       /\ task[r].at = "probing" => Misses(task[r].report, task[r].todo, task[r].early)
       /\ task[r].at = "answered" /\ task[r].result = "ok" =>
            Misses(task[r].report, {}, task[r].early)
  /\ request[r].kind = "stop" =>
       /\ task[r].at \in {"found", "termed", "dead"} => request[r].proc \in known
       /\ task[r].at = "dead" => Dead(request[r].proc)
       /\ task[r].at = "answered" /\ task[r].result # "error" =>
            request[r].proc \in task[r].early \/ Lost(request[r].proc)

(* So a row that has ended after the start was confirmed has ended rightly.    *)
Covered == \A p \in Procs : Confirmed(p) /\ Ended(rows[p].status) => Lost(p) \/ p \in overtaken

Inv ==
  /\ TypeOK /\ Subjects /\ EntriesTell /\ StartsOnce /\ (\A r \in Requests : Once(r)) /\ Boxed
  /\ BeatTells /\ (\A r \in Requests : TaskTells(r)) /\ Covered

LEMMA InvInit == NoneAssumption /\ FaultsAssumption /\ Init => Inv
<1> SUFFICES ASSUME NoneAssumption, FaultsAssumption, Init PROVE Inv
  OBVIOUS
<1>1. TypeOK
  BY InitTyped
<1>2. Subjects /\ StartsOnce /\ (\A r \in Requests : Once(r))
  BY DEF Init, Subjects, StartsOnce, Once, NoRequest, NoTask
<1>3. EntriesTell /\ Boxed /\ BeatTells
  BY DEF Init, EntriesTell, Boxed, BeatTells, NoBeat
<1>4. \A r \in Requests : TaskTells(r)
  BY DEF Init, TaskTells, NoRequest
<1>5. Covered
  BY DEF Init, Covered, Confirmed, NoRequest
<1> QED BY <1>1, <1>2, <1>3, <1>4, <1>5 DEF Inv
-----------------------------------------------------------------------------
(* What a step can do to a process, to a handler of the runner, to a heartbeat *)

Dies(p) == os[p] = "alive" /\ os'[p] \in {"exited", "gone"}
Spawned(r, p) ==
  /\ Spawns(r) /\ request[r].proc = p /\ box = "running" /\ os'[p] = "alive"
  /\ task'[r].at = "spawned"

LEMMA ProcessSteps ==
  ASSUME TypeOK, [Next]_vars, NEW p \in Procs
  PROVE  os'[p] = os[p] \/ Dies(p) \/ \E r \in Requests : Spawned(r, p)
<1> USE TypeParts
<1>1. ASSUME UNCHANGED os PROVE os'[p] = os[p]
  BY <1>1
<1>2. ASSUME NEW r \in Requests, Spawns(r) PROVE os'[p] = os[p] \/ Spawned(r, p)
  <2>1. CASE box = "running"
    <3>1. os' = [os EXCEPT ![request[r].proc] = "alive"] /\ Steps(r, "spawned")
      BY <1>2, <2>1 DEF Spawns
    <3>2. task'[r].at = "spawned"
      BY <3>1 DEF Steps, TasksOK, Handlings
    <3> QED BY <1>2, <2>1, <3>1, <3>2 DEF Spawned, ProcsOK
  <2> QED BY <1>2, <2>1 DEF Spawns
<1>3. ASSUME NEW r \in Requests, Terminates(r) \/ Escalates(r) PROVE os'[p] = os[p] \/ Dies(p)
  BY <1>3 DEF Terminates, Escalates, Dies, ProcsOK
<1>4. ASSUME NEW q \in Procs, ProcessEnds(q) PROVE os'[p] = os[p] \/ Dies(p)
  BY <1>4 DEF ProcessEnds, Dies, ProcsOK
<1>5. ASSUME KillsAll \/ InstanceStops PROVE os'[p] = os[p] \/ Dies(p)
  BY <1>5 DEF KillsAll, InstanceStops, Dies
<1>6. ASSUME NEW r \in Requests,
             \/ \E q \in Procs : StartChecked(r, q) \/ \E kind \in {"get", "stop"} : LookChecked(r, kind, q)
             \/ LookChecked(r, "list", None) \/ AskFails(r) \/ CallCancelled(r) \/ CallRuns(r)
      PROVE  UNCHANGED os
  BY <1>6 DEF StartChecked, LookChecked, AskFails, CallCancelled, CallRuns, StartCreatesRow, Ask,
       StartFailed, StartSucceeds, ListTaken, GetTaken, StopTaken, Answered, runnerVars
<1>7. ASSUME NEW r \in Requests, Tracks(r) \/ Looks(r) \/ Probes(r) \/ StopFinds(r) \/ Drops(r)
      PROVE  UNCHANGED os
  BY <1>7 DEF Tracks, Looks, Probes, StopFinds, Drops, runnerVars
<1>8. ASSUME RunnerRestarts \/ StopSent \/ DropsAll \/ HandleStopped \/ Resumes \/ HandleResumed
             \/ Beats \/ HeartbeatLost \/ UNCHANGED vars
      PROVE  UNCHANGED os
  BY <1>8 DEF RunnerRestarts, StopSent, DropsAll, HandleStopped, Resumes, HandleResumed,
       Beats, BeatBegins, BeatProbes, HandleHeartbeat, HeartbeatLost, vars, runnerVars
<1> QED BY <1>1, <1>2, <1>3, <1>4, <1>5, <1>6, <1>7, <1>8 DEF Next, RunnerRuns, Stops

(* What is history does not change.                                            *)
Ages ==
  /\ \A p \in Procs : (Dead(p) => os'[p] = os[p]) /\ (os[p] # "none" => os'[p] # "none")
  /\ known \subseteq known' /\ forgotten \subseteq forgotten' /\ overtaken \subseteq overtaken'

LEMMA HistoryGrows ==
  ASSUME [Next]_vars
  PROVE  known \subseteq known' /\ forgotten \subseteq forgotten' /\ overtaken \subseteq overtaken'
<1>1. ASSUME NEW r \in Requests,
             \/ \E q \in Procs : StartChecked(r, q) \/ \E kind \in {"get", "stop"} : LookChecked(r, kind, q)
             \/ LookChecked(r, "list", None) \/ AskFails(r) \/ CallCancelled(r) \/ CallRuns(r)
      PROVE  UNCHANGED <<known, forgotten>> /\ overtaken \subseteq overtaken'
  BY <1>1 DEF StartChecked, LookChecked, AskFails, CallCancelled, CallRuns, StartCreatesRow, Ask,
       StartFailed, StartSucceeds, ListTaken, GetTaken, StopTaken, Answered, runnerVars, Reconciled
<1>2. ASSUME NEW r \in Requests, RunnerRuns(r)
      PROVE  UNCHANGED <<forgotten, overtaken>> /\ known \subseteq known'
  BY <1>2 DEF RunnerRuns, Spawns, Tracks, Looks, Probes, StopFinds, Terminates, Escalates, Drops,
       runnerVars, history
<1>3. CASE (\E p \in Procs : ProcessEnds(p)) \/ RunnerRestarts \/ StopSent \/ Stops \/ Beats
           \/ HeartbeatLost \/ UNCHANGED vars
  BY <1>3 DEF ProcessEnds, RunnerRestarts, StopSent, Stops, KillsAll, DropsAll, InstanceStops,
       HandleStopped, Resumes, HandleResumed, Beats, BeatBegins, BeatProbes, HandleHeartbeat,
       HeartbeatLost, vars, runnerVars, history, KilledWithWorkspace, Reconciled
<1> QED BY <1>1, <1>2, <1>3 DEF Next

LEMMA AgesStep == Inv /\ [Next]_vars => Ages
<1> SUFFICES ASSUME Inv, [Next]_vars PROVE Ages
  OBVIOUS
<1>1. ASSUME NEW p \in Procs
      PROVE  (Dead(p) => os'[p] = os[p]) /\ (os[p] # "none" => os'[p] # "none")
  <2>1. ASSUME NEW r \in Requests, Spawned(r, p) PROVE os[p] = "none"
    BY <2>1 DEF Inv, Once, Spawned, Spawns, TaskIs
  <2> QED BY <2>1, ProcessSteps DEF Inv, Dies, Dead
<1> QED BY <1>1, HistoryGrows DEF Ages

LEMMA LostStays ==
  ASSUME Ages, NEW p \in Procs
  PROVE  (Dead(p) => Dead(p)') /\ (Lost(p) => Lost(p)')
BY DEF Ages, Dead, Lost

LEMMA ReportStays ==
  ASSUME Ages, Inv
  PROVE  \A report \in Reports :
           /\ Exits(report) => \A p \in Procs : report[p] = "exited" => os'[p] = "exited"
           /\ \A todo, early : Misses(report, todo, early) =>
                \A p \in Procs : report[p] = "absent" => p \in todo \/ p \in early \/ Lost(p)'
<1>1. \A p \in Procs : (Lost(p) => Lost(p)') /\ (os[p] = "exited" => os'[p] = "exited")
  BY LostStays DEF Ages, Dead
<1> QED BY <1>1 DEF Exits, Misses

LEMMA TaskSteps ==
  ASSUME TypeOK, [Next]_vars, NEW r \in Requests
  PROVE  \/ task'[r] = task[r]
         \/ Ask(r) /\ task'[r].at = "sent" /\ UNCHANGED os
         \/ RunnerRestarts /\ task[r].at # "answered" /\ task'[r].at = "lost"
         \/ RunnerRuns(r)
<1> USE TypeParts
<1>1. ASSUME UNCHANGED task PROVE task'[r] = task[r]
  BY <1>1
<1>2. ASSUME NEW q \in Requests,
             \/ \E p \in Procs : StartChecked(q, p) \/ \E kind \in {"get", "stop"} : LookChecked(q, kind, p)
             \/ LookChecked(q, "list", None) \/ AskFails(q) \/ CallCancelled(q) \/ StartCreatesRow(q)
             \/ StartFailed(q) \/ StartSucceeds(q) \/ ListTaken(q) \/ GetTaken(q) \/ StopTaken(q)
      PROVE  UNCHANGED task
  BY <1>2 DEF StartChecked, LookChecked, AskFails, CallCancelled, StartCreatesRow,
       StartFailed, StartSucceeds, ListTaken, GetTaken, StopTaken, Answered, runnerVars
<1>3. ASSUME NEW q \in Requests, Ask(q)
      PROVE  task'[r] = task[r] \/ (Ask(r) /\ task'[r].at = "sent" /\ UNCHANGED os)
  BY <1>3 DEF Ask, TasksOK, Handlings, runnerVars
<1>4. ASSUME NEW q \in Requests, RunnerRuns(q), q # r PROVE task'[r] = task[r]
  <2>1. ASSUME NEW x, task' = [task EXCEPT ![q] = x] PROVE task'[r] = task[r]
    BY <2>1, <1>4 DEF TasksOK
  <2>2. \E x : task' = [task EXCEPT ![q] = x]
    <3>1. ASSUME NEW at, Steps(q, at) PROVE \E x : task' = [task EXCEPT ![q] = x]
      BY <3>1 DEF Steps
    <3>2. ASSUME NEW t, AnswersWith(q, t) PROVE \E x : task' = [task EXCEPT ![q] = x]
      BY <3>2 DEF AnswersWith
    <3>3. CASE Spawns(q) \/ Tracks(q) \/ Terminates(q) \/ Escalates(q) \/ Drops(q)
      BY <3>1, <3>2, <3>3 DEF Spawns, Tracks, Terminates, Escalates, Drops
    <3>4. CASE Looks(q) \/ StopFinds(q)
      BY <3>1, <3>2, <3>4 DEF Looks, StopFinds
    <3>5. CASE Probes(q)
      BY <3>5, Zenon DEF Probes
    <3> QED BY <1>4, <3>3, <3>4, <3>5 DEF RunnerRuns
  <2> QED BY <2>1, <2>2
<1>5. CASE RunnerRestarts
  BY <1>5 DEF RunnerRestarts, TasksOK, Handlings, NoTask
<1>6. CASE (\E p \in Procs : ProcessEnds(p)) \/ StopSent \/ Stops \/ Beats \/ HeartbeatLost
           \/ UNCHANGED vars
  BY <1>6 DEF ProcessEnds, StopSent, Stops, KillsAll, DropsAll, InstanceStops,
       HandleStopped, Resumes, HandleResumed, Beats, BeatBegins, BeatProbes, HandleHeartbeat,
       HeartbeatLost, vars
<1> QED BY <1>1, <1>2, <1>3, <1>4, <1>5, <1>6 DEF Next, CallRuns

LEMMA BeatSteps ==
  ASSUME [Next]_vars
  PROVE  UNCHANGED beat \/ beat' = NoBeat \/ BeatBegins \/ BeatProbes
<1>1. ASSUME NEW r \in Requests,
             \/ \E q \in Procs : StartChecked(r, q) \/ \E kind \in {"get", "stop"} : LookChecked(r, kind, q)
             \/ LookChecked(r, "list", None) \/ AskFails(r) \/ CallCancelled(r) \/ CallRuns(r)
             \/ RunnerRuns(r)
      PROVE  UNCHANGED beat
  BY <1>1 DEF StartChecked, LookChecked, AskFails, CallCancelled, CallRuns, StartCreatesRow, Ask,
       StartFailed, StartSucceeds, ListTaken, GetTaken, StopTaken, Answered,
       RunnerRuns, Spawns, Tracks, Looks, Probes, StopFinds, Terminates, Escalates, Drops
<1>2. CASE (\E p \in Procs : ProcessEnds(p)) \/ RunnerRestarts \/ StopSent \/ Stops \/ Beats
           \/ HeartbeatLost \/ UNCHANGED vars
  BY <1>2 DEF ProcessEnds, RunnerRestarts, StopSent, Stops, KillsAll, DropsAll, InstanceStops,
       HandleStopped, Resumes, HandleResumed, Beats, HandleHeartbeat, HeartbeatLost, vars
<1> QED BY <1>1, <1>2 DEF Next
-----------------------------------------------------------------------------
(* Starts                                                                     *)

LEMMA StartsOnceStep == Inv /\ [Next]_vars => StartsOnce'
<1> SUFFICES ASSUME Inv, [Next]_vars PROVE StartsOnce'
  OBVIOUS
<1>1. \A r \in Requests : Continues(r) \/ Begins(r)
  BY CallsKept DEF Inv
<1>2. ASSUME NEW q \in Requests, NEW r \in Requests, Begins(q), Begins(r) PROVE q = r
  BY <1>2 DEF Inv, Once, Begins, Idle, NoRequest
<1> QED BY <1>1, <1>2 DEF Inv, StartsOnce, Continues, Begins

LEMMA OnceStep == ASSUME Inv, [Next]_vars, NEW r \in Requests PROVE Once(r)'
<1>1. Ages
  BY AgesStep
<1>2. CASE Begins(r)
  BY <1>2 DEF Inv, Once, Begins, EntriesTell, Idle
<1>3. CASE Continues(r)
  <2>1. ASSUME request[r].kind = "start",
               os[request[r].proc] = "none",
               request'[r].at \in {"checked", "ready"} \/ task'[r].at = "sent"
        PROVE  os'[request[r].proc] = "none"
    <3>1. request[r].proc \in Procs
      BY <2>1 DEF Inv, Subjects
    <3>2. ASSUME NEW q \in Requests, Spawned(q, request[r].proc) PROVE FALSE
      <4>1. q = r
        BY <3>2, <2>1 DEF Inv, StartsOnce, Spawned, Spawns, TaskIs
      <4>2. task[r].at = "sent" /\ task'[r].at = "spawned" /\ request' = request
        BY <4>1, <3>2 DEF Spawned, Spawns, TaskIs
      <4> QED BY <4>2, <2>1 DEF Inv, Once
    <3> QED BY <3>1, <3>2, <2>1, ProcessSteps DEF Inv, Dies
  <2>2. CASE task'[r] = task[r]
    <3>1. request'[r].at \in {"idle", "checked", "ready"} => request[r].at \in {"idle", "checked", "ready"}
      BY <1>3 DEF Continues, StartCreatesRow
    <3>2. request'[r].at = "idle" => request'[r] = NoRequest
      BY <1>3 DEF Continues, Inv, Once
    <3>3. request'[r].at = "confirmed" => request'[r].kind = "start" /\ request'[r].proc \in known'
      BY <1>3, <1>1 DEF Continues, Inv, Once, StartSucceeds, Answered, Ages
    <3>4. request'[r].kind = "start" =>
       /\ request'[r].at \in {"checked", "ready"} \/ task'[r].at = "sent" => os'[request'[r].proc] = "none"
       /\ task'[r].at = "spawned" => os'[request'[r].proc] # "none"
       /\ task'[r].at = "answered" /\ task'[r].result = "ok" => request'[r].proc \in known'
      <4> SUFFICES ASSUME request'[r].kind = "start" PROVE
           /\ request'[r].at \in {"checked", "ready"} \/ task'[r].at = "sent" => os'[request[r].proc] = "none"
           /\ task'[r].at = "spawned" => os'[request[r].proc] # "none"
           /\ task'[r].at = "answered" /\ task'[r].result = "ok" => request[r].proc \in known'
        BY <1>3 DEF Continues
      <4>1. request[r].kind = "start" /\ request[r].proc \in Procs
        BY <1>3 DEF Continues, Inv, Subjects
      <4>2. request'[r].at \in {"checked", "ready"} => request[r].at \in {"checked", "ready"}
        BY <1>3 DEF Continues, StartCreatesRow
      <4> QED BY <4>1, <4>2, <2>1, <2>2, <1>1 DEF Inv, Once, Ages
    <3> QED BY <3>1, <3>2, <3>3, <3>4, <2>2 DEF Inv, Once
  <2>3. CASE Ask(r) /\ task'[r].at = "sent" /\ UNCHANGED os
    <3>1. request'[r].at = "asked"
      BY <2>3, TypeParts DEF Ask, Becomes, CallsOK, Calls, Inv
    <3> QED BY <3>1, <2>3, <1>3 DEF Ask, Inv, Once, Continues
  <2>4. CASE RunnerRestarts /\ task[r].at # "answered" /\ task'[r].at = "lost"
    BY <2>4, <1>1 DEF RunnerRestarts, Inv, Once, Ages
  <2>5. CASE RunnerRuns(r)
    <3>1. UNCHANGED request /\ task[r].at \in {"sent", "spawned", "probing", "found", "termed", "dead"}
      BY <2>5 DEF RunnerRuns, Spawns, Tracks, Looks, Probes, StopFinds, Terminates, Escalates, Drops,
           TaskIs
    <3>2. request[r].at \notin {"idle", "checked", "ready"}
      BY <3>1 DEF Inv, Once
    <3>3. ASSUME request[r].kind = "start" PROVE
       /\ task'[r].at # "sent"
       /\ task'[r].at = "spawned" => os'[request[r].proc] # "none"
       /\ task'[r].at = "answered" /\ task'[r].result = "ok" => request[r].proc \in known'
      <4>0. request[r].proc \in Procs
        BY <3>3 DEF Inv, Subjects
      <4>1. CASE Spawns(r)
        <5>1. os \in [Procs -> {"none", "alive", "exited", "gone"}] /\ task \in [Requests -> Handlings]
          BY TypeParts DEF Inv, ProcsOK, TasksOK
        <5>2. CASE box = "running"
          <6>1. os'[request[r].proc] = "alive"
            BY <5>1, <5>2, <4>0, <4>1 DEF Spawns
          <6>2. task'[r].at = "spawned"
            BY <5>1, <5>2, <4>1 DEF Spawns, Steps, Handlings
          <6> QED BY <6>1, <6>2
        <5>3. CASE box # "running"
          <6>1. AnswersWith(r, "error")
            BY <5>3, <4>1 DEF Spawns
          <6> QED BY <6>1, <5>1 DEF AnswersWith, Handlings, NoTask
        <5> QED BY <5>2, <5>3
      <4>2. CASE Tracks(r)
        BY <4>0, <4>2, TypeParts DEF Inv, Tracks, AnswersWith, TasksOK, Handlings, NoTask
      <4> QED BY <2>5, <3>3, <4>1, <4>2
              DEF RunnerRuns, Looks, Probes, StopFinds, Terminates, Escalates, Drops, TaskIs
    <3> QED BY <3>1, <3>2, <3>3, <1>1 DEF Inv, Once, Ages
  <2> QED BY <2>2, <2>3, <2>4, <2>5, TaskSteps DEF Inv
<1> QED BY <1>2, <1>3, CallsKept DEF Inv
-----------------------------------------------------------------------------
(* Entries, the instance                                                      *)

LEMMA SharedSteps ==
  ASSUME [Next]_vars
  PROVE  /\ \/ UNCHANGED <<tracked, known>> \/ RunnerRestarts \/ DropsAll
            \/ \E r \in Requests : Tracks(r) \/ Drops(r)
         /\ UNCHANGED <<box, stopping>> \/ (UNCHANGED box /\ stopping' # "stopped")
            \/ InstanceStops \/ Resumes
<1>1. ASSUME NEW r \in Requests,
             \/ \E q \in Procs : StartChecked(r, q) \/ \E kind \in {"get", "stop"} : LookChecked(r, kind, q)
             \/ LookChecked(r, "list", None) \/ AskFails(r) \/ CallCancelled(r) \/ CallRuns(r)
      PROVE  UNCHANGED <<tracked, known, box, stopping>>
  BY <1>1 DEF StartChecked, LookChecked, AskFails, CallCancelled, CallRuns, StartCreatesRow, Ask,
       StartFailed, StartSucceeds, ListTaken, GetTaken, StopTaken, Answered, runnerVars
<1>2. ASSUME NEW r \in Requests, RunnerRuns(r)
      PROVE  UNCHANGED <<box, stopping>> /\ (UNCHANGED <<tracked, known>> \/ Tracks(r) \/ Drops(r))
  BY <1>2 DEF RunnerRuns, Spawns, Tracks, Looks, Probes, StopFinds, Terminates, Escalates, Drops,
       runnerVars, history
<1>3. CASE (\E p \in Procs : ProcessEnds(p)) \/ RunnerRestarts \/ StopSent \/ Stops \/ Beats
           \/ HeartbeatLost \/ UNCHANGED vars
  BY <1>3 DEF ProcessEnds, RunnerRestarts, StopSent, Stops, KillsAll, DropsAll,
       InstanceStops, HandleStopped, HandleResumed, Beats, BeatBegins, BeatProbes, HandleHeartbeat,
       HeartbeatLost, vars, runnerVars, history, Resumes
<1> QED BY <1>1, <1>2, <1>3 DEF Next

LEMMA EntriesTellStep == NoneAssumption /\ Inv /\ [Next]_vars => EntriesTell'
<1> SUFFICES ASSUME NoneAssumption, Inv, [Next]_vars PROVE EntriesTell'
  OBVIOUS
<1>1. Ages
  BY AgesStep
<1>2. ASSUME NEW p \in Procs, os'[p] # "none" PROVE \E r \in Requests : request'[r].proc = p
  <2>1. \E r \in Requests : request[r].proc = p
    <3>1. CASE os[p] # "none"
      BY <3>1 DEF Inv, EntriesTell
    <3>2. CASE os[p] = "none"
      BY <1>2, <3>2, ProcessSteps DEF Inv, Dies, Spawned
    <3> QED BY <3>1, <3>2
  <2>2. PICK r \in Requests : request[r].proc = p
    BY <2>1
  <2>3. ~Begins(r)
    BY <2>2 DEF Inv, Begins, Once, Idle, NoRequest, NoneAssumption
  <2> QED BY <2>2, <2>3, CallsKept DEF Inv, Continues
<1> DEFINE Tell == tracked \subseteq known
                   /\ \A p \in known : os[p] # "none" /\ (p \notin tracked => Lost(p))
<1>3. Tell'
  <2>1. Tell /\ known \in SUBSET Procs
    BY TypeParts DEF Inv, EntriesTell, PastOK
  <2>2. CASE UNCHANGED <<tracked, known>>
    BY <2>1, <2>2, <1>1, LostStays DEF Ages
  <2>3. ASSUME NEW r \in Requests, Tracks(r) PROVE Tell'
    <3>1. request[r].proc \in Procs /\ os[request[r].proc] # "none"
      BY <2>3 DEF Inv, Subjects, Once, Tracks, TaskIs
    <3>2. /\ tracked' = tracked \cup {request[r].proc} /\ known' = known \cup {request[r].proc}
          /\ os' = os /\ forgotten' = forgotten
      BY <2>3 DEF Tracks
    <3> QED BY <2>1, <3>1, <3>2 DEF Lost, Dead
  <2>4. ASSUME NEW r \in Requests, Drops(r) PROVE Tell'
    <3>1. Dead(request[r].proc)
      BY <2>4 DEF Inv, TaskTells, Drops, TaskIs
    <3>2. tracked' = tracked \ {request[r].proc} /\ UNCHANGED <<os, known, forgotten>>
      BY <2>4 DEF Drops, history
    <3> QED BY <2>1, <3>1, <3>2 DEF Lost, Dead
  <2>5. CASE RunnerRestarts \/ DropsAll
    <3>1. UNCHANGED os /\ \A p \in known' : p \in known \/ os[p] = "alive"
      BY <2>5 DEF RunnerRestarts, DropsAll, history
    <3>2. known \subseteq known'
      BY <1>1 DEF Ages
    <3>3. \A p \in known' : os'[p] # "none"
      BY <3>1, <2>1
    <3>4. \A p \in known' : p \notin tracked' => Lost(p)'
      <4>1. CASE RunnerRestarts
        <5>1. /\ UNCHANGED os /\ forgotten' = forgotten \cup {p \in Procs : os[p] = "alive"}
              /\ known' = known \cup {p \in Procs : os[p] = "alive"}
          BY <4>1 DEF RunnerRestarts
        <5>2. os \in [Procs -> {"none", "alive", "exited", "gone"}]
          BY TypeParts DEF Inv, ProcsOK
        <5> QED BY <2>1, <5>1, <5>2 DEF Lost, Dead
      <4>2. CASE DropsAll
        BY <2>1, <3>1, <4>2, TypeParts DEF DropsAll, history, Lost, Dead, ProcsOK, Inv
      <4> QED BY <2>5, <4>1, <4>2
    <3>5. tracked' \subseteq known'
      BY <2>1, <2>5, <3>2 DEF RunnerRestarts, DropsAll, history
    <3> QED BY <3>3, <3>4, <3>5
  <2> QED BY <2>2, <2>3, <2>4, <2>5, SharedSteps
<1> QED BY <1>2, <1>3 DEF EntriesTell

LEMMA BoxedStep == Inv /\ [Next]_vars => Boxed'
<1> SUFFICES ASSUME Inv, [Next]_vars PROVE Boxed'
  OBVIOUS
<1>1. Boxed
  BY DEF Inv
<1>2. ASSUME UNCHANGED box, box = "exited", NEW p \in Procs PROVE os'[p] # "alive"
  BY <1>1, <1>2, ProcessSteps DEF Inv, Boxed, Dies, Spawned
<1>3. CASE UNCHANGED <<box, stopping>> \/ (UNCHANGED box /\ stopping' # "stopped")
  BY <1>1, <1>2, <1>3 DEF Boxed
<1>4. CASE InstanceStops
  BY <1>4 DEF InstanceStops, Boxed
<1>5. CASE Resumes
  BY <1>5 DEF Resumes, Boxed
<1> QED BY <1>3, <1>4, <1>5, SharedSteps
-----------------------------------------------------------------------------
(* Reports                                                                    *)

LEMMA BeatTellsStep == Inv /\ [Next]_vars => BeatTells'
<1> SUFFICES ASSUME Inv, [Next]_vars PROVE BeatTells'
  OBVIOUS
<1>1. Ages /\ beat \in Beatings /\ \A p \in Procs : Lost(p) => Lost(p)'
  BY AgesStep, LostStays, TypeParts DEF Inv, BeatOK
<1>2. CASE UNCHANGED beat
  <2>1. beat.report \in Reports
    BY <1>1 DEF Beatings
  <2> QED BY <1>1, <1>2, <2>1, ReportStays DEF Inv, BeatTells, Exits, Misses
<1>3. CASE beat' = NoBeat
  BY <1>3 DEF BeatTells, NoBeat
<1>4. CASE BeatBegins
  <2>1. beat'.at = "collecting" /\ beat'.box = box /\ beat'.todo = tracked /\ beat'.report = NoReport
        /\ beat'.early = Unknown /\ UNCHANGED <<os, forgotten>>
    BY <1>4 DEF BeatBegins, runnerVars
  <2>2. \A p \in Procs : p \in tracked \/ p \in Unknown \/ Lost(p)
    BY DEF Inv, EntriesTell, Unknown
  <2>3. box = "exited" => \A p \in Procs : p \in Unknown \/ Lost(p)
    BY TypeParts DEF Inv, EntriesTell, Boxed, Unknown, Lost, Dead, ProcsOK
  <2>4. Exits(beat.report)'
    BY <2>1 DEF Exits, NoReport
  <2>5. Misses(beat.report, beat.todo, beat.early)'
    BY <1>1, <2>1, <2>2 DEF Misses
  <2> QED BY <1>1, <2>1, <2>3, <2>4, <2>5 DEF BeatTells
<1>5. CASE BeatProbes
  <2>1. beat.at = "collecting" /\ UNCHANGED <<os, forgotten>>
    BY <1>5 DEF BeatProbes, runnerVars
  <2>2. CASE beat' = NoBeat
    BY <2>2 DEF BeatTells, NoBeat
  <2>3. CASE beat.todo = {} /\ beat' = [beat EXCEPT !.at = "sent"]
    <3>1. /\ beat'.at = "sent" /\ beat'.todo = {} /\ beat'.box = beat.box
          /\ beat'.early = beat.early /\ beat'.report = beat.report
      BY <1>1, <2>3 DEF Beatings
    <3> QED BY <2>1, <2>3, <3>1 DEF Inv, BeatTells, Exits, Misses, Lost, Dead
  <2>4. ASSUME NEW p \in beat.todo,
               beat' = [beat EXCEPT !.todo = @ \ {p}, !.report[p] = SaysOf(p)]
        PROVE  BeatTells'
    <3>1. /\ beat'.at = "collecting" /\ beat'.box = beat.box /\ beat'.todo = beat.todo \ {p}
          /\ beat'.early = beat.early
          /\ \A q \in Procs : beat'.report[q] = IF q = p THEN SaysOf(p) ELSE beat.report[q]
      BY <1>1, <2>1, <2>4 DEF Beatings, Reports
    <3>2. SaysOf(p) # "absent" /\ (SaysOf(p) = "exited" => os[p] = "exited")
      BY DEF SaysOf
    <3> QED BY <2>1, <3>1, <3>2 DEF Inv, BeatTells, Exits, Misses, Lost, Dead
  <2>5. \/ beat' = NoBeat
        \/ beat.todo = {} /\ beat' = [beat EXCEPT !.at = "sent"]
        \/ \E p \in beat.todo : beat' = [beat EXCEPT !.todo = @ \ {p}, !.report[p] = SaysOf(p)]
    BY <1>5 DEF BeatProbes
  <2> QED BY <2>2, <2>3, <2>4, <2>5
<1> QED BY <1>2, <1>3, <1>4, <1>5, BeatSteps

LEMMA TaskTellsStep == ASSUME Inv, [Next]_vars, NEW r \in Requests PROVE TaskTells(r)'
<1>1. Ages /\ task[r] \in Handlings /\ \A p \in Procs : (Dead(p) => Dead(p)') /\ (Lost(p) => Lost(p)')
  BY AgesStep, LostStays, TypeParts DEF Inv, TasksOK
<1>2. ASSUME task'[r].at \in {"none", "sent", "lost", "spawned"} PROVE TaskTells(r)'
  BY <1>2 DEF TaskTells
<1>3. CASE Begins(r)
  BY <1>2, <1>3 DEF Begins, Idle, Inv, Once
<1>4. CASE Continues(r) /\ task'[r] = task[r]
  <2>1. request'[r].kind = request[r].kind /\ request'[r].proc = request[r].proc
    BY <1>4 DEF Continues
  <2>2. TaskTells(r) /\ task[r].report \in Reports
    BY <1>1 DEF Inv, Handlings
  <2>3. Exits(task[r].report) => \A p \in Procs : task[r].report[p] = "exited" => os'[p] = "exited"
    BY <2>2, <1>1, ReportStays
  <2>4. \A todo, early : Misses(task[r].report, todo, early) =>
          \A p \in Procs : task[r].report[p] = "absent" => p \in todo \/ p \in early \/ Lost(p)'
    BY <2>2, <1>1, ReportStays
  <2>5. request[r].kind = "stop" => request[r].proc \in Procs
    BY DEF Inv, Subjects
  <2>6. known \subseteq known'
    BY <1>1 DEF Ages
  <2>7. request'[r].kind \in {"list", "get"} /\ task'[r].at \in {"probing", "answered"} =>
          Exits(task[r].report)'
    BY <2>1, <2>2, <2>3, <1>4 DEF TaskTells, Exits
  <2>8. request'[r].kind = "list" =>
       /\ task'[r].at = "probing" => Misses(task[r].report, task[r].todo, task[r].early)'
       /\ task'[r].at = "answered" /\ task'[r].result = "ok" =>
            \A p \in Procs : task'[r].report[p] = "absent" => p \in task'[r].early \/ Lost(p)'
    BY <2>1, <2>2, <2>4, <1>4 DEF TaskTells, Misses
  <2>9. request'[r].kind = "stop" =>
       /\ task'[r].at \in {"found", "termed", "dead"} => request'[r].proc \in known'
       /\ task'[r].at = "dead" => Dead(request[r].proc)'
       /\ task'[r].at = "answered" /\ task'[r].result # "error" =>
            request'[r].proc \in task'[r].early \/ Lost(request[r].proc)'
    BY <2>1, <2>2, <2>5, <2>6, <1>1, <1>4 DEF TaskTells, Dead, Lost
  <2> QED BY <2>7, <2>8, <2>9 DEF TaskTells, Misses
<1>5. CASE Spawns(r) \/ Tracks(r)
  BY <1>5 DEF Spawns, Tracks, TaskIs, TaskTells
<1>6. CASE Looks(r)
  <2>1. UNCHANGED <<request, os, forgotten>>
    BY <1>6 DEF Looks, runnerVars
  <2>2. CASE AnswersWith(r, "error") /\ request[r].kind = "get"
    <3>1. task'[r].report = NoReport
      BY <2>2, <1>1, TypeParts DEF AnswersWith, NoTask, Inv, TasksOK
    <3> QED BY <2>1, <2>2, <3>1 DEF TaskTells, Exits, NoReport
  <2>3. ASSUME NEW todo, request[r].kind = "list" => todo = tracked,
               task' = [task EXCEPT ![r] = [NoTask EXCEPT !.at = "probing", !.todo = todo,
                                                          !.early = Unknown]]
        PROVE  TaskTells(r)'
    <3>1. task'[r].at = "probing" /\ task'[r].report = NoReport /\ task'[r].todo = todo
          /\ task'[r].early = Unknown
      BY <2>3, TypeParts DEF NoTask, Inv, TasksOK
    <3>2. \A p \in Procs : p \in tracked \/ p \in Unknown \/ Lost(p)
      BY DEF Inv, EntriesTell, Unknown
    <3>3. request[r].kind \in {"list", "get"}
      BY <1>6 DEF Looks
    <3> QED BY <2>1, <2>3, <3>1, <3>2, <3>3 DEF TaskTells, Exits, Misses, NoReport, Lost, Dead
  <2> QED BY <1>6, <2>2, <2>3 DEF Looks
<1>7. CASE Probes(r)
  <2>1. task[r].at = "probing" /\ request[r].kind \in {"list", "get"}
        /\ UNCHANGED <<request, os, forgotten>>
    BY <1>7 DEF Probes, runnerVars
  <2>2. Exits(task[r].report)
        /\ (request[r].kind = "list" => Misses(task[r].report, task[r].todo, task[r].early))
    BY <2>1 DEF Inv, TaskTells
  <2>3. CASE task[r].todo = {} /\ task' = [task EXCEPT ![r].at = "answered", ![r].result = "ok"]
    <3>1. task' = [task EXCEPT ![r] = [task[r] EXCEPT !.at = "answered", !.result = "ok"]]
      BY <2>3, Zenon
    <3>2. /\ task'[r].at = "answered" /\ task'[r].report = task[r].report
          /\ task'[r].early = task[r].early
      BY <3>1, <1>1, TypeParts DEF Inv, TasksOK, Handlings
    <3> QED BY <2>1, <2>2, <2>3, <3>2 DEF TaskTells, Exits, Misses, Lost, Dead
  <2>4. ASSUME NEW p \in task[r].todo,
               task' = [task EXCEPT ![r].todo = @ \ {p}, ![r].report[p] = SaysOf(p)]
        PROVE  TaskTells(r)'
    <3>1. task' = [task EXCEPT ![r] = [task[r] EXCEPT !.todo = @ \ {p},
                                         !.report = [task[r].report EXCEPT ![p] = SaysOf(p)]]]
      BY <2>4
    <3>2. /\ task'[r].at = "probing" /\ task'[r].todo = task[r].todo \ {p}
          /\ task'[r].early = task[r].early
          /\ task'[r].report = [task[r].report EXCEPT ![p] = SaysOf(p)]
      BY <2>1, <3>1, <1>1, TypeParts DEF Inv, TasksOK, Handlings
    <3>3. \A q \in Procs : task'[r].report[q] = IF q = p THEN SaysOf(p) ELSE task[r].report[q]
      BY <3>2, <1>1 DEF Handlings, Reports
    <3>4. SaysOf(p) # "absent" /\ (SaysOf(p) = "exited" => os[p] = "exited")
      BY DEF SaysOf
    <3> QED BY <2>1, <2>2, <3>2, <3>3, <3>4 DEF TaskTells, Exits, Misses, Lost, Dead
  <2>5. \/ task[r].todo = {} /\ task' = [task EXCEPT ![r].at = "answered", ![r].result = "ok"]
        \/ \E p \in task[r].todo :
              task' = [task EXCEPT ![r].todo = @ \ {p}, ![r].report[p] = SaysOf(p)]
    BY <1>7 DEF Probes
  <2> QED BY <2>3, <2>4, <2>5
<1>8. CASE StopFinds(r) \/ Terminates(r) \/ Escalates(r) \/ Drops(r)
  <2>1. request[r].kind = "stop" /\ request[r].proc \in Procs /\ UNCHANGED <<request, forgotten>>
        /\ known' = known
    BY <1>8 DEF StopFinds, Terminates, Escalates, Drops, TaskIs, Inv, Subjects, runnerVars, history
  <2>2. task \in [Requests -> Handlings] /\ os \in [Procs -> {"none", "alive", "exited", "gone"}]
    BY TypeParts DEF Inv, TasksOK, ProcsOK
  <2>3. \A p \in known : os[p] # "none" /\ (p \notin tracked => Lost(p))
    BY DEF Inv, EntriesTell
  <2>4. task[r].at \in {"found", "termed", "dead"} => request[r].proc \in known
    BY <2>1 DEF Inv, TaskTells
  <2>5. ASSUME NEW at, Steps(r, at) PROVE task'[r].at = at
    BY <2>2, <2>5 DEF Steps, Handlings
  <2>6. CASE StopFinds(r)
    <3>1. CASE request[r].proc \notin tracked
      <4>1. task'[r].at = "answered" /\ task'[r].early = Unknown
        BY <2>2, <2>6, <3>1 DEF StopFinds, NoTask
      <4>2. request[r].proc \in Unknown \/ Lost(request[r].proc)
        BY <2>1, <2>3, <3>1 DEF Unknown
      <4> QED BY <1>1, <2>1, <4>1, <4>2 DEF TaskTells
    <3>2. CASE request[r].proc \in tracked
      <4>1. Steps(r, IF os[request[r].proc] = "alive" THEN "found" ELSE "dead") /\ UNCHANGED os
        BY <2>6, <3>2 DEF StopFinds, runnerVars
      <4>2. request[r].proc \in known
        BY <3>2 DEF Inv, EntriesTell
      <4>3. os[request[r].proc] # "alive" => Dead(request[r].proc)
        BY <2>1, <2>2, <2>3, <4>2 DEF Dead
      <4> QED BY <1>1, <2>1, <2>5, <4>1, <4>2, <4>3 DEF TaskTells
    <3> QED BY <3>1, <3>2
  <2>7. CASE Terminates(r)
    BY <2>1, <2>4, <2>5, <2>7 DEF Terminates, TaskIs, TaskTells
  <2>8. CASE Escalates(r)
    <3>1. request[r].proc \in known /\ task'[r].at = "dead"
      BY <2>4, <2>5, <2>8 DEF Escalates, TaskIs
    <3>2. Dead(request[r].proc)'
      BY <2>1, <2>2, <2>3, <2>8, <3>1 DEF Escalates, Dead
    <3> QED BY <2>1, <3>1, <3>2 DEF TaskTells, Dead
  <2>9. CASE Drops(r)
    <3>1. task'[r].at = "answered"
      BY <2>2, <2>9 DEF Drops, AnswersWith, NoTask
    <3>2. Lost(request[r].proc)
      BY <2>9 DEF Drops, TaskIs, Inv, TaskTells, Lost
    <3> QED BY <1>1, <2>1, <3>1, <3>2 DEF TaskTells, Lost, Dead
  <2> QED BY <1>8, <2>6, <2>7, <2>8, <2>9
<1> QED BY <1>2, <1>3, <1>4, <1>5, <1>6, <1>7, <1>8, CallsKept, TaskSteps DEF Inv, RunnerRuns
-----------------------------------------------------------------------------
(* Rows                                                                       *)

(* What becomes of the row of a process whose start has been confirmed: it is   *)
(* not ended but for good reason.                                              *)
LEMMA EndsRightly ==
  ASSUME Inv, [Next]_vars, NEW p \in Procs, Confirmed(p), rows'[p].status # rows[p].status,
         Ended(rows'[p].status)
  PROVE  Lost(p)' \/ p \in overtaken'
<1>1. /\ rows \in [Procs -> Rows] /\ os \in [Procs -> {"none", "alive", "exited", "gone"}]
      /\ p \in known /\ os[p] # "none"
  BY TypeParts DEF Inv, RowsOK, ProcsOK, Confirmed, Once, EntriesTell
<1>2. Lost(p) => Lost(p)'
  BY AgesStep, LostStays
<1>3. PICK c \in Requests : request[c].proc = p /\ request[c].at = "confirmed" /\ request[c].kind = "start"
  BY DEF Confirmed, Inv, Once
<1>4. ASSUME NEW S, NEW status, rows' = MarkedAs(S, status) PROVE p \in S
  BY <1>4 DEF MarkedAs
<1>5. ASSUME NEW report, NEW early, Reconciled(report, early), Exits(report), Misses(report, {}, early)
      PROVE  Lost(p) \/ p \in overtaken'
  BY <1>4, <1>5 DEF Reconciled, Exits, Misses, Lost, Dead
<1>6. ASSUME NEW early, KilledWithWorkspace(early), p \in early \/ Lost(p)
      PROVE  Lost(p) \/ p \in overtaken'
  BY <1>4, <1>6 DEF KilledWithWorkspace
<1>7. ASSUME NEW r \in Requests, StartCreatesRow(r) \/ StartSucceeds(r) PROVE FALSE
  BY <1>1, <1>7 DEF StartCreatesRow, StartSucceeds, Rows, Ended
<1>8. ASSUME NEW r \in Requests, StartFailed(r) PROVE FALSE
  BY <1>3, <1>4, <1>8 DEF StartFailed, Inv, StartsOnce
<1>9. ASSUME NEW r \in Requests, ListTaken(r) PROVE Lost(p) \/ p \in overtaken'
  BY <1>5, <1>9 DEF ListTaken, Answered, Inv, TaskTells
<1>10. ASSUME NEW r \in Requests, GetTaken(r) PROVE Lost(p)
  BY <1>4, <1>10 DEF GetTaken, Answered, Inv, TaskTells, Exits, Lost, Dead
<1>11. ASSUME NEW r \in Requests, StopTaken(r) PROVE Lost(p) \/ p \in overtaken'
  BY <1>4, <1>11 DEF StopTaken, Answered, Inv, TaskTells
<1>12. ASSUME HandleStopped PROVE Lost(p) \/ p \in overtaken'
  <2>1. Dead(p)
    BY <1>1, <1>12 DEF HandleStopped, Inv, Boxed, Dead
  <2> QED BY <2>1, <1>6, <1>12 DEF HandleStopped, Lost
<1>13. ASSUME HandleHeartbeat PROVE Lost(p) \/ p \in overtaken'
  <2>1. Exits(beat.report) /\ Misses(beat.report, {}, beat.early)
        /\ (beat.box = "exited" => p \in beat.early \/ Lost(p))
    BY <1>13 DEF HandleHeartbeat, Inv, BeatTells
  <2>2. beat.box \in {"running", "exited"}
    BY TypeParts DEF Inv, BeatOK, Beatings
  <2> QED BY <2>1, <2>2, <1>5, <1>6, <1>13 DEF HandleHeartbeat
<1>14. ASSUME NEW r \in Requests,
             \/ \E q \in Procs : StartChecked(r, q) \/ \E kind \in {"get", "stop"} : LookChecked(r, kind, q)
             \/ LookChecked(r, "list", None) \/ AskFails(r) \/ CallCancelled(r) \/ Ask(r) \/ RunnerRuns(r)
      PROVE  UNCHANGED rows
  BY <1>14 DEF StartChecked, LookChecked, AskFails, CallCancelled, Ask, RunnerRuns, Spawns, Tracks,
       Looks, Probes, StopFinds, Terminates, Escalates, Drops
<1>15. ASSUME (\E q \in Procs : ProcessEnds(q)) \/ RunnerRestarts \/ StopSent \/ KillsAll \/ DropsAll
             \/ InstanceStops \/ Resumes \/ HandleResumed \/ BeatBegins \/ BeatProbes \/ HeartbeatLost
             \/ UNCHANGED vars
      PROVE  UNCHANGED rows
  BY <1>15 DEF ProcessEnds, RunnerRestarts, StopSent, KillsAll, DropsAll, InstanceStops, Resumes,
       HandleResumed, BeatBegins, BeatProbes, HeartbeatLost, vars
<1> QED BY <1>2, <1>7, <1>8, <1>9, <1>10, <1>11, <1>12, <1>13, <1>14, <1>15
        DEF Next, CallRuns, Stops, Beats

LEMMA CoveredStep == Inv /\ [Next]_vars => Covered'
<1> SUFFICES ASSUME Inv, [Next]_vars, NEW p \in Procs, Confirmed(p)', Ended(rows'[p].status)
             PROVE  Lost(p)' \/ p \in overtaken'
  BY DEF Covered
<1>1. CASE Confirmed(p)
  <2>1. CASE rows'[p].status # rows[p].status
    BY <1>1, <2>1, EndsRightly
  <2>2. CASE rows'[p].status = rows[p].status
    BY <1>1, <2>2, AgesStep, LostStays DEF Inv, Covered, Ages
  <2> QED BY <2>1, <2>2
<1>2. CASE ~Confirmed(p)
  <2>1. PICK r \in Requests : request'[r].proc = p /\ request'[r].at = "confirmed"
    BY DEF Confirmed
  <2>2. StartSucceeds(r) /\ request[r].proc = p
    BY <1>2, <2>1, CallsKept DEF Inv, Begins, Continues, Confirmed
  <2>3. rows'[p].status = "running"
    BY <2>2, TypeParts DEF StartSucceeds, Inv, RowsOK
  <2> QED BY <2>3 DEF Ended
<1> QED BY <1>1, <1>2

LEMMA InvStep == NoneAssumption /\ FaultsAssumption /\ Inv /\ [Next]_vars => Inv'
<1> SUFFICES ASSUME NoneAssumption, FaultsAssumption, Inv, [Next]_vars PROVE Inv'
  OBVIOUS
<1>1. TypeOK' /\ Subjects'
  BY StepTyped, SubjectsStep DEF Inv
<1>2. EntriesTell' /\ StartsOnce' /\ Boxed' /\ BeatTells' /\ Covered'
  BY EntriesTellStep, StartsOnceStep, BoxedStep, BeatTellsStep, CoveredStep
<1>3. ASSUME NEW r \in Requests PROVE Once(r)' /\ TaskTells(r)'
  BY OnceStep, TaskTellsStep
<1> QED BY <1>1, <1>2, <1>3 DEF Inv

(* A process whose start was confirmed and whose row says that it ended is     *)
(* dead, unless the runner lost its entry or an answer formed before the entry *)
(* was there wrote it off: however many calls, reports, restarts and stops of  *)
(* the workspace overlap.                                                      *)
THEOREM RowsTellTheTruth ==
  ASSUME NoneAssumption, FaultsAssumption PROVE Spec => []EndedIsDead
<1>1. Init => Inv
  BY InvInit
<1>2. Inv /\ [Next]_vars => Inv'
  BY InvStep
<1>3. Inv => EndedIsDead
  BY DEF Inv, Covered, EndedIsDead, Lost, Dead
<1> QED BY <1>1, <1>2, <1>3, PTL DEF Spec
-----------------------------------------------------------------------------
(* DesktopTunnel. What was sent through a tunnel is in its answers, in the     *)
(* queue of its page, or shown.                                                *)
Views == [pc : {"new", "asking", "looping", "left", "ended", "failed"}, user : {"there", "left"},
          shown : Nat, torn : BOOLEAN, session : Nat]
Sockets == {"none", "connecting", "open", "closing", "ended", "refused"}
Order == [what : {"open", "close"}, t : Tunnels]
Answer == [what : {"opened", "frame", "closed"}, t : Tunnels, n : Nat]

PagesTyped == proxy \in [Tunnels -> Views] /\ queue \in [Tunnels -> Seq(Nat)]
SocketsTyped == socket \in [Tunnels -> Sockets] /\ frames \in [Tunnels -> Nat]
WireTyped == /\ orders \in Seq(Order) /\ answers \in Seq(Answer)
             /\ session \in Nat /\ nextSession \in Nat /\ session < nextSession

(* A page that has not asked has no tunnel, a tunnel without a websocket has   *)
(* no frames, and connections are numbered.                                    *)
Sequel(t) ==
  /\ proxy[t].pc = "new" => socket[t] = "none" /\ queue[t] = <<>> /\ proxy[t].shown = 0
  /\ socket[t] \in {"none", "connecting"} => frames[t] = 0
  /\ proxy[t].session < nextSession
  /\ proxy[t].pc # "new" => proxy[t].session # 0

(* A tunnel is ordered once.                                                   *)
OrderedOnce ==
  /\ \A i \in DOMAIN orders :
       orders[i].what = "open" => socket[orders[i].t] = "none" /\ proxy[orders[i].t].pc # "new"
  /\ \A i, k \in DOMAIN orders :
       orders[i].what = "open" /\ orders[k].what = "open" /\ orders[i].t = orders[k].t => i = k

(* Frames come in the order of their numbers, and the end of a tunnel last.    *)
Numbered ==
  /\ session = 0 => answers = <<>>
  /\ \A i \in DOMAIN answers :
       IF answers[i].what = "frame" THEN answers[i].n \in 1..frames[answers[i].t]
       ELSE answers[i].n = 0
  /\ \A i, k \in DOMAIN answers :
       i < k /\ answers[i].what = "frame" /\ answers[k].what = "frame" /\ answers[i].t = answers[k].t
       => answers[i].n < answers[k].n
NoneAnswered(t) == \A k \in DOMAIN answers : answers[k].t # t
EndAnswered ==
  \A i \in DOMAIN answers : answers[i].what = "closed" =>
    socket[answers[i].t] = "ended" /\ \A k \in DOMAIN answers : k > i => answers[k].t # answers[i].t
EndQueued(t) ==
  \A i \in DOMAIN queue[t] : queue[t][i] = 0 =>
    i = Len(queue[t]) /\ socket[t] = "ended" /\ NoneAnswered(t)

(* What a page has still to show continues what it shows. Nothing is missing   *)
(* unless the connection was lost, and then nothing follows.                   *)
Watches(t) == proxy[t].user = "there" /\ proxy[t].pc \in {"new", "asking", "looping"}
InLine(t) ==
  /\ proxy[t].shown <= frames[t]
  /\ \A i \in DOMAIN queue[t] :
       queue[t][i] = 0 \/ (queue[t][i] = proxy[t].shown + i /\ queue[t][i] <= frames[t])
  /\ \A i \in DOMAIN answers : answers[i].what = "frame" /\ answers[i].t = t
       => answers[i].n > proxy[t].shown + Len(queue[t])
Somewhere(t, n) ==
  \/ n <= proxy[t].shown
  \/ \E i \in DOMAIN queue[t] : queue[t][i] = n
  \/ \E i \in DOMAIN answers : answers[i].what = "frame" /\ answers[i].t = t /\ answers[i].n = n
Kept(t) == \A n \in 1..frames[t] : Somewhere(t, n)
Snapped(t) ==
  /\ session # proxy[t].session /\ socket[t] \notin {"none", "connecting", "open"}
  /\ \A i \in DOMAIN answers : ~(answers[i].what = "frame" /\ answers[i].t = t)
EndShown(t) ==
  proxy[t].pc = "ended" =>
    /\ socket[t] = "ended"
    /\ proxy[t].user = "there" /\ proxy[t].session = session => proxy[t].shown = frames[t]
Flows(t) ==
  /\ EndQueued(t) /\ ~proxy[t].torn /\ EndShown(t)
  /\ Watches(t) => InLine(t) /\ (Kept(t) \/ Snapped(t))

TunnelsTyped == PagesTyped /\ SocketsTyped /\ WireTyped
TunnelInv ==
  /\ TunnelsTyped /\ OrderedOnce /\ Numbered /\ EndAnswered
  /\ \A t \in Tunnels : Sequel(t) /\ Flows(t)

LEMMA TunnelsBegin == Desk!Init => TunnelInv
<1> SUFFICES ASSUME Desk!Init PROVE TunnelInv
  OBVIOUS
<1>1. TunnelsTyped
  BY DEF Desk!Init, TunnelsTyped, PagesTyped, SocketsTyped, WireTyped, Views, Sockets
<1>2. OrderedOnce /\ Numbered /\ EndAnswered
  BY DEF Desk!Init, OrderedOnce, Numbered, EndAnswered
<1>3. ASSUME NEW t \in Tunnels PROVE Sequel(t) /\ Flows(t)
  BY DEF Desk!Init, Sequel, Flows, EndQueued, EndShown, InLine, Kept
<1> QED BY <1>1, <1>2, <1>3 DEF TunnelInv

(* What the steps do to the wire.                                              *)
LEMMA OrderTyped ==
  ASSUME WireTyped, NEW t \in Tunnels, NEW w \in {"open", "close"}, NEW s, Desk!Orders(t, w, s)
  PROVE  /\ orders' \in Seq(Order)
         /\ \/ orders' = orders
            \/ orders' = Append(orders, [what |-> w, t |-> t])
<1>1. [what |-> w, t |-> t] \in Order
  BY DEF Order
<1>2. Append(orders, [what |-> w, t |-> t]) \in Seq(Order)
  BY <1>1, AppendProperties DEF WireTyped
<1> QED BY <1>2 DEF WireTyped, Desk!Orders

LEMMA AnswerTyped ==
  ASSUME WireTyped, NEW t \in Tunnels, NEW w \in {"opened", "frame", "closed"}, NEW n \in Nat,
         Desk!Replies(t, w, n)
  PROVE  /\ answers' \in Seq(Answer)
         /\ \/ answers' = answers /\ session = 0
            \/ answers' = Append(answers, [what |-> w, t |-> t, n |-> n]) /\ session # 0
<1>1. [what |-> w, t |-> t, n |-> n] \in Answer
  BY DEF Answer
<1>2. Append(answers, [what |-> w, t |-> t, n |-> n]) \in Seq(Answer)
  BY <1>1, AppendProperties DEF WireTyped
<1> QED BY <1>2 DEF WireTyped, Desk!Replies

LEMMA AnswerTaken ==
  ASSUME WireTyped, answers # <<>>
  PROVE  /\ Head(answers) \in Answer /\ Head(answers).t \in Tunnels /\ Head(answers).n \in Nat
         /\ Head(answers) = answers[1] /\ 1 \in DOMAIN answers
         /\ Tail(answers) \in Seq(Answer)
         /\ \A i \in DOMAIN Tail(answers) :
              i \in Nat /\ i # 0 /\ i + 1 \in DOMAIN answers /\ Tail(answers)[i] = answers[i + 1]
<1>1. answers \in Seq(Answer)
  BY DEF WireTyped
<1>2. Head(answers) \in Answer
  BY <1>1, Taken
<1>3. Head(answers).t \in Tunnels /\ Head(answers).n \in Nat
  BY <1>2 DEF Answer
<1> QED BY <1>1, <1>2, <1>3, Taken

LEMMA OrderTaken ==
  ASSUME WireTyped, orders # <<>>
  PROVE  /\ Head(orders) \in Order /\ Head(orders).t \in Tunnels
         /\ Head(orders) = orders[1] /\ 1 \in DOMAIN orders
         /\ Tail(orders) \in Seq(Order)
         /\ \A i \in DOMAIN Tail(orders) :
              i \in Nat /\ i # 0 /\ i + 1 \in DOMAIN orders /\ Tail(orders)[i] = orders[i + 1]
<1>1. orders \in Seq(Order)
  BY DEF WireTyped
<1>2. Head(orders) \in Order
  BY <1>1, Taken
<1>3. Head(orders).t \in Tunnels
  BY <1>2 DEF Order
<1> QED BY <1>1, <1>2, <1>3, Taken

LEMMA PageEndsTyped ==
  ASSUME PagesTyped, NEW t \in Tunnels, NEW how \in {"left", "ended", "failed"}, Desk!PageEnds(t, how)
  PROVE  /\ PagesTyped' /\ ~Watches(t)' /\ queue'[t] = <<>>
         /\ proxy'[t] = [proxy[t] EXCEPT !.pc = how]
         /\ \A u \in Tunnels : u # t => proxy'[u] = proxy[u] /\ queue'[u] = queue[u]
<1>1. /\ proxy' = [proxy EXCEPT ![t] = [proxy[t] EXCEPT !.pc = how]]
      /\ queue' = [queue EXCEPT ![t] = <<>>]
  BY DEF Desk!PageEnds
<1>2. proxy[t] \in Views /\ [proxy[t] EXCEPT !.pc = how] \in Views
  BY DEF PagesTyped, Views
<1>3. PagesTyped'
  <2>1. <<>> \in Seq(Nat)
    OBVIOUS
  <2> QED BY <1>1, <1>2, <2>1 DEF PagesTyped
<1>4. proxy'[t] = [proxy[t] EXCEPT !.pc = how] /\ queue'[t] = <<>>
  BY <1>1 DEF PagesTyped
<1>5. \A u \in Tunnels : u # t => proxy'[u] = proxy[u] /\ queue'[u] = queue[u]
  BY <1>1 DEF PagesTyped
<1>6. proxy'[t].pc = how
  BY <1>2, <1>4 DEF Views
<1> QED BY <1>3, <1>4, <1>5, <1>6 DEF Watches

LEMMA TunnelsTypedNext ==
  ASSUME TunnelsTyped, [Desk!Next]_(Desk!vars) PROVE TunnelsTyped'
<1> USE DEF TunnelsTyped
<1>1. ASSUME NEW t \in Tunnels, Desk!Asks(t) PROVE TunnelsTyped'
  <2>1. PagesTyped'
    BY <1>1 DEF Desk!Asks, PagesTyped, Views, WireTyped
  <2> QED BY <1>1, <2>1, OrderTyped DEF Desk!Asks, SocketsTyped, WireTyped
<1>2. ASSUME NEW t \in Tunnels, Desk!Unanswered(t) PROVE TunnelsTyped'
  BY <1>2, PageEndsTyped DEF Desk!Unanswered, SocketsTyped, WireTyped
<1>3. ASSUME NEW t \in Tunnels, Desk!Leaves(t) PROVE TunnelsTyped'
  BY <1>3 DEF Desk!Leaves, PagesTyped, Views, SocketsTyped, WireTyped
<1>4. ASSUME NEW t \in Tunnels, Desk!SeesLeave(t) PROVE TunnelsTyped'
  BY <1>4, PageEndsTyped, OrderTyped DEF Desk!SeesLeave, SocketsTyped, WireTyped
<1>5. ASSUME NEW t \in Tunnels, Desk!ShowsFrame(t) PROVE TunnelsTyped'
  <2>1. PagesTyped'
    <3>1. CASE proxy[t].user = "there"
      <4>1. proxy' = [proxy EXCEPT ![t] = [proxy[t] EXCEPT !.shown = Head(queue[t]),
                        !.torn = proxy[t].torn \/ Head(queue[t]) # proxy[t].shown + 1]]
        BY <1>5, <3>1 DEF Desk!ShowsFrame
      <4>2. queue' = [queue EXCEPT ![t] = Tail(queue[t])]
        BY <1>5, <3>1 DEF Desk!ShowsFrame
      <4>3. Head(queue[t]) \in Nat /\ Tail(queue[t]) \in Seq(Nat)
        BY <1>5 DEF Desk!ShowsFrame, PagesTyped
      <4> QED BY <4>1, <4>2, <4>3 DEF PagesTyped, Views
    <3>2. CASE proxy[t].user # "there"
      <4>1. CASE queue' = [queue EXCEPT ![t] = Tail(queue[t])] /\ UNCHANGED proxy
        <5>1. Tail(queue[t]) \in Seq(Nat)
          BY <1>5 DEF Desk!ShowsFrame, PagesTyped
        <5> QED BY <4>1, <5>1 DEF PagesTyped
      <4>2. CASE Desk!PageEnds(t, "failed")
        BY <4>2, PageEndsTyped
      <4> QED BY <1>5, <3>2, <4>1, <4>2 DEF Desk!ShowsFrame
    <3> QED BY <3>1, <3>2
  <2> QED BY <1>5, <2>1 DEF Desk!ShowsFrame, SocketsTyped, WireTyped
<1>6. ASSUME NEW t \in Tunnels, Desk!ShowsEnd(t) PROVE TunnelsTyped'
  BY <1>6, PageEndsTyped DEF Desk!ShowsEnd, SocketsTyped, WireTyped
<1>7. CASE Desk!Handled
  <2>1. Head(answers) \in Answer /\ Tail(answers) \in Seq(Answer)
    BY <1>7 DEF Desk!Handled, WireTyped
  <2>2. PagesTyped'
    <3> DEFINE r == Head(answers)
    <3>1. r.t \in Tunnels /\ r.n \in Nat /\ queue[r.t] \in Seq(Nat) /\ proxy[r.t] \in Views
      BY <2>1 DEF Answer, PagesTyped
    <3>2. Append(queue[r.t], r.n) \in Seq(Nat)
      BY <3>1, AppendProperties
    <3>3. [proxy[r.t] EXCEPT !.pc = "looping"] \in Views
      BY <3>1 DEF Views
    <3>4. \/ UNCHANGED queue
          \/ queue' = [queue EXCEPT ![r.t] = Append(queue[r.t], r.n)]
      BY <1>7 DEF Desk!Handled, Desk!Delivered, Desk!Queued
    <3>5. \/ UNCHANGED proxy
          \/ proxy' = [proxy EXCEPT ![r.t] = [proxy[r.t] EXCEPT !.pc = "looping"]]
      BY <1>7 DEF Desk!Handled
    <3> HIDE DEF r
    <3> QED BY <3>1, <3>2, <3>3, <3>4, <3>5 DEF PagesTyped
  <2> QED BY <1>7, <2>1, <2>2 DEF Desk!Handled, SocketsTyped, WireTyped
<1>8. CASE Desk!AcceptFails
  <2>1. Head(answers) \in Answer /\ Tail(answers) \in Seq(Answer)
    BY <1>8 DEF Desk!AcceptFails, WireTyped
  <2>2. Head(answers).t \in Tunnels
    BY <2>1 DEF Answer
  <2> QED BY <1>8, <2>1, <2>2, PageEndsTyped DEF Desk!AcceptFails, SocketsTyped, WireTyped
<1>9. CASE Desk!Obeys
  <2>1. Head(orders) \in Order /\ Tail(orders) \in Seq(Order)
    BY <1>9 DEF Desk!Obeys, WireTyped
  <2>2. SocketsTyped'
    BY <1>9, <2>1 DEF Desk!Obeys, Desk!OnClose, Desk!Closed, SocketsTyped, Sockets, Order
  <2> QED BY <1>9, <2>1, <2>2 DEF Desk!Obeys, PagesTyped, WireTyped
<1>10. ASSUME NEW t \in Tunnels, Desk!Connects(t) PROVE TunnelsTyped'
  <2>1. answers' \in Seq(Answer)
    BY <1>10, AnswerTyped DEF Desk!Connects, WireTyped
  <2> QED BY <1>10, <2>1 DEF Desk!Connects, PagesTyped, SocketsTyped, Sockets, WireTyped
<1>11. ASSUME NEW t \in Tunnels, Desk!Refuses(t) PROVE TunnelsTyped'
  BY <1>11 DEF Desk!Refuses, PagesTyped, SocketsTyped, Sockets, WireTyped
<1>12. ASSUME NEW t \in Tunnels, Desk!Reads(t) PROVE TunnelsTyped'
  <2>1. answers' \in Seq(Answer)
    <3>1. frames[t] + 1 \in Nat /\ Desk!Replies(t, "frame", frames[t] + 1)
      BY <1>12 DEF Desk!Reads, SocketsTyped
    <3> QED BY <3>1, AnswerTyped
  <2> QED BY <1>12, <2>1 DEF Desk!Reads, PagesTyped, SocketsTyped, Sockets, WireTyped
<1>13. ASSUME NEW t \in Tunnels, Desk!DesktopCloses(t) PROVE TunnelsTyped'
  BY <1>13 DEF Desk!DesktopCloses, PagesTyped, SocketsTyped, Sockets, WireTyped
<1>14. ASSUME NEW t \in Tunnels, Desk!Finalizes(t) PROVE TunnelsTyped'
  <2>1. answers' \in Seq(Answer)
    BY <1>14, AnswerTyped DEF Desk!Finalizes, Desk!ReportsEnd
  <2> QED BY <1>14, <2>1 DEF Desk!Finalizes, PagesTyped, SocketsTyped, Sockets, WireTyped
<1>15. CASE Desk!Disconnects
  BY <1>15 DEF Desk!Disconnects, Desk!Closed, PagesTyped, SocketsTyped, Sockets, WireTyped
<1>16. CASE Desk!Reconnects
  BY <1>16 DEF Desk!Reconnects, PagesTyped, SocketsTyped, WireTyped
<1>17. CASE UNCHANGED Desk!vars
  BY <1>17 DEF Desk!vars, PagesTyped, SocketsTyped, WireTyped
<1> QED BY <1>1, <1>2, <1>3, <1>4, <1>5, <1>6, <1>7, <1>8, <1>9, <1>10, <1>11, <1>12, <1>13, <1>14,
           <1>15, <1>16, <1>17 DEF Desk!Next, Desk!Exchange, Desk!PageNext, Desk!RunnerNext

(* What a step leaves of a tunnel that it is not about.                        *)
LEMMA SequelNext ==
  ASSUME TunnelsTyped, OrderedOnce, NEW u \in Tunnels, Sequel(u), [Desk!Next]_(Desk!vars)
  PROVE  Sequel(u)'
<1> USE DEF TunnelsTyped
<1>0. proxy[u] \in Views /\ socket[u] \in Sockets /\ frames[u] \in Nat
  BY DEF PagesTyped, SocketsTyped
<1>1. ASSUME NEW t \in Tunnels, Desk!Asks(t) PROVE Sequel(u)'
  BY <1>0, <1>1 DEF Desk!Asks, Sequel, PagesTyped, WireTyped, Views
<1>2. ASSUME NEW t \in Tunnels, NEW how \in {"left", "ended", "failed"}, Desk!PageEnds(t, how),
             proxy[t].pc # "new", UNCHANGED <<socket, frames, nextSession>>
      PROVE  Sequel(u)'
  <2>1. CASE u # t
    <3>1. proxy'[u] = proxy[u] /\ queue'[u] = queue[u]
      BY <1>2, <2>1, PageEndsTyped
    <3> QED BY <1>2, <3>1 DEF Sequel
  <2>2. CASE u = t
    <3>1. proxy'[u] = [proxy[u] EXCEPT !.pc = how]
      BY <1>2, <2>2, PageEndsTyped
    <3>2. proxy'[u].session = proxy[u].session /\ proxy'[u].pc = how
      BY <1>0, <3>1 DEF Views
    <3> QED BY <1>2, <2>2, <3>2 DEF Sequel
  <2> QED BY <2>1, <2>2
<1>3. ASSUME NEW t \in Tunnels, Desk!Unanswered(t) \/ Desk!SeesLeave(t) \/ Desk!ShowsEnd(t)
      PROVE  Sequel(u)'
  BY <1>2, <1>3 DEF Desk!Unanswered, Desk!SeesLeave, Desk!ShowsEnd
<1>4. ASSUME NEW t \in Tunnels, Desk!Leaves(t) PROVE Sequel(u)'
  BY <1>0, <1>4 DEF Desk!Leaves, Sequel, PagesTyped, Views
<1>5. ASSUME NEW t \in Tunnels, Desk!ShowsFrame(t) PROVE Sequel(u)'
  <2>1. CASE proxy[t].user = "there"
    <3>1. proxy' = [proxy EXCEPT ![t] = [proxy[t] EXCEPT !.shown = Head(queue[t]),
                      !.torn = proxy[t].torn \/ Head(queue[t]) # proxy[t].shown + 1]]
      BY <1>5, <2>1 DEF Desk!ShowsFrame
    <3>2. proxy'[u].session = proxy[u].session /\ proxy'[u].pc = proxy[u].pc
      BY <1>0, <3>1 DEF PagesTyped, Views
    <3>3. u # t => proxy'[u] = proxy[u] /\ queue'[u] = queue[u]
      BY <1>5, <2>1, <3>1 DEF Desk!ShowsFrame, PagesTyped
    <3> QED BY <1>5, <3>2, <3>3 DEF Desk!ShowsFrame, Sequel
  <2>2. CASE Desk!PageEnds(t, "failed")
    BY <1>2, <1>5, <2>2 DEF Desk!ShowsFrame
  <2>3. CASE queue' = [queue EXCEPT ![t] = Tail(queue[t])] /\ UNCHANGED proxy
    BY <1>5, <2>3 DEF Desk!ShowsFrame, Sequel, PagesTyped
  <2> QED BY <1>5, <2>1, <2>2, <2>3 DEF Desk!ShowsFrame
<1>6. CASE Desk!Handled
  <2> DEFINE r == Head(answers)
  <2>1. r.t \in Tunnels
    BY <1>6, AnswerTaken DEF Desk!Handled
  <2>2. \/ proxy'[u] = proxy[u]
        \/ proxy[u].pc = "asking" /\ proxy'[u] = [proxy[u] EXCEPT !.pc = "looping"]
    <3>1. \/ UNCHANGED proxy
          \/ proxy[r.t].pc = "asking" /\ proxy' = [proxy EXCEPT ![r.t] = [proxy[r.t] EXCEPT !.pc = "looping"]]
      BY <1>6 DEF Desk!Handled
    <3>2. CASE UNCHANGED proxy
      BY <3>2
    <3>3. CASE /\ proxy[r.t].pc = "asking"
               /\ proxy' = [proxy EXCEPT ![r.t] = [proxy[r.t] EXCEPT !.pc = "looping"]]
      <4> HIDE DEF r
      <4> QED BY <3>3 DEF PagesTyped
    <3> QED BY <3>1, <3>2, <3>3
  <2>3. queue'[u] = queue[u] \/ proxy[u].pc \in {"asking", "looping"}
    BY <1>6, <2>1 DEF Desk!Handled, Desk!Delivered, Desk!Queued, Desk!Registered, PagesTyped
  <2> QED BY <1>0, <1>6, <2>2, <2>3 DEF Desk!Handled, Sequel, Views
<1>7. CASE Desk!AcceptFails
  <2>1. Head(answers).t \in Tunnels
    BY <1>7, AnswerTaken DEF Desk!AcceptFails
  <2> QED BY <1>2, <1>7, <2>1 DEF Desk!AcceptFails
<1>8. CASE Desk!Obeys
  <2>1. Head(orders).t \in Tunnels /\ orders[1] = Head(orders) /\ 1 \in DOMAIN orders
    BY <1>8, OrderTaken DEF Desk!Obeys
  <2>2. Head(orders).what = "open" =>
          socket[Head(orders).t] = "none" /\ proxy[Head(orders).t].pc # "new"
    BY <2>1 DEF OrderedOnce
  <2> QED BY <1>8, <2>1, <2>2
          DEF Desk!Obeys, Desk!OnClose, Desk!Closed, Sequel, SocketsTyped, Sockets
<1>9. ASSUME NEW t \in Tunnels, Desk!Connects(t) \/ Desk!Refuses(t) \/ Desk!DesktopCloses(t) \/ Desk!Finalizes(t)
      PROVE  Sequel(u)'
  BY <1>9 DEF Desk!Connects, Desk!Refuses, Desk!DesktopCloses, Desk!Finalizes, Sequel, SocketsTyped
<1>10. ASSUME NEW t \in Tunnels, Desk!Reads(t) PROVE Sequel(u)'
  BY <1>10 DEF Desk!Reads, Sequel, SocketsTyped
<1>11. CASE Desk!Disconnects
  BY <1>11 DEF Desk!Disconnects, Desk!Closed, Sequel, SocketsTyped
<1>12. CASE Desk!Reconnects
  BY <1>0, <1>12 DEF Desk!Reconnects, Sequel, WireTyped, Views
<1>13. CASE UNCHANGED Desk!vars
  BY <1>13 DEF Desk!vars, Sequel
<1> QED BY <1>1, <1>3, <1>4, <1>5, <1>6, <1>7, <1>8, <1>9, <1>10, <1>11, <1>12, <1>13
        DEF Desk!Next, Desk!Exchange, Desk!PageNext, Desk!RunnerNext

(* A page that has asked is not new again.                                     *)
LEMMA PagesMove ==
  ASSUME TunnelsTyped, [Desk!Next]_(Desk!vars), NEW u \in Tunnels, proxy[u].pc # "new"
  PROVE  proxy'[u].pc # "new"
<1> USE DEF TunnelsTyped
<1>0. proxy[u] \in Views
  BY DEF PagesTyped
<1>1. ASSUME NEW t \in Tunnels, NEW how \in {"left", "ended", "failed"}, Desk!PageEnds(t, how)
      PROVE  proxy'[u].pc # "new"
  BY <1>0, <1>1, PageEndsTyped DEF Views
<1>2. ASSUME NEW t \in Tunnels, Desk!Asks(t) \/ Desk!Leaves(t) PROVE proxy'[u].pc # "new"
  BY <1>0, <1>2 DEF Desk!Asks, Desk!Leaves, PagesTyped, Views
<1>3. ASSUME NEW t \in Tunnels, Desk!ShowsFrame(t) PROVE proxy'[u].pc # "new"
  <2>1. CASE proxy[t].user = "there"
    <3>1. proxy' = [proxy EXCEPT ![t] = [proxy[t] EXCEPT !.shown = Head(queue[t]),
                      !.torn = proxy[t].torn \/ Head(queue[t]) # proxy[t].shown + 1]]
      BY <1>3, <2>1 DEF Desk!ShowsFrame
    <3> QED BY <1>0, <3>1 DEF PagesTyped, Views
  <2> QED BY <1>1, <1>3, <2>1 DEF Desk!ShowsFrame
<1>4. CASE Desk!Handled
  <2>1. \/ UNCHANGED proxy
        \/ proxy' = [proxy EXCEPT ![Head(answers).t] = [proxy[Head(answers).t] EXCEPT !.pc = "looping"]]
    BY <1>4 DEF Desk!Handled
  <2> QED BY <1>0, <2>1 DEF PagesTyped, Views
<1>5. CASE Desk!AcceptFails
  BY <1>1, <1>5, AnswerTaken DEF Desk!AcceptFails
<1> QED BY <1>1, <1>2, <1>3, <1>4, <1>5 DEF Desk!Next, Desk!Exchange, Desk!PageNext,
     Desk!RunnerNext, Desk!vars, Desk!Unanswered, Desk!SeesLeave, Desk!ShowsEnd, Desk!Obeys, Desk!Connects,
     Desk!Refuses, Desk!Reads, Desk!DesktopCloses, Desk!Finalizes, Desk!Disconnects, Desk!Reconnects

(* What a step can do to the orders.                                           *)
LEMMA OrdersMove ==
  ASSUME TunnelsTyped, [Desk!Next]_(Desk!vars), ~Desk!Obeys
  PROVE  \/ orders' = orders
         \/ orders' = <<>>
         \/ \E t \in Tunnels : orders' = Append(orders, [what |-> "close", t |-> t])
         \/ \E t \in Tunnels : Desk!Asks(t) /\ orders' = Append(orders, [what |-> "open", t |-> t])
<1> USE DEF TunnelsTyped
<1>1. ASSUME NEW t \in Tunnels, Desk!Asks(t)
      PROVE  orders' = orders \/ orders' = Append(orders, [what |-> "open", t |-> t])
  BY <1>1, OrderTyped DEF Desk!Asks
<1>2. ASSUME NEW t \in Tunnels, Desk!SeesLeave(t)
      PROVE  orders' = orders \/ orders' = Append(orders, [what |-> "close", t |-> t])
  BY <1>2, OrderTyped DEF Desk!SeesLeave
<1> QED BY <1>1, <1>2 DEF Desk!Next, Desk!Exchange, Desk!PageNext, Desk!RunnerNext, Desk!vars,
     Desk!Unanswered, Desk!Leaves, Desk!ShowsFrame, Desk!ShowsEnd, Desk!Handled, Desk!AcceptFails,
     Desk!Connects, Desk!Refuses, Desk!Reads, Desk!DesktopCloses, Desk!Finalizes, Desk!Disconnects,
     Desk!Reconnects

(* Only an order, which the runner obeys, opens a websocket, and what is ended *)
(* stays so without one.                                                       *)
LEMMA SocketsMove ==
  ASSUME TunnelsTyped, [Desk!Next]_(Desk!vars), ~Desk!Obeys, NEW u \in Tunnels
  PROVE  /\ socket[u] = "none" => socket'[u] = "none"
         /\ socket[u] = "ended" => socket'[u] = "ended"
BY DEF TunnelsTyped, SocketsTyped, Desk!Next, Desk!Exchange, Desk!PageNext, Desk!RunnerNext,
   Desk!vars, Desk!Asks, Desk!Unanswered, Desk!Leaves, Desk!SeesLeave, Desk!ShowsFrame, Desk!ShowsEnd,
   Desk!Handled, Desk!AcceptFails, Desk!Connects, Desk!Refuses, Desk!Reads, Desk!DesktopCloses,
   Desk!Finalizes, Desk!Disconnects, Desk!Reconnects, Desk!Closed

LEMMA OrderedOnceNext ==
  ASSUME TunnelInv, [Desk!Next]_(Desk!vars) PROVE OrderedOnce'
<1> USE DEF TunnelInv, TunnelsTyped
<1>0. orders \in Seq(Order) /\ \A i \in DOMAIN orders : orders[i].t \in Tunnels
  <2>1. orders \in Seq(Order)
    BY DEF WireTyped
  <2>2. \A i \in DOMAIN orders : orders[i] \in Order
    BY <2>1, Elements
  <2> QED BY <2>1, <2>2 DEF Order
<1>1. CASE Desk!Obeys
  <2>1. ASSUME NEW i \in DOMAIN orders', orders'[i].what = "open"
        PROVE  socket'[orders'[i].t] = "none" /\ proxy'[orders'[i].t].pc # "new"
    <3>1. i + 1 \in DOMAIN orders /\ orders'[i] = orders[i + 1] /\ i + 1 # 1 /\ 1 \in DOMAIN orders
          /\ Head(orders) = orders[1]
      BY <1>1, <2>1, OrderTaken DEF Desk!Obeys
    <3>2. socket[orders[i + 1].t] = "none" /\ proxy[orders[i + 1].t].pc # "new"
      BY <2>1, <3>1 DEF OrderedOnce
    <3>3. orders[1].what = "open" => orders[1].t # orders[i + 1].t
      BY <2>1, <3>1 DEF OrderedOnce
    <3>4. orders[i + 1].t \in Tunnels /\ orders[1].t \in Tunnels
      BY <1>0, <3>1
    <3> QED BY <1>1, <3>1, <3>2, <3>3, <3>4
            DEF Desk!Obeys, Desk!OnClose, Desk!Closed, SocketsTyped
  <2>2. ASSUME NEW i \in DOMAIN orders', NEW k \in DOMAIN orders', orders'[i].what = "open",
               orders'[k].what = "open", orders'[i].t = orders'[k].t
        PROVE  i = k
    <3>1. i \in Nat /\ k \in Nat /\ i + 1 \in DOMAIN orders /\ orders'[i] = orders[i + 1]
          /\ k + 1 \in DOMAIN orders /\ orders'[k] = orders[k + 1]
      BY <1>1, <2>2, OrderTaken DEF Desk!Obeys
    <3>2. i + 1 = k + 1
      BY <2>2, <3>1 DEF OrderedOnce
    <3> QED BY <3>1, <3>2
  <2> QED BY <2>1, <2>2 DEF OrderedOnce
<1>2. CASE ~Desk!Obeys
  <2>1. \A t \in Tunnels : /\ socket[t] = "none" => socket'[t] = "none"
                           /\ proxy[t].pc # "new" => proxy'[t].pc # "new"
    BY <1>2, SocketsMove, PagesMove
  <2>2. CASE orders' = orders \/ orders' = <<>>
    BY <1>0, <2>1, <2>2 DEF OrderedOnce
  <2>3. ASSUME NEW t \in Tunnels, orders' = Append(orders, [what |-> "close", t |-> t])
        PROVE  OrderedOnce'
    <3>1. [what |-> "close", t |-> t] \in Order
      BY DEF Order
    <3>2. \A i \in DOMAIN orders' : \/ i \in DOMAIN orders /\ orders'[i] = orders[i]
                                    \/ orders'[i].what = "close"
      BY <1>0, <2>3, <3>1, Appended
    <3> QED BY <1>0, <2>1, <3>2 DEF OrderedOnce
  <2>4. ASSUME NEW t \in Tunnels, Desk!Asks(t), orders' = Append(orders, [what |-> "open", t |-> t])
        PROVE  OrderedOnce'
    <3>1. [what |-> "open", t |-> t] \in Order
      BY DEF Order
    <3>2. \A i \in DOMAIN orders' :
            \/ i \in DOMAIN orders /\ orders'[i] = orders[i]
            \/ i = Len(orders) + 1 /\ orders'[i] = [what |-> "open", t |-> t]
      BY <1>0, <2>4, <3>1, Appended
    <3>3. proxy[t].pc = "new" /\ socket[t] = "none"
      BY <2>4 DEF Desk!Asks, Sequel
    <3>4. proxy'[t].pc = "asking" /\ socket'[t] = "none"
      BY <2>4, <3>3 DEF Desk!Asks, PagesTyped, Views
    <3>5. \A i \in DOMAIN orders : orders[i].what = "open" => orders[i].t # t
      BY <3>3 DEF OrderedOnce
    <3> QED BY <1>0, <2>1, <3>2, <3>4, <3>5 DEF OrderedOnce
  <2> QED BY <1>2, <2>2, <2>3, <2>4, OrdersMove
<1> QED BY <1>1, <1>2

(* What a step can do to the answers: the one at the head is taken, the        *)
(* connection is lost, or the runner adds one.                                 *)
Takes == answers # <<>> /\ answers' = Tail(answers)
Adds(e) == answers' = Append(answers, e) /\ session # 0
Tells(t, w, n) == [what |-> w, t |-> t, n |-> n]

LEMMA AnswersMove ==
  ASSUME TunnelsTyped, [Desk!Next]_(Desk!vars)
  PROVE  \/ Takes /\ (Desk!Handled \/ Desk!AcceptFails)
         \/ Desk!Disconnects
         \/ answers' = answers /\ \E t \in Tunnels : Desk!Connects(t) \/ Desk!Finalizes(t)
         \/ answers' = answers /\ session = 0 /\ \E t \in Tunnels : Desk!Reads(t)
         \/ \E t \in Tunnels : Desk!Connects(t) /\ Adds(Tells(t, "opened", 0))
         \/ \E t \in Tunnels : Desk!Reads(t) /\ Adds(Tells(t, "frame", frames[t] + 1))
         \/ \E t \in Tunnels : Desk!Finalizes(t) /\ Adds(Tells(t, "closed", 0))
         \/ answers' = answers /\ frames' = frames
<1> USE DEF TunnelsTyped
<1>1. ASSUME NEW t \in Tunnels, Desk!Connects(t)
      PROVE  answers' = answers \/ Adds(Tells(t, "opened", 0))
  BY <1>1, AnswerTyped DEF Desk!Connects, Adds, Tells
<1>2. ASSUME NEW t \in Tunnels, Desk!Reads(t)
      PROVE  (answers' = answers /\ session = 0) \/ Adds(Tells(t, "frame", frames[t] + 1))
  <2>1. frames[t] + 1 \in Nat /\ Desk!Replies(t, "frame", frames[t] + 1)
    BY <1>2 DEF Desk!Reads, SocketsTyped
  <2> QED BY <2>1, AnswerTyped DEF Adds, Tells
<1>3. ASSUME NEW t \in Tunnels, Desk!Finalizes(t)
      PROVE  answers' = answers \/ Adds(Tells(t, "closed", 0))
  BY <1>3, AnswerTyped DEF Desk!Finalizes, Desk!ReportsEnd, Adds, Tells
<1>4. Desk!Handled \/ Desk!AcceptFails => Takes
  BY DEF Desk!Handled, Desk!AcceptFails, Takes
<1> QED BY <1>1, <1>2, <1>3, <1>4
        DEF Desk!Next, Desk!Exchange, Desk!PageNext, Desk!RunnerNext, Desk!vars, Desk!Asks,
     Desk!Unanswered, Desk!Leaves, Desk!SeesLeave, Desk!ShowsFrame, Desk!ShowsEnd, Desk!Obeys,
     Desk!Refuses, Desk!DesktopCloses, Desk!Reconnects

LEMMA SessionsMove ==
  ASSUME TunnelsTyped, [Desk!Next]_(Desk!vars)
  PROVE  session' = session \/ Desk!Disconnects \/ (session' # 0 /\ answers' = answers)
BY DEF TunnelsTyped, WireTyped, Desk!Next, Desk!Exchange, Desk!PageNext, Desk!RunnerNext, Desk!vars,
     Desk!Asks, Desk!Unanswered, Desk!Leaves, Desk!SeesLeave, Desk!ShowsFrame, Desk!ShowsEnd, Desk!Obeys,
     Desk!Handled, Desk!AcceptFails, Desk!Connects, Desk!Reads, Desk!Finalizes,
     Desk!Refuses, Desk!DesktopCloses, Desk!Reconnects

LEMMA FramesMove ==
  ASSUME TunnelsTyped, [Desk!Next]_(Desk!vars), NEW u \in Tunnels
  PROVE  \/ frames'[u] = frames[u]
         \/ Desk!Reads(u) /\ frames'[u] = frames[u] + 1
BY DEF TunnelsTyped, SocketsTyped, Desk!Next, Desk!Exchange, Desk!PageNext, Desk!RunnerNext, Desk!vars,
     Desk!Asks, Desk!Unanswered, Desk!Leaves, Desk!SeesLeave, Desk!ShowsFrame, Desk!ShowsEnd, Desk!Obeys,
     Desk!Handled, Desk!AcceptFails, Desk!Connects, Desk!Reads, Desk!Finalizes, Desk!Disconnects,
     Desk!Refuses, Desk!DesktopCloses, Desk!Reconnects

LEMMA RepliesTyped ==
  ASSUME WireTyped
  PROVE  answers \in Seq(Answer) /\ Len(answers) \in Nat /\ DOMAIN answers = 1..Len(answers)
         /\ \A i \in DOMAIN answers : answers[i].t \in Tunnels /\ answers[i].n \in Nat
<1>1. answers \in Seq(Answer)
  BY DEF WireTyped
<1>2. \A i \in DOMAIN answers : answers[i] \in Answer
  BY <1>1, Elements
<1> QED BY <1>1, <1>2, Elements DEF Answer

LEMMA AnswerAdded ==
  ASSUME WireTyped, NEW e \in Answer, Adds(e)
  PROVE  /\ \A i \in DOMAIN answers' :
              \/ i \in DOMAIN answers /\ answers'[i] = answers[i]
              \/ i = Len(answers) + 1 /\ answers'[i] = e
         /\ \A i \in DOMAIN answers : i \in DOMAIN answers' /\ answers'[i] = answers[i]
         /\ Len(answers) + 1 \in DOMAIN answers' /\ answers'[Len(answers) + 1] = e
<1>1. answers \in Seq(Answer) /\ answers' = Append(answers, e)
  BY DEF WireTyped, Adds
<1> QED BY <1>1, Appended, AppendProperties, Elements

LEMMA TellsTyped ==
  ASSUME NEW t \in Tunnels, NEW w \in {"opened", "frame", "closed"}, NEW n \in Nat
  PROVE  /\ Tells(t, w, n) \in Answer
         /\ Tells(t, w, n).what = w /\ Tells(t, w, n).t = t /\ Tells(t, w, n).n = n
BY DEF Tells, Answer

LEMMA NumberedNext ==
  ASSUME TunnelInv, [Desk!Next]_(Desk!vars) PROVE Numbered'
<1> USE DEF TunnelInv, TunnelsTyped
<1>0. answers \in Seq(Answer) /\ Len(answers) \in Nat /\ DOMAIN answers = 1..Len(answers)
      /\ \A i \in DOMAIN answers : answers[i].t \in Tunnels /\ answers[i].n \in Nat
  BY RepliesTyped
<1>1. \A u \in Tunnels : frames[u] \in Nat /\ frames'[u] \in Nat /\ frames[u] <= frames'[u]
  BY FramesMove DEF SocketsTyped
<1>2. CASE answers' = <<>>
  BY <1>2 DEF Numbered
<1>3. CASE answers' = answers
  BY <1>0, <1>1, <1>3, SessionsMove DEF Numbered, Desk!Disconnects
<1>4. CASE Takes
  <2>1. \A i \in DOMAIN answers' :
          i \in Nat /\ i # 0 /\ i + 1 \in DOMAIN answers /\ answers'[i] = answers[i + 1]
    BY <1>4, AnswerTaken DEF Takes
  <2>2. session' = 0 => answers' = <<>>
    BY <1>4, SessionsMove DEF Takes, Numbered, Desk!Disconnects
  <2>3. ASSUME NEW i \in DOMAIN answers'
        PROVE  IF answers'[i].what = "frame" THEN answers'[i].n \in 1..frames'[answers'[i].t]
               ELSE answers'[i].n = 0
    BY <1>0, <1>1, <2>1 DEF Numbered
  <2>4. ASSUME NEW i \in DOMAIN answers', NEW k \in DOMAIN answers', i < k,
               answers'[i].what = "frame", answers'[k].what = "frame", answers'[i].t = answers'[k].t
        PROVE  answers'[i].n < answers'[k].n
    BY <2>1, <2>4 DEF Numbered
  <2> QED BY <2>2, <2>3, <2>4 DEF Numbered
<1>5. ASSUME NEW e \in Answer, e.what # "frame", e.n = 0, Adds(e), frames' = frames,
             session' = session
      PROVE  Numbered'
  <2>1. \A i \in DOMAIN answers' :
          \/ i \in DOMAIN answers /\ answers'[i] = answers[i]
          \/ answers'[i] = e
    BY <1>5, AnswerAdded
  <2>2. session' # 0
    BY <1>5 DEF Adds
  <2> QED BY <1>5, <2>1, <2>2 DEF Numbered
<1>6. ASSUME NEW t \in Tunnels, Desk!Reads(t), Adds(Tells(t, "frame", frames[t] + 1))
      PROVE  Numbered'
  <2> DEFINE e == Tells(t, "frame", frames[t] + 1)
  <2>1. frames' = [frames EXCEPT ![t] = frames[t] + 1] /\ frames[t] + 1 \in Nat
    BY <1>1, <1>6 DEF Desk!Reads
  <2>2. \A i \in DOMAIN answers' :
          \/ i \in DOMAIN answers /\ answers'[i] = answers[i]
          \/ i = Len(answers) + 1 /\ answers'[i] = e
    BY <1>6, <2>1, TellsTyped, AnswerAdded
  <2>10. e.what = "frame" /\ e.t = t /\ e.n = frames[t] + 1
    BY <2>1, TellsTyped
  <2> HIDE DEF e
  <2>3. session' # 0
    BY <1>6 DEF Adds, Desk!Reads
  <2>4. ASSUME NEW i \in DOMAIN answers'
        PROVE  IF answers'[i].what = "frame" THEN answers'[i].n \in 1..frames'[answers'[i].t]
               ELSE answers'[i].n = 0
    BY <1>0, <1>1, <2>1, <2>2, <2>10 DEF Numbered, SocketsTyped
  <2>5. ASSUME NEW i \in DOMAIN answers', NEW k \in DOMAIN answers', i < k,
               answers'[i].what = "frame", answers'[k].what = "frame", answers'[i].t = answers'[k].t
        PROVE  answers'[i].n < answers'[k].n
    <3>1. i \in DOMAIN answers /\ answers'[i] = answers[i]
      BY <1>0, <2>2, <2>5
    <3>2. answers[i].n <= frames[answers[i].t]
      BY <1>0, <1>1, <2>5, <3>1 DEF Numbered
    <3> QED BY <1>0, <1>1, <2>2, <2>5, <2>10, <3>1, <3>2 DEF Numbered
  <2> QED BY <2>3, <2>4, <2>5 DEF Numbered
<1>7. ASSUME NEW t \in Tunnels,
             \/ Desk!Connects(t) /\ Adds(Tells(t, "opened", 0))
             \/ Desk!Finalizes(t) /\ Adds(Tells(t, "closed", 0))
      PROVE  Numbered'
  BY <1>5, <1>7, TellsTyped DEF Desk!Connects, Desk!Finalizes
<1> QED BY <1>2, <1>3, <1>4, <1>6, <1>7, AnswersMove DEF Desk!Disconnects

LEMMA EndAnsweredNext ==
  ASSUME TunnelInv, [Desk!Next]_(Desk!vars) PROVE EndAnswered'
<1> USE DEF TunnelInv, TunnelsTyped
<1>0. answers \in Seq(Answer) /\ Len(answers) \in Nat /\ DOMAIN answers = 1..Len(answers)
      /\ \A i \in DOMAIN answers : answers[i].t \in Tunnels /\ answers[i].n \in Nat
  BY RepliesTyped
<1>1. \A u \in Tunnels : socket[u] = "ended" => socket'[u] = "ended"
  <2>1. CASE Desk!Obeys
    <3>1. 1 \in DOMAIN orders /\ orders[1] = Head(orders) /\ Head(orders).t \in Tunnels
      BY <2>1, OrderTaken DEF Desk!Obeys
    <3>2. Head(orders).what = "open" => socket[Head(orders).t] = "none"
      BY <3>1 DEF OrderedOnce
    <3> QED BY <2>1, <3>1, <3>2 DEF Desk!Obeys, Desk!OnClose, Desk!Closed, SocketsTyped
  <2> QED BY <2>1, SocketsMove
<1>2. CASE answers' = <<>>
  BY <1>2 DEF EndAnswered
<1>3. CASE answers' = answers
  BY <1>0, <1>1, <1>3 DEF EndAnswered
<1>4. CASE Takes
  <2>1. \A i \in DOMAIN answers' :
          i \in Nat /\ i # 0 /\ i + 1 \in DOMAIN answers /\ answers'[i] = answers[i + 1]
    BY <1>4, AnswerTaken DEF Takes
  <2>2. ASSUME NEW i \in DOMAIN answers', answers'[i].what = "closed"
        PROVE  socket'[answers'[i].t] = "ended"
    BY <1>0, <1>1, <2>1, <2>2 DEF EndAnswered
  <2>3. ASSUME NEW i \in DOMAIN answers', answers'[i].what = "closed",
               NEW k \in DOMAIN answers', k > i
        PROVE  answers'[k].t # answers'[i].t
    <3>1. i + 1 \in DOMAIN answers /\ k + 1 \in DOMAIN answers /\ k + 1 > i + 1
          /\ answers'[i] = answers[i + 1] /\ answers'[k] = answers[k + 1]
      BY <2>1, <2>3
    <3> QED BY <2>3, <3>1 DEF EndAnswered
  <2> QED BY <2>2, <2>3 DEF EndAnswered
<1>5. ASSUME NEW e \in Answer, Adds(e), socket[e.t] # "ended",
             e.what = "closed" => socket'[e.t] = "ended"
      PROVE  EndAnswered'
  <2>1. \A i \in DOMAIN answers' :
          \/ i \in DOMAIN answers /\ answers'[i] = answers[i]
          \/ i = Len(answers) + 1 /\ answers'[i] = e
    BY <1>5, AnswerAdded
  <2>2. ASSUME NEW i \in DOMAIN answers', answers'[i].what = "closed"
        PROVE  socket'[answers'[i].t] = "ended"
    BY <1>0, <1>1, <1>5, <2>1, <2>2 DEF EndAnswered
  <2>3. ASSUME NEW i \in DOMAIN answers', answers'[i].what = "closed",
               NEW k \in DOMAIN answers', k > i
        PROVE  answers'[k].t # answers'[i].t
    <3>1. i \in DOMAIN answers /\ answers'[i] = answers[i]
      BY <1>0, <2>1, <2>3
    <3>2. socket[answers[i].t] = "ended"
      BY <2>3, <3>1 DEF EndAnswered
    <3> QED BY <1>5, <2>1, <2>3, <3>1, <3>2 DEF EndAnswered
  <2> QED BY <2>2, <2>3 DEF EndAnswered
<1>6. ASSUME NEW t \in Tunnels, Desk!Connects(t), Adds(Tells(t, "opened", 0))
      PROVE  EndAnswered'
  BY <1>5, <1>6, TellsTyped DEF Desk!Connects
<1>7. ASSUME NEW t \in Tunnels, Desk!Reads(t), Adds(Tells(t, "frame", frames[t] + 1))
      PROVE  EndAnswered'
  <2>1. frames[t] + 1 \in Nat /\ socket[t] = "open"
    BY <1>7 DEF Desk!Reads, SocketsTyped
  <2> QED BY <1>5, <1>7, <2>1, TellsTyped
<1>8. ASSUME NEW t \in Tunnels, Desk!Finalizes(t), Adds(Tells(t, "closed", 0))
      PROVE  EndAnswered'
  BY <1>5, <1>8, TellsTyped DEF Desk!Finalizes, SocketsTyped
<1> QED BY <1>2, <1>3, <1>4, <1>6, <1>7, <1>8, AnswersMove
        DEF Desk!Disconnects, Desk!Connects, Desk!Finalizes

(* A tunnel that a step leaves alone, or of which it changes only how the      *)
(* runner's side stands.                                                       *)
LEMMA FlowsSame ==
  ASSUME NEW u \in Tunnels, Flows(u), proxy'[u] = proxy[u], queue'[u] = queue[u],
         frames'[u] = frames[u], session' = session, answers' = answers,
         socket'[u] = socket[u] \/ (socket[u] # "ended" /\ socket'[u] \notin {"none", "connecting", "open"})
           \/ (socket[u] \in {"none", "connecting"})
  PROVE  Flows(u)'
BY DEF Flows, EndQueued, NoneAnswered, EndShown, Watches, InLine, Kept, Somewhere, Snapped

LEMMA FlowsEnd ==
  ASSUME TunnelsTyped, NEW t \in Tunnels, NEW how \in {"left", "ended", "failed"},
         Desk!PageEnds(t, how), NEW u \in Tunnels, Flows(u), UNCHANGED <<frames, session, socket, answers>>,
         how = "ended" => /\ socket[t] = "ended"
                          /\ proxy[t].user = "there" /\ proxy[t].session = session
                             => proxy[t].shown = frames[t]
  PROVE  Flows(u)'
<1>1. CASE u # t
  <2>1. proxy'[u] = proxy[u] /\ queue'[u] = queue[u]
    BY <1>1, PageEndsTyped DEF TunnelsTyped
  <2> QED BY <2>1, FlowsSame
<1>2. CASE u = t
  <2>1. proxy'[u] = [proxy[u] EXCEPT !.pc = how] /\ queue'[u] = <<>> /\ ~Watches(u)'
    BY <1>2, PageEndsTyped DEF TunnelsTyped
  <2>2. proxy[u] \in Views
    BY DEF TunnelsTyped, PagesTyped
  <2>3. /\ proxy'[u].pc = how /\ proxy'[u].torn = proxy[u].torn /\ proxy'[u].user = proxy[u].user
        /\ proxy'[u].session = proxy[u].session /\ proxy'[u].shown = proxy[u].shown
    BY <2>1, <2>2 DEF Views
  <2>4. EndQueued(u)'
    BY <2>1 DEF EndQueued
  <2> QED BY <1>2, <2>1, <2>3, <2>4 DEF Flows, EndShown
<1> QED BY <1>1, <1>2

LEMMA FlowsShown ==
  ASSUME TunnelInv, NEW t \in Tunnels, Desk!ShowsFrame(t), NEW u \in Tunnels PROVE Flows(u)'
<1> USE DEF TunnelInv, TunnelsTyped
<1>0. Flows(u) /\ Flows(t) /\ proxy[t] \in Views /\ queue[t] \in Seq(Nat) /\ frames[t] \in Nat
      /\ UNCHANGED <<frames, session, socket, answers>> /\ proxy[t].pc = "looping" /\ queue[t] # <<>>
  BY DEF PagesTyped, SocketsTyped, Desk!ShowsFrame
<1>1. CASE Desk!PageEnds(t, "failed")
  BY <1>0, <1>1, FlowsEnd
<1>2. CASE u # t /\ queue' = [queue EXCEPT ![t] = Tail(queue[t])]
  <2>1. proxy'[u] = proxy[u] /\ queue'[u] = queue[u]
    <3>1. \/ proxy' = proxy
          \/ proxy' = [proxy EXCEPT ![t] = [proxy[t] EXCEPT !.shown = Head(queue[t]),
                          !.torn = proxy[t].torn \/ Head(queue[t]) # proxy[t].shown + 1]]
          \/ Desk!PageEnds(t, "failed")
      BY DEF Desk!ShowsFrame
    <3>2. proxy'[u] = proxy[u]
      BY <1>2, <3>1, PageEndsTyped DEF PagesTyped
    <3> QED BY <1>2, <3>2 DEF PagesTyped
  <2> QED BY <1>0, <2>1, FlowsSame
<1>3. CASE u = t /\ queue' = [queue EXCEPT ![t] = Tail(queue[t])]
  <2>0. queue'[t] = Tail(queue[t]) /\ Len(queue[t]) \in Nat /\ Len(queue'[t]) = Len(queue[t]) - 1
        /\ DOMAIN queue[t] = 1..Len(queue[t]) /\ DOMAIN queue'[t] = 1..Len(queue[t]) - 1
        /\ Head(queue[t]) = queue[t][1] /\ 1 \in DOMAIN queue[t] /\ Head(queue[t]) \in Nat
    BY <1>0, <1>3, EmptySeq, HeadTailProperties, Elements DEF PagesTyped
  <2>1. \A i \in DOMAIN queue'[t] : i \in Nat /\ i + 1 \in DOMAIN queue[t] /\ queue'[t][i] = queue[t][i + 1]
    BY <1>0, <2>0, Taken
  <2>2. EndQueued(t)'
    BY <1>0, <2>0, <2>1 DEF Flows, EndQueued, NoneAnswered
  <2>3. CASE proxy[t].user = "there"
    <3>1. InLine(t) /\ (Kept(t) \/ Snapped(t)) /\ ~proxy[t].torn
      BY <1>0, <2>3 DEF Flows, Watches
    <3>2. Head(queue[t]) = proxy[t].shown + 1 /\ Head(queue[t]) <= frames[t]
      BY <2>0, <3>1 DEF InLine, Desk!ShowsFrame
    <3>3. proxy' = [proxy EXCEPT ![t] = [proxy[t] EXCEPT !.shown = Head(queue[t]),
                        !.torn = proxy[t].torn \/ Head(queue[t]) # proxy[t].shown + 1]]
      BY <2>3 DEF Desk!ShowsFrame
    <3>4. /\ proxy'[t].shown = proxy[t].shown + 1 /\ ~proxy'[t].torn /\ proxy'[t].pc = "looping"
          /\ proxy'[t].session = proxy[t].session /\ proxy[t].shown \in Nat
      BY <1>0, <3>1, <3>2, <3>3 DEF PagesTyped, Views
    <3>5. InLine(t)'
      <4>1. ASSUME NEW i \in DOMAIN queue'[t]
            PROVE  queue'[t][i] = 0 \/ (queue'[t][i] = proxy'[t].shown + i /\ queue'[t][i] <= frames'[t])
        <5>1. i \in Nat /\ i + 1 \in DOMAIN queue[t] /\ queue'[t][i] = queue[t][i + 1]
          BY <2>1
        <5>2. \/ queue[t][i + 1] = 0
              \/ queue[t][i + 1] = proxy[t].shown + (i + 1) /\ queue[t][i + 1] <= frames[t]
          BY <3>1, <5>1 DEF InLine
        <5>3. proxy[t].shown + (i + 1) = proxy'[t].shown + i
          BY <3>4, <5>1
        <5> QED BY <1>0, <5>1, <5>2, <5>3
      <4>2. ASSUME NEW i \in DOMAIN answers', answers'[i].what = "frame", answers'[i].t = t
            PROVE  answers'[i].n > proxy'[t].shown + Len(queue'[t])
        <5>1. answers[i].n > proxy[t].shown + Len(queue[t])
          BY <1>0, <3>1, <4>2 DEF InLine
        <5>2. proxy[t].shown + Len(queue[t]) = proxy'[t].shown + Len(queue'[t])
          BY <2>0, <3>4
        <5> QED BY <1>0, <5>1, <5>2
      <4> QED BY <1>0, <3>2, <3>4, <4>1, <4>2 DEF InLine
    <3>6. Kept(t) => Kept(t)'
      <4>1. SUFFICES ASSUME NEW n \in 1..frames[t], Somewhere(t, n) PROVE Somewhere(t, n)'
        BY <1>0 DEF Kept
      <4>2. CASE n <= proxy[t].shown
        BY <3>4, <4>2 DEF Somewhere
      <4>3. ASSUME NEW i \in DOMAIN queue[t], queue[t][i] = n PROVE Somewhere(t, n)'
        <5>1. CASE i = 1
          BY <2>0, <3>2, <3>4, <4>3, <5>1 DEF Somewhere
        <5>2. CASE i # 1
          <6>1. i - 1 \in DOMAIN queue'[t] /\ queue'[t][i - 1] = n
            BY <2>0, <2>1, <4>3, <5>2
          <6> QED BY <6>1 DEF Somewhere
        <5> QED BY <5>1, <5>2
      <4>4. (\E i \in DOMAIN answers : answers[i].what = "frame" /\ answers[i].t = t /\ answers[i].n = n)
            => Somewhere(t, n)'
        BY <1>0 DEF Somewhere
      <4> QED BY <4>1, <4>2, <4>3, <4>4 DEF Somewhere
    <3>7. Snapped(t) => Snapped(t)'
      BY <1>0, <3>4 DEF Snapped
    <3> QED BY <1>3, <2>2, <3>1, <3>4, <3>5, <3>6, <3>7 DEF Flows, EndShown
  <2>4. CASE proxy[t].user # "there" /\ UNCHANGED proxy
    BY <1>0, <1>3, <2>2, <2>4 DEF Flows, EndShown, Watches
  <2> QED BY <1>1, <2>3, <2>4 DEF Desk!ShowsFrame
<1> QED BY <1>1, <1>2, <1>3 DEF Desk!ShowsFrame

(* The backend takes the next answer. What it does not put into the queue of   *)
(* the page concerns a page that watches no more, or is not a frame.           *)
LEMMA FlowsTaken ==
  ASSUME TunnelInv, Desk!Handled \/ Desk!AcceptFails, NEW u \in Tunnels PROVE Flows(u)'
<1> USE DEF TunnelInv, TunnelsTyped
<1> DEFINE r == Head(answers)
<1>0. /\ Flows(u) /\ Sequel(u) /\ answers # <<>> /\ answers' = Tail(answers)
      /\ UNCHANGED <<frames, session, socket>> /\ proxy[u] \in Views /\ queue[u] \in Seq(Nat)
      /\ proxy[u].shown \in Nat /\ frames[u] \in Nat
  BY DEF PagesTyped, SocketsTyped, Views, Desk!Handled, Desk!AcceptFails
<1>1. /\ r = answers[1] /\ 1 \in DOMAIN answers /\ r.t \in Tunnels /\ r.n \in Nat
      /\ r.what \in {"opened", "frame", "closed"}
      /\ \A i \in DOMAIN answers' :
           i \in Nat /\ i # 0 /\ i + 1 \in DOMAIN answers /\ answers'[i] = answers[i + 1]
  BY <1>0, AnswerTaken DEF Answer
<1>2. \A i \in DOMAIN answers : i = 1 \/ (i - 1 \in DOMAIN answers' /\ answers'[i - 1] = answers[i])
  <2>1. answers \in Seq(Answer)
    BY DEF WireTyped
  <2> QED BY <1>0, <2>1, EmptySeq, HeadTailProperties, Elements
<1>3. NoneAnswered(u) => NoneAnswered(u)'
  BY <1>1 DEF NoneAnswered
<1> HIDE DEF r
(* The queue and the page are as they were, up to being accepted.              *)
<1>4. ASSUME queue'[u] = queue[u],
             \/ proxy'[u] = proxy[u]
             \/ proxy[u].pc = "asking" /\ proxy'[u] = [proxy[u] EXCEPT !.pc = "looping"],
             r.what # "frame" \/ r.t # u
      PROVE  Flows(u)'
  <2>1. /\ proxy'[u].torn = proxy[u].torn /\ proxy'[u].shown = proxy[u].shown
        /\ proxy'[u].user = proxy[u].user /\ proxy'[u].session = proxy[u].session
        /\ proxy'[u].pc = "ended" => proxy[u].pc = "ended"
        /\ Watches(u)' => Watches(u)
    BY <1>0, <1>4 DEF Watches, Views
  <2>2. EndQueued(u)' /\ EndShown(u)' /\ ~proxy'[u].torn
    BY <1>0, <1>3, <1>4, <2>1 DEF Flows, EndQueued, EndShown
  <2>3. InLine(u) => InLine(u)'
    BY <1>0, <1>1, <1>4, <2>1 DEF InLine
  <2>4. Kept(u) => Kept(u)'
    <3>1. SUFFICES ASSUME NEW n \in 1..frames[u], Somewhere(u, n) PROVE Somewhere(u, n)'
      BY <1>0 DEF Kept
    <3>2. ASSUME NEW i \in DOMAIN answers, answers[i].what = "frame", answers[i].t = u, answers[i].n = n
          PROVE  Somewhere(u, n)'
      BY <1>1, <1>2, <1>4, <3>2 DEF Somewhere
    <3> QED BY <1>4, <2>1, <3>1, <3>2 DEF Somewhere
  <2>5. Snapped(u) => Snapped(u)'
    BY <1>0, <1>1, <2>1 DEF Snapped
  <2> QED BY <2>1, <2>2, <2>3, <2>4, <2>5 DEF Flows
(* A frame, or the end, is queued.                                             *)
<1>5. ASSUME r.t = u, r.what \in {"frame", "closed"}, proxy'[u] = proxy[u],
             queue'[u] = Append(queue[u], r.n)
      PROVE  Flows(u)'
  <2>1. /\ Len(queue[u]) \in Nat /\ Len(queue'[u]) = Len(queue[u]) + 1
        /\ DOMAIN queue[u] = 1..Len(queue[u])
        /\ \A i \in DOMAIN queue[u] : i \in DOMAIN queue'[u] /\ queue'[u][i] = queue[u][i]
        /\ Len(queue[u]) + 1 \in DOMAIN queue'[u] /\ queue'[u][Len(queue[u]) + 1] = r.n
        /\ \A i \in DOMAIN queue'[u] : i \in DOMAIN queue[u] \/ i = Len(queue[u]) + 1
    BY <1>0, <1>1, <1>5, AppendProperties, Elements
  <2>2. \A i \in DOMAIN queue[u] : queue[u][i] # 0
    BY <1>0, <1>1, <1>5 DEF Flows, EndQueued, NoneAnswered
  <2>3. r.what = "closed" => socket[u] = "ended" /\ NoneAnswered(u)'
    <3>1. SUFFICES ASSUME r.what = "closed" PROVE socket[u] = "ended" /\ NoneAnswered(u)'
      OBVIOUS
    <3>2. socket[u] = "ended" /\ \A k \in DOMAIN answers : k > 1 => answers[k].t # u
      BY <1>1, <1>5, <3>1 DEF EndAnswered
    <3> QED BY <1>1, <3>2 DEF NoneAnswered
  <2>4. IF r.what = "frame" THEN r.n \in 1..frames[u] ELSE r.n = 0
    BY <1>1, <1>5 DEF Numbered
  <2>5. EndQueued(u)'
    BY <1>0, <1>5, <2>1, <2>2, <2>3, <2>4 DEF EndQueued
  <2>6. EndShown(u)' /\ ~proxy'[u].torn
    BY <1>0, <1>5 DEF Flows, EndShown
  <2>7. ASSUME Watches(u) PROVE InLine(u)' /\ (Kept(u)' \/ Snapped(u)')
    <3>1. InLine(u) /\ (Kept(u) \/ Snapped(u))
      BY <1>0, <2>7 DEF Flows
    <3>2. r.what = "frame" => r.n = proxy[u].shown + Len(queue[u]) + 1
      <4>1. SUFFICES ASSUME r.what = "frame", r.n # proxy[u].shown + Len(queue[u]) + 1 PROVE FALSE
        OBVIOUS
      <4> DEFINE m == proxy[u].shown + Len(queue[u]) + 1
      <4>2. m \in Nat /\ m < r.n /\ m \in 1..frames[u]
        <5>1. r.n > proxy[u].shown + Len(queue[u])
          BY <1>1, <1>5, <3>1, <4>1 DEF InLine
        <5>2. r.n \in 1..frames[u] /\ proxy[u].shown \in Nat /\ Len(queue[u]) \in Nat /\ frames[u] \in Nat
          BY <1>0, <2>1, <2>4, <4>1
        <5>3. r.n # m /\ r.n > proxy[u].shown + Len(queue[u])
          BY <4>1, <5>1
        <5> QED BY <5>2, <5>3
      <4>3. Somewhere(u, m)
        <5>1. Kept(u)
          BY <1>1, <1>5, <3>1, <4>1 DEF Snapped
        <5> QED BY <4>2, <5>1 DEF Kept
      <4>4. \A i \in DOMAIN queue[u] : queue[u][i] # m
        <5>1. \A i \in DOMAIN queue[u] : queue[u][i] = proxy[u].shown + i /\ i \in Nat /\ i <= Len(queue[u])
          BY <2>1, <2>2, <3>1 DEF InLine
        <5>2. proxy[u].shown \in Nat /\ Len(queue[u]) \in Nat
          BY <1>0, <2>1
        <5> QED BY <5>1, <5>2
      <4>5. PICK i \in DOMAIN answers : answers[i].what = "frame" /\ answers[i].t = u /\ answers[i].n = m
        BY <1>0, <2>1, <4>3, <4>4 DEF Somewhere
      <4>6. i # 1 /\ i > 1
        BY <1>1, <4>2, <4>5, RepliesTyped
      <4>7. answers[1].n < answers[i].n
        BY <1>1, <1>5, <4>1, <4>5, <4>6 DEF Numbered
      <4> QED BY <1>1, <4>2, <4>5, <4>7
    <3>3. InLine(u)'
      <4>1. ASSUME NEW i \in DOMAIN queue'[u]
            PROVE  queue'[u][i] = 0 \/ (queue'[u][i] = proxy'[u].shown + i /\ queue'[u][i] <= frames'[u])
        <5>1. CASE i \in DOMAIN queue[u]
          BY <1>0, <1>5, <2>1, <3>1, <5>1 DEF InLine
        <5>2. CASE i = Len(queue[u]) + 1
          <6>1. queue'[u][i] = r.n /\ proxy'[u].shown = proxy[u].shown /\ frames'[u] = frames[u]
            BY <1>0, <1>5, <2>1, <5>2
          <6>2. CASE r.what = "frame"
            <7>1. r.n = proxy[u].shown + i /\ r.n <= frames[u]
              BY <1>0, <2>1, <2>4, <3>2, <5>2, <6>2
            <7> QED BY <6>1, <7>1
          <6>3. CASE r.what # "frame"
            BY <2>4, <6>1, <6>3
          <6> QED BY <6>2, <6>3
        <5> QED BY <2>1, <5>1, <5>2
      <4>2. ASSUME NEW i \in DOMAIN answers', answers'[i].what = "frame", answers'[i].t = u
            PROVE  answers'[i].n > proxy'[u].shown + Len(queue'[u])
        <5>1. i \in Nat /\ i # 0 /\ i + 1 \in DOMAIN answers /\ answers'[i] = answers[i + 1] /\ 1 < i + 1
          BY <1>1
        <5>2. r.what = "frame"
          BY <1>5, <2>3, <4>2 DEF NoneAnswered
        <5>3. answers[1].n < answers[i + 1].n
          BY <1>1, <1>5, <4>2, <5>1, <5>2 DEF Numbered
        <5>4. answers[i + 1].n \in Nat
          BY <5>1, RepliesTyped
        <5> QED BY <1>0, <1>1, <1>5, <2>1, <3>2, <5>1, <5>2, <5>3, <5>4
      <4> QED BY <1>0, <1>5, <3>1, <4>1, <4>2 DEF InLine
    <3>4. Kept(u) => Kept(u)'
      <4>1. SUFFICES ASSUME NEW n \in 1..frames[u], Somewhere(u, n) PROVE Somewhere(u, n)'
        BY <1>0 DEF Kept
      <4>2. ASSUME NEW i \in DOMAIN answers, answers[i].what = "frame", answers[i].t = u, answers[i].n = n
            PROVE  Somewhere(u, n)'
        <5>1. CASE i = 1
          BY <1>1, <2>1, <4>2, <5>1 DEF Somewhere
        <5>2. CASE i # 1
          BY <1>2, <4>2, <5>2 DEF Somewhere
        <5> QED BY <5>1, <5>2
      <4>3. ASSUME NEW i \in DOMAIN queue[u], queue[u][i] = n PROVE Somewhere(u, n)'
        BY <2>1, <4>3 DEF Somewhere
      <4> QED BY <1>5, <4>1, <4>2, <4>3 DEF Somewhere
    <3>5. Snapped(u) => Snapped(u)'
      BY <1>0, <1>1, <1>5 DEF Snapped
    <3> QED BY <3>1, <3>3, <3>4, <3>5
  <2>8. Watches(u)' => Watches(u)
    BY <1>5 DEF Watches
  <2> QED BY <2>5, <2>6, <2>7, <2>8 DEF Flows
(* A page that is not registered shows nothing any more.                       *)
<1>6. ASSUME r.t = u, r.what = "frame", ~Desk!Registered(u), proxy'[u] = proxy[u], queue'[u] = queue[u]
      PROVE  Flows(u)'
  <2>1. ~Watches(u)
    <3>1. proxy[u].pc # "new"
      <4>1. r.n \in 1..frames[u]
        BY <1>1, <1>6 DEF Numbered
      <4> QED BY <1>0, <4>1 DEF Sequel
    <3> QED BY <1>6, <3>1 DEF Watches, Desk!Registered
  <2>2. ~Watches(u)' /\ EndQueued(u)' /\ EndShown(u)' /\ ~proxy'[u].torn
    BY <1>0, <1>3, <1>6, <2>1 DEF Flows, EndQueued, EndShown, Watches
  <2> QED BY <2>2 DEF Flows
<1>7. CASE Desk!AcceptFails
  <2>1. Desk!PageEnds(r.t, "failed") /\ r.what = "opened"
    BY <1>7 DEF Desk!AcceptFails, r
  <2>2. CASE u = r.t
    <3>1. proxy'[u] = [proxy[u] EXCEPT !.pc = "failed"] /\ queue'[u] = <<>> /\ ~Watches(u)'
      BY <1>1, <2>1, <2>2, PageEndsTyped
    <3>2. EndQueued(u)' /\ EndShown(u)' /\ ~proxy'[u].torn
      BY <1>0, <3>1 DEF Flows, EndQueued, EndShown, Views
    <3> QED BY <3>1, <3>2 DEF Flows
  <2>3. CASE u # r.t
    <3>1. proxy'[u] = proxy[u] /\ queue'[u] = queue[u]
      BY <1>1, <2>1, <2>3, PageEndsTyped
    <3> QED BY <1>4, <2>1, <3>1
  <2> QED BY <2>2, <2>3
<1>8. CASE Desk!Handled
  <2>1. CASE r.what = "opened"
    <3>1. UNCHANGED queue
      BY <1>8, <2>1 DEF Desk!Handled, r
    <3>2. \/ UNCHANGED proxy
          \/ proxy[r.t].pc = "asking" /\ proxy' = [proxy EXCEPT ![r.t] = [proxy[r.t] EXCEPT !.pc = "looping"]]
      BY <1>8, <2>1 DEF Desk!Handled, r
    <3>3. \/ proxy'[u] = proxy[u]
          \/ proxy[u].pc = "asking" /\ proxy'[u] = [proxy[u] EXCEPT !.pc = "looping"]
      BY <1>1, <3>2 DEF PagesTyped
    <3> QED BY <1>4, <2>1, <3>1, <3>3
  <2>2. CASE r.what \in {"frame", "closed"}
    <3>1. UNCHANGED proxy
      BY <1>8, <2>2 DEF Desk!Handled, r
    <3>2. \/ Desk!Registered(r.t) /\ queue' = [queue EXCEPT ![r.t] = Append(queue[r.t], r.n)]
          \/ ~Desk!Registered(r.t) /\ UNCHANGED queue
      BY <1>8, <2>2 DEF Desk!Handled, Desk!Delivered, Desk!Queued, r
    <3>3. CASE r.t # u
      <4>1. queue'[u] = queue[u]
        BY <1>1, <3>2, <3>3 DEF PagesTyped
      <4> QED BY <1>4, <3>1, <3>3, <4>1
    <3>4. CASE r.t = u /\ Desk!Registered(r.t)
      <4>1. queue'[u] = Append(queue[u], r.n)
        BY <1>1, <3>2, <3>4 DEF PagesTyped
      <4> QED BY <1>5, <2>2, <3>1, <3>4, <4>1
    <3>5. CASE r.t = u /\ ~Desk!Registered(r.t)
      BY <1>4, <1>6, <2>2, <3>1, <3>2, <3>5
    <3> QED BY <3>3, <3>4, <3>5
  <2> QED BY <1>1, <2>1, <2>2
<1> QED BY <1>7, <1>8

(* The runner adds an answer, or has none to give it to.                       *)
LEMMA FlowsTold ==
  ASSUME TunnelInv, NEW t \in Tunnels, NEW e \in Answer, Adds(e), e.t = t, NEW u \in Tunnels,
         UNCHANGED <<proxy, queue, session>>,
         socket[t] \in {"connecting", "open", "closing"},
         \A x \in Tunnels : x # t => socket'[x] = socket[x] /\ frames'[x] = frames[x],
         \/ e.what = "frame" /\ socket[t] = "open" /\ e.n = frames[t] + 1 /\ frames'[t] = frames[t] + 1
            /\ socket'[t] = "open"
         \/ e.what # "frame" /\ frames'[t] = frames[t] /\ (socket'[t] = "open" => socket[t] = "connecting")
            /\ socket'[t] \notin {"none", "connecting"}
  PROVE  Flows(u)'
<1> USE DEF TunnelInv, TunnelsTyped
<1>0. Flows(u) /\ Sequel(u) /\ frames[u] \in Nat /\ proxy[u].shown \in Nat /\ queue[u] \in Seq(Nat)
      /\ Len(queue[u]) \in Nat /\ DOMAIN queue[u] = 1..Len(queue[u]) /\ WireTyped
  BY Elements DEF PagesTyped, SocketsTyped, Views
<1>1. /\ \A i \in DOMAIN answers' :
           \/ i \in DOMAIN answers /\ answers'[i] = answers[i]
           \/ i = Len(answers) + 1 /\ answers'[i] = e
      /\ \A i \in DOMAIN answers : i \in DOMAIN answers' /\ answers'[i] = answers[i]
      /\ Len(answers) + 1 \in DOMAIN answers' /\ answers'[Len(answers) + 1] = e
  BY AnswerAdded
<1>2. ASSUME u # t PROVE Flows(u)'
  <2>1. EndQueued(u)' /\ EndShown(u)' /\ ~proxy'[u].torn
    BY <1>0, <1>1, <1>2 DEF Flows, EndQueued, NoneAnswered, EndShown
  <2>2. InLine(u) => InLine(u)'
    BY <1>1, <1>2 DEF InLine
  <2>3. Kept(u) => Kept(u)'
    BY <1>1, <1>2 DEF Kept, Somewhere
  <2>4. Snapped(u) => Snapped(u)'
    BY <1>1, <1>2 DEF Snapped
  <2>5. Watches(u)' => Watches(u)
    BY DEF Watches
  <2> QED BY <1>0, <2>1, <2>2, <2>3, <2>4, <2>5 DEF Flows
<1>3. ASSUME u = t PROVE Flows(u)'
  <2>1. \A i \in DOMAIN queue[u] : queue[u][i] # 0
    BY <1>0, <1>3 DEF Flows, EndQueued
  <2>2. EndQueued(u)'
    BY <2>1 DEF EndQueued
  <2>3. EndShown(u)' /\ ~proxy'[u].torn
    BY <1>0, <1>3 DEF Flows, EndShown
  <2>4. ASSUME Watches(u) PROVE InLine(u)' /\ (Kept(u)' \/ Snapped(u)')
    <3>1. InLine(u) /\ (Kept(u) \/ Snapped(u))
      BY <1>0, <2>4 DEF Flows
    <3>2. frames[u] <= frames'[u] /\ frames'[u] \in Nat
      BY <1>0, <1>3
    <3>3. proxy[u].shown + Len(queue[u]) <= frames[u]
      <4>1. CASE Len(queue[u]) = 0
        BY <1>0, <3>1, <4>1 DEF InLine
      <4>2. CASE Len(queue[u]) # 0
        <5>1. Len(queue[u]) \in DOMAIN queue[u]
          BY <1>0, <4>2
        <5>2. /\ queue[u][Len(queue[u])] = proxy[u].shown + Len(queue[u])
              /\ queue[u][Len(queue[u])] <= frames[u]
          BY <2>1, <3>1, <5>1 DEF InLine
        <5> QED BY <5>2
      <4> QED BY <4>1, <4>2
    <3>4. InLine(u)'
      <4>1. ASSUME NEW i \in DOMAIN answers', answers'[i].what = "frame", answers'[i].t = u
            PROVE  answers'[i].n > proxy[u].shown + Len(queue[u])
        <5>1. CASE i \in DOMAIN answers /\ answers'[i] = answers[i]
          BY <3>1, <4>1, <5>1 DEF InLine
        <5>2. CASE answers'[i] = e
          BY <1>0, <1>3, <3>3, <4>1, <5>2
        <5> QED BY <1>1, <5>1, <5>2
      <4>2. \A i \in DOMAIN queue[u] :
              queue[u][i] = 0 \/ (queue[u][i] = proxy[u].shown + i /\ queue[u][i] <= frames'[u])
        BY <1>0, <3>1, <3>2 DEF InLine
      <4>3. proxy[u].shown <= frames'[u]
        BY <1>0, <3>1, <3>2 DEF InLine
      <4> QED BY <4>1, <4>2, <4>3 DEF InLine
    <3>5. Kept(u) => Kept(u)'
      <4>1. SUFFICES ASSUME Kept(u), NEW n \in 1..frames'[u] PROVE Somewhere(u, n)'
        BY DEF Kept
      <4>2. CASE n \in 1..frames[u]
        BY <1>1, <4>1, <4>2 DEF Kept, Somewhere
      <4>3. CASE n \notin 1..frames[u]
        <5>1. e.what = "frame" /\ e.n = n
          BY <1>0, <1>3, <4>3
        <5> QED BY <1>1, <1>3, <5>1 DEF Somewhere
      <4> QED BY <4>2, <4>3
    <3>6. Snapped(u) => Snapped(u)'
      BY <1>1, <1>3 DEF Snapped
    <3> QED BY <3>1, <3>4, <3>5, <3>6
  <2>5. Watches(u)' => Watches(u)
    BY DEF Watches
  <2> QED BY <2>2, <2>3, <2>4, <2>5 DEF Flows
<1> QED BY <1>2, <1>3

LEMMA FlowsNext ==
  ASSUME TunnelInv, [Desk!Next]_(Desk!vars), NEW u \in Tunnels PROVE Flows(u)'
<1> USE DEF TunnelInv, TunnelsTyped
<1>0. Flows(u) /\ Sequel(u) /\ proxy[u] \in Views /\ queue[u] \in Seq(Nat) /\ WireTyped
  BY DEF PagesTyped
<1>1. ASSUME NEW t \in Tunnels, Desk!Asks(t) PROVE Flows(u)'
  <2>1. CASE u # t
    <3>1. proxy'[u] = proxy[u]
      BY <1>1, <2>1 DEF Desk!Asks, PagesTyped
    <3> QED BY <1>0, <1>1, <3>1, FlowsSame DEF Desk!Asks
  <2>2. CASE u = t
    <3>1. /\ proxy'[u].pc = "asking" /\ proxy'[u].user = proxy[u].user /\ proxy'[u].shown = proxy[u].shown
          /\ proxy'[u].torn = proxy[u].torn
      BY <1>0, <1>1, <2>2 DEF Desk!Asks, PagesTyped, Views
    <3>2. socket[u] = "none" /\ queue[u] = <<>> /\ UNCHANGED <<queue, socket, frames, answers>>
      BY <1>0, <1>1, <2>2 DEF Desk!Asks, Sequel
    <3>3. Watches(u)' => Watches(u) /\ Kept(u) /\ InLine(u)
      BY <1>0, <1>1, <2>2, <3>1, <3>2 DEF Desk!Asks, Watches, Flows, Snapped
    <3>4. EndQueued(u)' /\ EndShown(u)' /\ ~proxy'[u].torn
      BY <1>0, <3>1, <3>2 DEF Flows, EndQueued, EndShown
    <3>5. Kept(u) /\ InLine(u) => Kept(u)' /\ InLine(u)'
      BY <3>1, <3>2 DEF Kept, Somewhere, InLine
    <3> QED BY <3>3, <3>4, <3>5 DEF Flows
  <2> QED BY <2>1, <2>2
<1>2. ASSUME NEW t \in Tunnels, Desk!Unanswered(t) \/ Desk!SeesLeave(t) PROVE Flows(u)'
  BY <1>0, <1>2, FlowsEnd DEF Desk!Unanswered, Desk!SeesLeave
<1>3. ASSUME NEW t \in Tunnels, Desk!ShowsEnd(t) PROVE Flows(u)'
  <2>1. Flows(t) /\ queue[t] # <<>> /\ Head(queue[t]) = 0 /\ queue[t] \in Seq(Nat)
        /\ proxy[t].shown \in Nat /\ frames[t] \in Nat /\ proxy[t].pc = "looping"
    BY <1>3 DEF Desk!ShowsEnd, PagesTyped, SocketsTyped, Views
  <2>2. Len(queue[t]) \in Nat /\ DOMAIN queue[t] = 1..Len(queue[t]) /\ 1 \in DOMAIN queue[t]
        /\ queue[t][1] = 0
    BY <2>1, Taken, Elements
  <2>3. Len(queue[t]) = 1 /\ socket[t] = "ended" /\ NoneAnswered(t)
    BY <2>1, <2>2 DEF Flows, EndQueued
  <2>4. ASSUME proxy[t].user = "there", proxy[t].session = session PROVE proxy[t].shown = frames[t]
    <3>1. InLine(t) /\ Kept(t)
      BY <2>1, <2>4 DEF Flows, Watches, Snapped
    <3>2. ~(proxy[t].shown < frames[t])
      <4>1. SUFFICES ASSUME proxy[t].shown < frames[t] PROVE FALSE
        OBVIOUS
      <4>2. frames[t] \in 1..frames[t]
        BY <2>1, <4>1
      <4>3. Somewhere(t, frames[t])
        BY <3>1, <4>2 DEF Kept
      <4> QED BY <2>1, <2>2, <2>3, <4>1, <4>2, <4>3 DEF Somewhere, NoneAnswered
    <3> QED BY <2>1, <3>1, <3>2 DEF InLine
  <2> QED BY <1>0, <1>3, <2>3, <2>4, FlowsEnd DEF Desk!ShowsEnd
<1>4. ASSUME NEW t \in Tunnels, Desk!Leaves(t) PROVE Flows(u)'
  <2>1. CASE u # t
    <3>1. proxy'[u] = proxy[u]
      BY <1>4, <2>1 DEF Desk!Leaves, PagesTyped
    <3> QED BY <1>0, <1>4, <3>1, FlowsSame DEF Desk!Leaves
  <2>2. CASE u = t
    <3>1. /\ proxy'[u].pc = proxy[u].pc /\ proxy'[u].user = "left" /\ proxy'[u].torn = proxy[u].torn
          /\ proxy[u].pc # "ended"
      BY <1>0, <1>4, <2>2 DEF Desk!Leaves, PagesTyped, Views
    <3> QED BY <1>0, <1>4, <3>1 DEF Desk!Leaves, Flows, EndQueued, NoneAnswered, EndShown, Watches
  <2> QED BY <2>1, <2>2
<1>5. ASSUME NEW t \in Tunnels, Desk!ShowsFrame(t) PROVE Flows(u)'
  BY <1>5, FlowsShown
<1>6. CASE Desk!Handled \/ Desk!AcceptFails
  BY <1>6, FlowsTaken
<1>7. CASE Desk!Obeys
  <2>1. orders[1] = Head(orders) /\ 1 \in DOMAIN orders /\ Head(orders).t \in Tunnels
    BY <1>7, OrderTaken DEF Desk!Obeys
  <2>2. Head(orders).what = "open" => socket[Head(orders).t] = "none"
    BY <2>1 DEF OrderedOnce
  <2>3. \/ socket'[u] = socket[u]
        \/ socket[u] # "ended" /\ socket'[u] \notin {"none", "connecting", "open"}
        \/ socket[u] \in {"none", "connecting"}
    BY <1>7, <2>1, <2>2 DEF Desk!Obeys, Desk!OnClose, Desk!Closed, SocketsTyped
  <2> QED BY <1>0, <1>7, <2>3, FlowsSame DEF Desk!Obeys
<1>8. ASSUME NEW t \in Tunnels, Desk!Connects(t) PROVE Flows(u)'
  <2>1. CASE Adds(Tells(t, "opened", 0))
    <3> DEFINE e == Tells(t, "opened", 0)
    <3>1. e \in Answer /\ e.t = t /\ e.what = "opened" /\ e.n = 0
      BY TellsTyped
    <3> HIDE DEF e
    <3>2. Adds(e)
      BY <2>1 DEF e
    <3> QED BY <1>8, <3>1, <3>2, FlowsTold DEF Desk!Connects, SocketsTyped
  <2>2. CASE answers' = answers
    <3>1. socket'[u] = socket[u] \/ socket[u] \in {"none", "connecting"}
      BY <1>8 DEF Desk!Connects, SocketsTyped
    <3> QED BY <1>0, <1>8, <2>2, <3>1, FlowsSame DEF Desk!Connects
  <2> QED BY <1>0, <1>8, <2>1, <2>2, AnswerTyped DEF Desk!Connects, Adds, Tells
<1>9. ASSUME NEW t \in Tunnels, Desk!Refuses(t) \/ Desk!DesktopCloses(t) PROVE Flows(u)'
  <2>1. \/ socket'[u] = socket[u]
        \/ socket[u] # "ended" /\ socket'[u] \notin {"none", "connecting", "open"}
    BY <1>9 DEF Desk!Refuses, Desk!DesktopCloses, SocketsTyped
  <2> QED BY <1>0, <1>9, <2>1, FlowsSame DEF Desk!Refuses, Desk!DesktopCloses
<1>10. ASSUME NEW t \in Tunnels, Desk!Reads(t) PROVE Flows(u)'
  <2>0. /\ frames[t] + 1 \in Nat /\ frames'[t] = frames[t] + 1 /\ socket[t] = "open"
        /\ \A x \in Tunnels : x # t => socket'[x] = socket[x] /\ frames'[x] = frames[x]
        /\ UNCHANGED <<proxy, queue, session>>
    BY <1>10 DEF Desk!Reads, SocketsTyped
  <2>1. CASE Adds(Tells(t, "frame", frames[t] + 1))
    <3> DEFINE e == Tells(t, "frame", frames[t] + 1)
    <3>1. e \in Answer /\ e.t = t /\ e.what = "frame" /\ e.n = frames[t] + 1
      BY <2>0, TellsTyped
    <3> HIDE DEF e
    <3>2. Adds(e) /\ session # 0
      BY <2>1 DEF e, Adds
    <3>3. socket'[t] = "open"
      BY <1>10, <2>0, <3>2 DEF Desk!Reads
    <3> QED BY <2>0, <3>1, <3>2, <3>3, FlowsTold
  <2>2. CASE answers' = answers /\ session = 0
    <3>1. CASE u # t
      BY <1>0, <2>0, <2>2, <3>1, FlowsSame
    <3>2. CASE u = t
      <4>1. socket'[u] = "closing" /\ proxy[u].session # 0 /\ answers = <<>>
        BY <1>0, <1>10, <2>0, <2>2, <3>2 DEF Desk!Reads, SocketsTyped, Sequel, Numbered
      <4>2. Snapped(u)'
        BY <2>0, <2>2, <4>1 DEF Snapped
      <4>3. EndQueued(u)' /\ EndShown(u)' /\ ~proxy'[u].torn
        BY <1>0, <2>0, <3>2 DEF Flows, EndQueued, EndShown
      <4>4. Watches(u)' => InLine(u)'
        <5>1. Watches(u)' => InLine(u)
          BY <1>0, <2>0 DEF Flows, Watches
        <5> QED BY <2>0, <2>2, <3>2, <5>1 DEF InLine, PagesTyped, SocketsTyped, Views
      <4> QED BY <4>2, <4>3, <4>4 DEF Flows
    <3> QED BY <3>1, <3>2
  <2> QED BY <1>0, <1>10, <2>0, <2>1, <2>2, AnswerTyped DEF Desk!Reads, Adds, Tells
<1>11. ASSUME NEW t \in Tunnels, Desk!Finalizes(t) PROVE Flows(u)'
  <2>1. CASE Adds(Tells(t, "closed", 0))
    <3> DEFINE e == Tells(t, "closed", 0)
    <3>1. e \in Answer /\ e.t = t /\ e.what = "closed" /\ e.n = 0
      BY TellsTyped
    <3> HIDE DEF e
    <3>2. Adds(e)
      BY <2>1 DEF e
    <3> QED BY <1>11, <3>1, <3>2, FlowsTold DEF Desk!Finalizes, SocketsTyped
  <2>2. CASE answers' = answers
    <3>1. \/ socket'[u] = socket[u]
          \/ socket[u] # "ended" /\ socket'[u] \notin {"none", "connecting", "open"}
      BY <1>11 DEF Desk!Finalizes, SocketsTyped
    <3> QED BY <1>0, <1>11, <2>2, <3>1, FlowsSame DEF Desk!Finalizes
  <2> QED BY <1>0, <1>11, <2>1, <2>2, AnswerTyped DEF Desk!Finalizes, Desk!ReportsEnd, Adds, Tells
<1>12. CASE Desk!Disconnects
  <2>1. /\ UNCHANGED <<proxy, queue, frames>> /\ answers' = <<>> /\ session' = 0
        /\ socket'[u] = Desk!Closed(u)
    BY <1>12 DEF Desk!Disconnects
  <2>2. EndQueued(u)' /\ EndShown(u)' /\ ~proxy'[u].torn
    BY <1>0, <2>1 DEF Flows, EndQueued, EndShown, NoneAnswered, Desk!Closed, Sequel
  <2>3. InLine(u) => InLine(u)'
    BY <2>1 DEF InLine
  <2>4. Kept(u)' \/ Snapped(u)'
    <3>1. CASE socket[u] \in {"none", "connecting"}
      BY <1>0, <2>1, <3>1 DEF Sequel, Kept
    <3>2. CASE socket[u] \notin {"none", "connecting"}
      BY <1>0, <2>1, <3>2 DEF Sequel, Snapped, Desk!Closed
    <3> QED BY <3>1, <3>2
  <2> QED BY <1>0, <2>1, <2>2, <2>3, <2>4 DEF Flows, Watches
<1>13. CASE Desk!Reconnects
  <2>1. /\ UNCHANGED <<proxy, queue, frames, socket, answers>> /\ session' = nextSession
        /\ proxy[u].session # session'
    BY <1>0, <1>13 DEF Desk!Reconnects, Sequel, WireTyped, Views
  <2>2. EndQueued(u)' /\ EndShown(u)' /\ ~proxy'[u].torn
    BY <1>0, <2>1 DEF Flows, EndQueued, EndShown, NoneAnswered
  <2>3. InLine(u) => InLine(u)'
    BY <2>1 DEF InLine
  <2>4. Kept(u) => Kept(u)'
    BY <2>1 DEF Kept, Somewhere
  <2>5. Snapped(u) => Snapped(u)'
    BY <2>1 DEF Snapped
  <2> QED BY <1>0, <2>1, <2>2, <2>3, <2>4, <2>5 DEF Flows, Watches
<1>14. CASE UNCHANGED Desk!vars
  BY <1>0, <1>14, FlowsSame DEF Desk!vars
<1> QED BY <1>1, <1>2, <1>3, <1>4, <1>5, <1>6, <1>7, <1>8, <1>9, <1>10, <1>11, <1>12, <1>13, <1>14
        DEF Desk!Next, Desk!Exchange, Desk!PageNext, Desk!RunnerNext

(* A page shows all that its desktop sent, in its order, and when the tunnel   *)
(* ends while the connection holds, all of it: what was sent is in the         *)
(* answers, the queue or on the page, also when connections come and go.       *)
THEOREM FramesAreWhole == Desk!Spec => []Desk!StreamWhole
<1>1. Desk!Init => TunnelInv
  BY TunnelsBegin
<1>2. TunnelInv /\ [Desk!Next]_(Desk!vars) => TunnelInv'
  <2>1. SUFFICES ASSUME TunnelInv, [Desk!Next]_(Desk!vars) PROVE TunnelInv'
    OBVIOUS
  <2>2. TunnelsTyped'
    BY <2>1, TunnelsTypedNext DEF TunnelInv
  <2>3. \A t \in Tunnels : Sequel(t)' /\ Flows(t)'
    BY <2>1, SequelNext, FlowsNext DEF TunnelInv
  <2> QED BY <2>1, <2>2, <2>3, OrderedOnceNext, NumberedNext, EndAnsweredNext DEF TunnelInv
<1>3. TunnelInv => Desk!StreamWhole
  BY DEF TunnelInv, Flows, EndShown, Desk!StreamWhole
<1> QED BY <1>1, <1>2, <1>3, PTL DEF Desk!Spec
-----------------------------------------------------------------------------
(* Terminals. What a shell writes is on the uplink, in the inbox of a page     *)
(* that listens, or shown there; what is typed is in the requests or has got   *)
(* to its shell.                                                               *)
Screens == [state : {"away", "connecting", "connected", "idle"}, on : BOOLEAN, term : Nat,
            seen : Nat, torn : BOOLEAN, live : BOOLEAN, typed : Nat]
Keys == Pages \X Nat
Wishes == [what : {"start", "input", "close"}, t : Nat, key : Keys \cup {<<>>}]
Shells == [state : {"open", "exited", "closed"}, reader : {"reading", "ending", "cancelled", "done"},
           sent : Nat, got : Seq(Keys)]
News == [what : {"started", "output", "closed"}, t : Nat, n : Nat]

ScreensTyped == page \in [Pages -> Screens] /\ inbox \in [Pages -> Seq(News)]
WishesTyped ==
  requests \in Seq(Wishes) /\ \A i \in DOMAIN requests : requests[i].what = "input" => requests[i].key \in Keys
ShellsTyped == ptys \in Seq(Shells) /\ writes \in SUBSET [t : Nat, key : Keys]
NewsTyped == uplink \in Seq(News) /\ storing \in SUBSET {m \in News : m.what = "started"}
TerminalsTyped == ScreensTyped /\ WishesTyped /\ ShellsTyped /\ NewsTyped

(* How much a terminal has written.                                            *)
Wrote(t) == IF t \in DOMAIN ptys THEN ptys[t].sent ELSE 0

Shows(q, t, n) == \E i \in DOMAIN q : q[i].what = "output" /\ q[i].t = t /\ q[i].n = n
Rising(q) ==
  \A i, k \in DOMAIN q :
    i < k /\ q[i].what = "output" /\ q[k].what = "output" /\ q[i].t = q[k].t => q[i].n < q[k].n
Ahead(q, t, n) == \A i \in DOMAIN q : q[i].what = "output" /\ q[i].t = t => q[i].n > n
Listens(p) == page[p].state # "away" /\ page[p].on

(* After chunk n of a terminal the rest follows, to a page or on the uplink.   *)
Follows(p, t, n) ==
  /\ n \in 1..Wrote(t) /\ Ahead(uplink, t, n)
  /\ \A m \in n + 1..Wrote(t) : Shows(inbox[p], t, m) \/ Shows(uplink, t, m)
Carried(t, n) == n \in 1..Wrote(t) /\ \A m \in n + 1..Wrote(t) : Shows(uplink, t, m)
Chunked ==
  /\ Rising(uplink)
  /\ \A i \in DOMAIN uplink : uplink[i].what = "output" => Carried(uplink[i].t, uplink[i].n)
Inboxed(p) ==
  /\ Rising(inbox[p]) /\ (~Listens(p) => inbox[p] = <<>>)
  /\ \A i \in DOMAIN inbox[p] : inbox[p][i].what = "output" => Follows(p, inbox[p][i].t, inbox[p][i].n)
Seen(p) ==
  /\ ~page[p].torn
  /\ page[p].term # 0 /\ page[p].seen # 0 /\ Listens(p) =>
       Ahead(inbox[p], page[p].term, page[p].seen) /\ Follows(p, page[p].term, page[p].seen)
TerminalsInv == TerminalsTyped /\ Chunked /\ \A p \in Pages : Inboxed(p) /\ Seen(p)

LEMMA TerminalsBegin == Term!Init => TerminalsInv
<1> SUFFICES ASSUME Term!Init PROVE TerminalsInv
  OBVIOUS
<1>1. TerminalsTyped
  BY DEF Term!Init, Term!NewPage, TerminalsTyped, ScreensTyped, WishesTyped, ShellsTyped, NewsTyped, Screens
<1>2. Chunked
  BY DEF Term!Init, Chunked, Rising
<1>3. ASSUME NEW p \in Pages PROVE Inboxed(p) /\ Seen(p)
  BY DEF Term!Init, Term!NewPage, Inboxed, Seen, Rising
<1> QED BY <1>1, <1>2, <1>3 DEF TerminalsInv

(* A step changes one field of one shell, or adds a shell.                     *)
LEMMA ShellReplaced ==
  ASSUME NEW S, NEW q \in Seq(S), NEW t, NEW e, t \in DOMAIN q => e \in S
  PROVE  /\ [q EXCEPT ![t] = e] \in Seq(S) /\ DOMAIN [q EXCEPT ![t] = e] = DOMAIN q
         /\ Len([q EXCEPT ![t] = e]) = Len(q)
         /\ t \in DOMAIN q => [q EXCEPT ![t] = e][t] = e
         /\ \A u \in DOMAIN q : u # t => [q EXCEPT ![t] = e][u] = q[u]
<1>1. Len(q) \in Nat /\ q \in [1..Len(q) -> S]
  BY LenProperties
<1>2. [q EXCEPT ![t] = e] \in [1..Len(q) -> S]
  BY <1>1
<1> QED BY <1>1, <1>2

LEMMA Asked ==
  ASSUME WishesTyped, NEW what \in {"start", "input", "close"}, NEW t \in Nat,
         NEW key \in Keys \cup {<<>>}, what = "input" => key \in Keys, Term!Request(what, t, key)
  PROVE  WishesTyped'
<1> DEFINE e == [what |-> what, t |-> t, key |-> key]
<1>1. e \in Wishes /\ e.what = what /\ e.key = key
  BY DEF Wishes
<1>2. requests' = Append(requests, e) /\ requests \in Seq(Wishes)
  BY DEF Term!Request, WishesTyped
<1> HIDE DEF e
<1> QED BY <1>1, <1>2, Appended DEF WishesTyped

LEMMA WishTaken ==
  ASSUME WishesTyped, requests # <<>>
  PROVE  /\ Head(requests) \in Wishes /\ Head(requests) = requests[1] /\ 1 \in DOMAIN requests
         /\ Head(requests).t \in Nat
         /\ Head(requests).what = "input" => Head(requests).key \in Keys
         /\ requests' = Tail(requests) => WishesTyped'
         /\ \A i \in DOMAIN Tail(requests) :
              i \in Nat /\ i # 0 /\ i + 1 \in DOMAIN requests /\ Tail(requests)[i] = requests[i + 1]
<1>1. requests \in Seq(Wishes)
  BY DEF WishesTyped
<1>2. Head(requests) \in Wishes
  BY <1>1, Taken
<1>3. Head(requests).t \in Nat
  BY <1>2 DEF Wishes
<1> QED BY <1>1, <1>2, <1>3, Taken DEF WishesTyped

LEMMA Reported ==
  ASSUME NewsTyped, NEW what \in {"started", "output", "closed"}, NEW t \in Nat, NEW n \in Nat,
         Term!Reports(what, t, n)
  PROVE  /\ uplink' \in Seq(News)
         /\ \E e \in News : /\ uplink' = Append(uplink, e) /\ e.what = what /\ e.t = t /\ e.n = n
<1> DEFINE e == [what |-> what, t |-> t, n |-> n]
<1>1. e \in News /\ e.what = what /\ e.t = t /\ e.n = n
  BY DEF News
<1>2. uplink' = Append(uplink, e) /\ uplink \in Seq(News)
  BY DEF Term!Reports, NewsTyped
<1> HIDE DEF e
<1> QED BY <1>1, <1>2, Appended

(* What a step does to the shells: how much each has written grows by what     *)
(* Reads reports, and only the requests of a page add to what it got.          *)
LEMMA ShellChanged ==
  ASSUME ShellsTyped, NEW t, NEW e,
         t \in DOMAIN ptys => e \in Shells /\ e.sent = ptys[t].sent,
         ptys' = [ptys EXCEPT ![t] = e], writes' = writes
  PROVE  ShellsTyped' /\ \A u : Wrote(u)' = Wrote(u)
<1>1. ptys \in Seq(Shells)
  BY DEF ShellsTyped
<1>2. /\ ptys' \in Seq(Shells) /\ DOMAIN ptys' = DOMAIN ptys
      /\ t \in DOMAIN ptys => ptys'[t] = e
      /\ \A u \in DOMAIN ptys : u # t => ptys'[u] = ptys[u]
  BY <1>1, ShellReplaced
<1> QED BY <1>2 DEF ShellsTyped, Wrote

LEMMA ShellTyped ==
  ASSUME ShellsTyped, NEW t \in DOMAIN ptys
  PROVE  ptys[t] \in Shells /\ t \in Nat /\ t # 0
<1>1. ptys \in Seq(Shells)
  BY DEF ShellsTyped
<1> QED BY <1>1, Elements

(* The steps of a shell and of its reader.                                     *)
Written == \A t : Wrote(t)' = Wrote(t)

LEMMA ShellsMove ==
  ASSUME TerminalsTyped, [Term!Next]_(Term!vars)
  PROVE  /\ ShellsTyped'
         /\ Written \/ \E t \in DOMAIN ptys : Term!Reads(t) /\ Wrote(t)' = Wrote(t) + 1
                         /\ \A u : u # t => Wrote(u)' = Wrote(u)
<1> USE DEF TerminalsTyped
<1>1. ASSUME UNCHANGED <<ptys, writes>>
      PROVE  ShellsTyped' /\ Written
  BY <1>1 DEF ShellsTyped, Written, Wrote
<1>2. CASE Term!Started
  <2> DEFINE e == [state |-> "open", reader |-> "reading", sent |-> 0, got |-> <<>>]
  <2>1. e \in Shells /\ e.sent = 0
    BY DEF Shells
  <2>2. ptys' = Append(ptys, e) /\ ptys \in Seq(Shells) /\ writes' = writes
    BY <1>2 DEF Term!Started, ShellsTyped
  <2> HIDE DEF e
  <2>3. /\ ptys' \in Seq(Shells)
        /\ \A t \in DOMAIN ptys' : \/ t \in DOMAIN ptys /\ ptys'[t] = ptys[t]
                                   \/ t = Len(ptys) + 1 /\ ptys'[t] = e
        /\ \A t \in DOMAIN ptys : t \in DOMAIN ptys'
        /\ Len(ptys) + 1 \notin DOMAIN ptys
    BY <2>1, <2>2, Appended, AppendProperties, Elements
  <2> QED BY <2>1, <2>2, <2>3 DEF ShellsTyped, Written, Wrote
<1>3. CASE Term!Inputs
  <2> DEFINE r == Head(requests)
  <2>1. r.t \in Nat /\ r.key \in Keys
    BY <1>3, WishTaken DEF Term!Inputs
  <2> HIDE DEF r
  <2>2. \/ UNCHANGED <<writes, ptys>>
        \/ writes' = writes \cup {[t |-> r.t, key |-> r.key]} /\ UNCHANGED ptys
        \/ /\ ptys' = [ptys EXCEPT ![r.t] = [ptys[r.t] EXCEPT !.got = Append(ptys[r.t].got, r.key)]]
           /\ UNCHANGED writes
    BY <1>3 DEF Term!Inputs, r
  <2>3. CASE ptys' = [ptys EXCEPT ![r.t] = [ptys[r.t] EXCEPT !.got = Append(ptys[r.t].got, r.key)]]
             /\ UNCHANGED writes
    <3> DEFINE e == [ptys[r.t] EXCEPT !.got = Append(ptys[r.t].got, r.key)]
    <3>1. r.t \in DOMAIN ptys => e \in Shells /\ e.sent = ptys[r.t].sent
      <4>1. SUFFICES ASSUME r.t \in DOMAIN ptys PROVE e \in Shells /\ e.sent = ptys[r.t].sent
        OBVIOUS
      <4>2. ptys[r.t] \in Shells
        BY <4>1, ShellTyped
      <4>3. Append(ptys[r.t].got, r.key) \in Seq(Keys)
        BY <2>1, <4>2, AppendProperties DEF Shells
      <4> QED BY <4>2, <4>3 DEF Shells
    <3> HIDE DEF e
    <3>2. ptys' = [ptys EXCEPT ![r.t] = e] /\ writes' = writes
      BY <2>3 DEF e
    <3> QED BY <3>1, <3>2, ShellChanged DEF Written
  <2>4. CASE writes' = writes \cup {[t |-> r.t, key |-> r.key]} /\ UNCHANGED ptys
    BY <2>1, <2>4 DEF ShellsTyped, Written, Wrote
  <2> QED BY <1>1, <2>2, <2>3, <2>4
<1>4. CASE Term!Writes
  <2>1. PICK w \in writes : /\ writes' = writes \ {w}
                            /\ ptys' = [ptys EXCEPT ![w.t] = [ptys[w.t] EXCEPT !.got = Append(ptys[w.t].got, w.key)]]
    BY <1>4 DEF Term!Writes
  <2> DEFINE e == [ptys[w.t] EXCEPT !.got = Append(ptys[w.t].got, w.key)]
  <2>2. w.t \in Nat /\ w.key \in Keys /\ ptys \in Seq(Shells)
    BY DEF ShellsTyped
  <2>3. w.t \in DOMAIN ptys => e \in Shells /\ e.sent = ptys[w.t].sent
    <3>1. SUFFICES ASSUME w.t \in DOMAIN ptys PROVE e \in Shells /\ e.sent = ptys[w.t].sent
      OBVIOUS
    <3>2. ptys[w.t] \in Shells
      BY <3>1, ShellTyped
    <3>3. Append(ptys[w.t].got, w.key) \in Seq(Keys)
      BY <2>2, <3>2, AppendProperties DEF Shells
    <3> QED BY <3>2, <3>3 DEF Shells
  <2>4. ptys' = [ptys EXCEPT ![w.t] = e]
    BY <2>1
  <2> HIDE DEF e
  <2>5. /\ ptys' \in Seq(Shells) /\ DOMAIN ptys' = DOMAIN ptys
        /\ w.t \in DOMAIN ptys => ptys'[w.t] = e
        /\ \A u \in DOMAIN ptys : u # w.t => ptys'[u] = ptys[u]
    BY <2>2, <2>3, <2>4, ShellReplaced
  <2> QED BY <2>1, <2>3, <2>5 DEF ShellsTyped, Written, Wrote
<1>5. ASSUME NEW t \in DOMAIN ptys, Term!Reads(t)
      PROVE  ShellsTyped' /\ Wrote(t)' = Wrote(t) + 1 /\ \A u : u # t => Wrote(u)' = Wrote(u)
  <2> DEFINE e == [ptys[t] EXCEPT !.sent = ptys[t].sent + 1]
  <2>1. e \in Shells /\ e.sent = ptys[t].sent + 1
    BY ShellTyped DEF Shells
  <2>2. ptys' = [ptys EXCEPT ![t] = e] /\ writes' = writes /\ ptys \in Seq(Shells)
    BY <1>5 DEF Term!Reads, ShellsTyped
  <2> HIDE DEF e
  <2>3. /\ ptys' \in Seq(Shells) /\ DOMAIN ptys' = DOMAIN ptys /\ ptys'[t] = e
        /\ \A u \in DOMAIN ptys : u # t => ptys'[u] = ptys[u]
    BY <2>1, <2>2, ShellReplaced
  <2> QED BY <2>1, <2>2, <2>3 DEF ShellsTyped, Wrote
<1>6. ASSUME NEW t \in DOMAIN ptys, Term!Exits(t) \/ Term!ReaderEnds(t) \/ Term!ReaderReports(t)
      PROVE  ShellsTyped' /\ Written
  <2>0. ptys[t] \in Shells
    BY ShellTyped
  <2>1. PICK e \in Shells : e.sent = ptys[t].sent /\ ptys' = [ptys EXCEPT ![t] = e]
    <3>1. CASE Term!Exits(t)
      <4>1. ptys' = [ptys EXCEPT ![t] = [ptys[t] EXCEPT !.state = "exited"]]
        BY <3>1 DEF Term!Exits
      <4> QED BY <2>0, <4>1 DEF Shells
    <3>2. CASE Term!ReaderEnds(t)
      <4>1. ptys' = [ptys EXCEPT ![t] = [ptys[t] EXCEPT !.state = "closed", !.reader = "ending"]]
        BY <3>2 DEF Term!ReaderEnds
      <4> QED BY <2>0, <4>1 DEF Shells
    <3>3. CASE Term!ReaderReports(t)
      <4>1. ptys' = [ptys EXCEPT ![t] = [ptys[t] EXCEPT !.reader = "done"]]
        BY <3>3 DEF Term!ReaderReports
      <4> QED BY <2>0, <4>1 DEF Shells
    <3> QED BY <1>6, <3>1, <3>2, <3>3
  <2>2. writes' = writes
    BY <1>6 DEF Term!Exits, Term!ReaderEnds, Term!ReaderReports
  <2> QED BY <2>1, <2>2, ShellChanged DEF Written
<1>7. CASE Term!Closing
  <2> DEFINE t == Head(requests).t
             e == [ptys[t] EXCEPT !.reader = Term!CancelledReader(t), !.state = "closed"]
  <2>1. ptys' = [ptys EXCEPT ![t] = e] /\ writes' = writes
    BY <1>7 DEF Term!Closing, Term!ClosedPty
  <2>2. t \in DOMAIN ptys => e \in Shells /\ e.sent = ptys[t].sent
    BY ShellTyped DEF Shells, Term!CancelledReader
  <2> HIDE DEF t, e
  <2> QED BY <2>1, <2>2, ShellChanged DEF Written
<1> QED BY <1>1, <1>2, <1>3, <1>4, <1>5, <1>6, <1>7
        DEF Term!Next, Term!Obeys, Term!TerminalNext, Term!vars, Term!Starts, Term!Handled, Term!Stored,
            Term!Connects, Term!Types, Term!Closes, Term!Drops, Term!Reconnects, Term!Hears

LEMMA NewsTaken ==
  ASSUME NEW q \in Seq(News), q # <<>>
  PROVE  /\ Head(q) \in News /\ Head(q).t \in Nat /\ Head(q).n \in Nat
         /\ Head(q).what \in {"started", "output", "closed"}
         /\ Head(q) = q[1] /\ 1 \in DOMAIN q /\ Tail(q) \in Seq(News)
         /\ \A i \in DOMAIN Tail(q) : i \in Nat /\ i # 0 /\ i + 1 \in DOMAIN q /\ Tail(q)[i] = q[i + 1]
         /\ \A i \in DOMAIN q : i = 1 \/ (i - 1 \in DOMAIN Tail(q) /\ Tail(q)[i - 1] = q[i])
<1>1. Head(q) \in News
  BY Taken
<1>2. Head(q).t \in Nat /\ Head(q).n \in Nat /\ Head(q).what \in {"started", "output", "closed"}
  BY <1>1 DEF News
<1>3. \A i \in DOMAIN q : i = 1 \/ (i - 1 \in DOMAIN Tail(q) /\ Tail(q)[i - 1] = q[i])
  BY EmptySeq, HeadTailProperties, Elements
<1> QED BY <1>1, <1>2, <1>3, Taken

LEMMA ReachesPages ==
  ASSUME ScreensTyped, NEW m \in News, Term!Broadcast(m)
  PROVE  /\ inbox' \in [Pages -> Seq(News)]
         /\ \A p \in Pages : inbox'[p] = IF Listens(p) THEN Append(inbox[p], m) ELSE inbox[p]
<1>1. \A p \in Pages : inbox'[p] = IF Listens(p) THEN Append(inbox[p], m) ELSE inbox[p]
  BY DEF Term!Broadcast, Listens
<1>2. \A p \in Pages : Append(inbox[p], m) \in Seq(News) /\ inbox[p] \in Seq(News)
  BY AppendProperties DEF ScreensTyped
<1>3. inbox' = [p \in Pages |-> IF Listens(p) THEN Append(inbox[p], m) ELSE inbox[p]]
  BY DEF Term!Broadcast, Listens
<1> QED BY <1>1, <1>2, <1>3

LEMMA NewsMove ==
  ASSUME TerminalsTyped, [Term!Next]_(Term!vars) PROVE NewsTyped'
<1> USE DEF TerminalsTyped
<1>1. CASE UNCHANGED <<uplink, storing>>
  BY <1>1 DEF NewsTyped
<1>2. ASSUME NEW what \in {"started", "output", "closed"}, NEW t \in Nat, NEW n \in Nat,
             Term!Reports(what, t, n), UNCHANGED storing
      PROVE  NewsTyped'
  BY <1>2, Reported DEF NewsTyped
<1>3. CASE Term!Started
  <2>1. Len(ptys) + 1 \in Nat
    BY LenProperties DEF ShellsTyped
  <2> QED BY <1>2, <1>3, <2>1 DEF Term!Started
<1>4. ASSUME NEW t \in DOMAIN ptys, Term!Reads(t) \/ Term!ReaderReports(t) PROVE NewsTyped'
  <2>1. t \in Nat /\ ptys[t].sent + 1 \in Nat
    BY ShellTyped DEF Shells
  <2> QED BY <1>2, <1>4, <2>1 DEF Term!Reads, Term!ReaderReports, Term!EndReport
<1>5. CASE Term!Closing
  BY <1>2, <1>5, WishTaken DEF Term!Closing
<1>6. CASE Term!Handled
  <2>1. uplink \in Seq(News)
    BY DEF NewsTyped
  <2> QED BY <1>6, <2>1, NewsTaken DEF Term!Handled, NewsTyped
<1>7. CASE Term!Stored
  BY <1>7 DEF Term!Stored, NewsTyped
<1> QED BY <1>1, <1>3, <1>4, <1>5, <1>6, <1>7
        DEF Term!Next, Term!Obeys, Term!TerminalNext, Term!vars, Term!Starts, Term!Inputs, Term!Writes,
            Term!Exits, Term!ReaderEnds, Term!Connects, Term!Types, Term!Closes, Term!Drops,
            Term!Reconnects, Term!Hears

LEMMA WishesMove ==
  ASSUME TerminalsTyped, [Term!Next]_(Term!vars) PROVE WishesTyped'
<1> USE DEF TerminalsTyped
<1>1. CASE UNCHANGED requests
  BY <1>1 DEF WishesTyped
<1>2. CASE Term!Starts \/ Term!Inputs \/ Term!Closing
  BY <1>2, WishTaken DEF Term!Starts, Term!Inputs, Term!Closing
<1>3. ASSUME NEW p \in Pages PROVE page[p].term \in Nat /\ page[p].typed + 1 \in Nat
  BY DEF ScreensTyped, Screens
<1>4. ASSUME NEW p \in Pages, Term!Request("start", 0, <<>>) PROVE WishesTyped'
  BY <1>4, Asked
<1>5. ASSUME NEW p \in Pages, Term!Connects(p) \/ Term!Reconnects(p) PROVE WishesTyped'
  BY <1>1, <1>4, <1>5 DEF Term!Connects, Term!Reconnects
<1>6. ASSUME NEW p \in Pages, Term!Types(p) PROVE WishesTyped'
  <2>1. <<p, page[p].typed + 1>> \in Keys
    BY <1>3 DEF Keys
  <2> QED BY <1>3, <1>6, <2>1, Asked DEF Term!Types
<1>7. ASSUME NEW p \in Pages, Term!Closes(p) PROVE WishesTyped'
  BY <1>1, <1>3, <1>7, Asked DEF Term!Closes
<1> QED BY <1>1, <1>2, <1>5, <1>6, <1>7
        DEF Term!Next, Term!Obeys, Term!TerminalNext, Term!vars, Term!Started, Term!Writes, Term!Handled,
            Term!Stored, Term!Reads, Term!Exits, Term!ReaderEnds, Term!ReaderReports, Term!Drops, Term!Hears

(* What a page's own steps do to it.                                           *)
LEMMA ScreenChanged ==
  ASSUME ScreensTyped, NEW p \in Pages, NEW s \in Screens, page' = [page EXCEPT ![p] = s]
  PROVE  /\ page' \in [Pages -> Screens] /\ page'[p] = s
         /\ \A o \in Pages : o # p => page'[o] = page[o]
BY DEF ScreensTyped

(* A page asks for a terminal, types, leaves, loses its socket or has it back. *)
LEMMA PageActs ==
  ASSUME ScreensTyped, NEW p \in Pages,
         Term!Connects(p) \/ Term!Types(p) \/ Term!Closes(p) \/ Term!Drops(p) \/ Term!Reconnects(p)
  PROVE  \E s \in Screens :
           /\ page' = [page EXCEPT ![p] = s]
           /\ s.torn => page[p].torn
           /\ s.typed = page[p].typed \/ (Term!Types(p) /\ s.typed = page[p].typed + 1)
           /\ \/ s.term = 0 \/ ~s.on
              \/ page[p].on /\ s.term = page[p].term /\ s.seen = page[p].seen /\ s.state = page[p].state
                 /\ inbox'[p] = inbox[p]
           /\ \/ inbox'[p] = <<>> /\ inbox' \in [Pages -> Seq(News)]
              \/ inbox' = inbox /\ s.on
           /\ s.state = "away" => inbox'[p] = <<>> \/ page[p].state = "away"
           /\ \A o \in Pages : o # p => inbox'[o] = inbox[o]
<1>0. page[p] \in Screens /\ inbox[p] \in Seq(News)
  BY DEF ScreensTyped
<1>1. CASE Term!Connects(p)
  <2>1. page' = [page EXCEPT ![p] = [page[p] EXCEPT !.state = "connecting", !.term = 0]]
        /\ inbox' = inbox /\ page[p].on
    BY <1>1 DEF Term!Connects, Term!Connecting
  <2> QED BY <1>0, <2>1 DEF Screens
<1>2. CASE Term!Types(p)
  <2>1. page' = [page EXCEPT ![p] = [page[p] EXCEPT !.typed = page[p].typed + 1]]
        /\ inbox' = inbox /\ page[p].on
    BY <1>2 DEF Term!Types
  <2> DEFINE s == [page[p] EXCEPT !.typed = page[p].typed + 1]
  <2>2. /\ s \in Screens /\ s.torn = page[p].torn /\ s.typed = page[p].typed + 1 /\ s.on
        /\ s.term = page[p].term /\ s.seen = page[p].seen /\ s.state = page[p].state
    BY <1>0, <2>1 DEF Screens
  <2>3. page' = [page EXCEPT ![p] = s]
    BY <2>1
  <2> HIDE DEF s
  <2> QED BY <1>2, <2>1, <2>2, <2>3
<1>3. CASE Term!Closes(p)
  <2>1. page' = [page EXCEPT ![p] = [Term!NewPage EXCEPT !.typed = page[p].typed]]
        /\ inbox' = [inbox EXCEPT ![p] = <<>>]
    BY <1>3 DEF Term!Closes
  <2>2. inbox' \in [Pages -> Seq(News)] /\ inbox'[p] = <<>> /\ \A o \in Pages : o # p => inbox'[o] = inbox[o]
    BY <2>1 DEF ScreensTyped
  <2> DEFINE s == [Term!NewPage EXCEPT !.typed = page[p].typed]
  <2>3. s \in Screens /\ ~s.torn /\ s.typed = page[p].typed /\ s.term = 0
    BY <1>0 DEF Screens, Term!NewPage
  <2> HIDE DEF s
  <2>4. page' = [page EXCEPT ![p] = s]
    BY <2>1 DEF s
  <2> QED BY <2>2, <2>3, <2>4
<1>4. CASE Term!Drops(p)
  <2>1. page' = [page EXCEPT ![p] = [page[p] EXCEPT !.on = FALSE]] /\ inbox' = [inbox EXCEPT ![p] = <<>>]
    BY <1>4 DEF Term!Drops
  <2>2. inbox' \in [Pages -> Seq(News)] /\ inbox'[p] = <<>> /\ \A o \in Pages : o # p => inbox'[o] = inbox[o]
    BY <2>1 DEF ScreensTyped
  <2> DEFINE s == [page[p] EXCEPT !.on = FALSE]
  <2>3. s \in Screens /\ s.torn = page[p].torn /\ s.typed = page[p].typed /\ ~s.on
    BY <1>0 DEF Screens
  <2> HIDE DEF s
  <2>4. page' = [page EXCEPT ![p] = s]
    BY <2>1 DEF s
  <2> QED BY <2>2, <2>3, <2>4
<1>5. CASE Term!Reconnects(p)
  <2>1. inbox' = inbox
    BY <1>5 DEF Term!Reconnects
  <2>2. CASE page' = [page EXCEPT ![p] = [Term!Connecting(p) EXCEPT !.on = TRUE]]
    <3> DEFINE s == [Term!Connecting(p) EXCEPT !.on = TRUE]
    <3>1. s \in Screens /\ s.torn = page[p].torn /\ s.typed = page[p].typed /\ s.term = 0 /\ s.on
          /\ s.state # "away"
      BY <1>0 DEF Screens, Term!Connecting
    <3> HIDE DEF s
    <3>2. page' = [page EXCEPT ![p] = s]
      BY <2>2 DEF s
    <3> QED BY <2>1, <3>1, <3>2
  <2>3. CASE page' = [page EXCEPT ![p].on = TRUE,
                        ![p].state = IF @ = "connected" THEN "idle" ELSE @, ![p].term = 0]
    <3> DEFINE s == [page[p] EXCEPT !.on = TRUE,
                       !.state = IF page[p].state = "connected" THEN "idle" ELSE page[p].state, !.term = 0]
    <3>1. s \in Screens /\ s.torn = page[p].torn /\ s.typed = page[p].typed /\ s.term = 0 /\ s.on
          /\ (s.state = "away" => page[p].state = "away")
      BY <1>0 DEF Screens
    <3>2. page' = [page EXCEPT ![p] = s]
      BY <1>0, <2>3 DEF ScreensTyped, Screens
    <3> HIDE DEF s
    <3> QED BY <2>1, <3>1, <3>2
  <2> QED BY <1>5, <2>2, <2>3 DEF Term!Reconnects
<1> QED BY <1>1, <1>2, <1>3, <1>4, <1>5

(* What a page does with what it hears.                                        *)
LEMMA PageHears ==
  ASSUME ScreensTyped, NEW p \in Pages, Term!Hears(p)
  PROVE  /\ inbox[p] # <<>> /\ inbox' \in [Pages -> Seq(News)] /\ inbox'[p] = Tail(inbox[p])
         /\ \A o \in Pages : o # p => inbox'[o] = inbox[o]
         /\ \E s \in Screens :
              /\ page' = [page EXCEPT ![p] = s]
              /\ s.typed = page[p].typed /\ s.on = page[p].on
              /\ s.state = "away" => page[p].state = "away"
              /\ \/ s = page[p] /\ (Head(inbox[p]).what = "output" => Head(inbox[p]).t # page[p].term)
                 \/ /\ Head(inbox[p]).what = "output" /\ Head(inbox[p]).t = page[p].term
                    /\ s.term = page[p].term /\ s.seen = Head(inbox[p]).n
                    /\ s.torn <=> page[p].torn \/ (page[p].seen # 0 /\ Head(inbox[p]).n # page[p].seen + 1)
                 \/ s.seen = 0 /\ s.torn = page[p].torn
                 \/ s.term = 0 /\ s.torn = page[p].torn
<1> DEFINE m == Head(inbox[p])
<1>0. page[p] \in Screens /\ inbox[p] \in Seq(News) /\ inbox[p] # <<>>
  BY DEF ScreensTyped, Term!Hears
<1>1. m \in News /\ Tail(inbox[p]) \in Seq(News) /\ m.t \in Nat /\ m.n \in Nat
      /\ m.what \in {"started", "output", "closed"}
  BY <1>0, NewsTaken
<1>2. inbox' = [inbox EXCEPT ![p] = Tail(inbox[p])]
  BY DEF Term!Hears
<1>3. inbox' \in [Pages -> Seq(News)] /\ inbox'[p] = Tail(inbox[p])
      /\ \A o \in Pages : o # p => inbox'[o] = inbox[o]
  BY <1>1, <1>2 DEF ScreensTyped
<1>4. page' = IF Term!Takes(p, m) THEN [page EXCEPT ![p] = Term!Shown(p, m)] ELSE page
  BY DEF Term!Hears
<1> HIDE DEF m
<1>5. CASE ~Term!Takes(p, m)
  <2>1. page' = [page EXCEPT ![p] = page[p]]
    BY <1>4, <1>5 DEF ScreensTyped
  <2> QED BY <1>0, <1>3, <1>5, <2>1 DEF Term!Takes, m
<1>6. CASE Term!Takes(p, m) /\ m.what = "started"
  <2> DEFINE s == [page[p] EXCEPT !.state = "connected", !.term = m.t, !.seen = 0,
                                  !.live = ptys[m.t].state = "open"]
  <2>1. page' = [page EXCEPT ![p] = s]
    BY <1>4, <1>6 DEF Term!Shown
  <2>2. s \in Screens /\ s.typed = page[p].typed /\ s.on = page[p].on /\ s.seen = 0 /\ s.torn = page[p].torn
        /\ s.state = "connected"
    BY <1>0, <1>1 DEF Screens
  <2> HIDE DEF s
  <2> QED BY <1>0, <1>3, <2>1, <2>2
<1>7. CASE Term!Takes(p, m) /\ m.what = "output"
  <2> DEFINE s == [page[p] EXCEPT !.torn = page[p].torn \/ (page[p].seen # 0 /\ m.n # page[p].seen + 1),
                                  !.seen = m.n]
  <2>1. page' = [page EXCEPT ![p] = s]
    BY <1>4, <1>7 DEF Term!Shown
  <2>2. /\ s \in Screens /\ s.typed = page[p].typed /\ s.on = page[p].on /\ s.seen = m.n
        /\ s.term = page[p].term /\ s.state = page[p].state
        /\ s.torn <=> page[p].torn \/ (page[p].seen # 0 /\ m.n # page[p].seen + 1)
    BY <1>0, <1>1 DEF Screens
  <2>3. m.t = page[p].term
    BY <1>7 DEF Term!Takes
  <2> HIDE DEF s
  <2> QED BY <1>0, <1>3, <1>7, <2>1, <2>2, <2>3 DEF m
<1>8. CASE Term!Takes(p, m) /\ m.what = "closed"
  <2> DEFINE s == [page[p] EXCEPT !.state = "idle", !.term = 0]
  <2>1. page' = [page EXCEPT ![p] = s]
    BY <1>4, <1>8 DEF Term!Shown
  <2>2. s \in Screens /\ s.typed = page[p].typed /\ s.on = page[p].on /\ s.term = 0 /\ s.torn = page[p].torn
        /\ s.state = "idle"
    BY <1>0 DEF Screens
  <2> HIDE DEF s
  <2> QED BY <1>0, <1>3, <2>1, <2>2
<1> QED BY <1>1, <1>5, <1>6, <1>7, <1>8

LEMMA ScreensMove ==
  ASSUME TerminalsTyped, [Term!Next]_(Term!vars) PROVE ScreensTyped'
<1> USE DEF TerminalsTyped
<1>1. CASE UNCHANGED <<page, inbox>>
  BY <1>1 DEF ScreensTyped
<1>2. ASSUME NEW m \in News, Term!Broadcast(m), UNCHANGED page PROVE ScreensTyped'
  BY <1>2, ReachesPages DEF ScreensTyped
<1>3. CASE Term!Handled
  <2>1. Head(uplink) \in News
    BY <1>3, NewsTaken DEF Term!Handled, NewsTyped
  <2> QED BY <1>1, <1>2, <1>3, <2>1 DEF Term!Handled
<1>4. CASE Term!Stored
  BY <1>2, <1>4 DEF Term!Stored, NewsTyped
<1>5. ASSUME NEW p \in Pages,
             Term!Connects(p) \/ Term!Types(p) \/ Term!Closes(p) \/ Term!Drops(p) \/ Term!Reconnects(p)
      PROVE  ScreensTyped'
  <2>1. PICK s \in Screens : page' = [page EXCEPT ![p] = s] /\ (inbox' \in [Pages -> Seq(News)] \/ inbox' = inbox)
    BY <1>5, PageActs
  <2> QED BY <2>1, ScreenChanged DEF ScreensTyped
<1>6. ASSUME NEW p \in Pages, Term!Hears(p) PROVE ScreensTyped'
  <2>1. PICK s \in Screens : page' = [page EXCEPT ![p] = s] /\ inbox' \in [Pages -> Seq(News)]
    BY <1>6, PageHears
  <2> QED BY <2>1, ScreenChanged DEF ScreensTyped
<1> QED BY <1>1, <1>3, <1>4, <1>5, <1>6
        DEF Term!Next, Term!Obeys, Term!TerminalNext, Term!vars, Term!Starts, Term!Inputs, Term!Closing,
            Term!Started, Term!Writes, Term!Reads, Term!Exits, Term!ReaderEnds, Term!ReaderReports

LEMMA TerminalsTypedNext ==
  ASSUME TerminalsTyped, [Term!Next]_(Term!vars) PROVE TerminalsTyped'
BY ShellsMove, NewsMove, WishesMove, ScreensMove DEF TerminalsTyped

(* How a queue of reports changes.                                             *)
LEMMA ChunkAdded ==
  ASSUME NEW q \in Seq(News), NEW e \in News
  PROVE  /\ \A t, n : Shows(Append(q, e), t, n) <=>
                        Shows(q, t, n) \/ (e.what = "output" /\ e.t = t /\ e.n = n)
         /\ \A t, n : Ahead(Append(q, e), t, n) <=>
                        Ahead(q, t, n) /\ (e.what = "output" /\ e.t = t => e.n > n)
         /\ Rising(q) /\ (\A i \in DOMAIN q : q[i].what = "output" /\ e.what = "output" /\ q[i].t = e.t => q[i].n < e.n)
            => Rising(Append(q, e))
<1> DEFINE r == Append(q, e)
<1>1. /\ \A i \in DOMAIN r : (i \in DOMAIN q /\ r[i] = q[i]) \/ (i = Len(q) + 1 /\ r[i] = e)
      /\ \A i \in DOMAIN q : i \in DOMAIN r /\ r[i] = q[i]
      /\ Len(q) + 1 \in DOMAIN r /\ r[Len(q) + 1] = e
      /\ Len(q) \in Nat /\ DOMAIN q = 1..Len(q)
  BY Appended, AppendProperties, Elements
<1> HIDE DEF r
<1>2. \A t, n : Shows(r, t, n) <=> Shows(q, t, n) \/ (e.what = "output" /\ e.t = t /\ e.n = n)
  BY <1>1 DEF Shows
<1>3. \A t, n : Ahead(r, t, n) <=> Ahead(q, t, n) /\ (e.what = "output" /\ e.t = t => e.n > n)
  BY <1>1 DEF Ahead
<1>4. ASSUME Rising(q),
             \A i \in DOMAIN q : q[i].what = "output" /\ e.what = "output" /\ q[i].t = e.t => q[i].n < e.n
      PROVE  Rising(r)
  <2> SUFFICES ASSUME NEW i \in DOMAIN r, NEW k \in DOMAIN r, i < k, r[i].what = "output",
                      r[k].what = "output", r[i].t = r[k].t
               PROVE  r[i].n < r[k].n
    BY DEF Rising
  <2>1. i \in DOMAIN q /\ r[i] = q[i]
    BY <1>1
  <2>2. CASE k \in DOMAIN q /\ r[k] = q[k]
    BY <1>4, <2>1, <2>2 DEF Rising
  <2>3. CASE r[k] = e
    BY <1>4, <2>1, <2>3
  <2> QED BY <1>1, <2>2, <2>3
<1> QED BY <1>2, <1>3, <1>4 DEF r

LEMMA ChunkTaken ==
  ASSUME NEW q \in Seq(News), q # <<>>
  PROVE  /\ \A t, n : Shows(q, t, n) => Shows(Tail(q), t, n)
                        \/ (Head(q).what = "output" /\ Head(q).t = t /\ Head(q).n = n)
         /\ \A t, n : Ahead(q, t, n) => Ahead(Tail(q), t, n)
                        /\ (Head(q).what = "output" /\ Head(q).t = t => Head(q).n > n)
         /\ Rising(q) => /\ Rising(Tail(q))
                         /\ Head(q).what = "output" => Ahead(Tail(q), Head(q).t, Head(q).n)
<1> DEFINE r == Tail(q)
<1>1. /\ Head(q) = q[1] /\ 1 \in DOMAIN q
      /\ \A i \in DOMAIN r : i \in Nat /\ i # 0 /\ i + 1 \in DOMAIN q /\ r[i] = q[i + 1]
      /\ \A i \in DOMAIN q : i = 1 \/ (i - 1 \in DOMAIN r /\ r[i - 1] = q[i])
  BY NewsTaken
<1> HIDE DEF r
<1>2. \A t, n : Shows(q, t, n) => Shows(r, t, n) \/ (q[1].what = "output" /\ q[1].t = t /\ q[1].n = n)
  BY <1>1 DEF Shows
<1>3. \A t, n : Ahead(q, t, n) => Ahead(r, t, n) /\ (q[1].what = "output" /\ q[1].t = t => q[1].n > n)
  BY <1>1 DEF Ahead
<1>4. ASSUME Rising(q) PROVE Rising(r)
  <2> SUFFICES ASSUME NEW i \in DOMAIN r, NEW k \in DOMAIN r, i < k, r[i].what = "output",
                      r[k].what = "output", r[i].t = r[k].t
               PROVE  r[i].n < r[k].n
    BY DEF Rising
  <2>1. i + 1 \in DOMAIN q /\ k + 1 \in DOMAIN q /\ i + 1 < k + 1 /\ r[i] = q[i + 1] /\ r[k] = q[k + 1]
    BY <1>1
  <2> QED BY <1>4, <2>1 DEF Rising
<1>5. ASSUME Rising(q), q[1].what = "output" PROVE Ahead(r, q[1].t, q[1].n)
  <2> SUFFICES ASSUME NEW i \in DOMAIN r, r[i].what = "output", r[i].t = q[1].t
               PROVE  r[i].n > q[1].n
    BY DEF Ahead
  <2>1. i + 1 \in DOMAIN q /\ 1 < i + 1 /\ r[i] = q[i + 1] /\ i + 1 \in Nat
    BY <1>1
  <2>2. q[1].n < q[i + 1].n
    BY <1>1, <1>5, <2>1 DEF Rising
  <2>3. q[i + 1] \in News /\ q[1] \in News
    BY <1>1, <2>1, Elements
  <2> QED BY <2>1, <2>2, <2>3 DEF News
<1> QED BY <1>1, <1>2, <1>3, <1>4, <1>5 DEF r

(* What one step does to the reports: a shell's chunk or another report is put *)
(* on the uplink, the backend takes the first one or tells of a stored start,  *)
(* a page hears its first one, or a page acts.                                 *)
Acts(p) == Term!Connects(p) \/ Term!Types(p) \/ Term!Closes(p) \/ Term!Drops(p) \/ Term!Reconnects(p)
Chunk(t, e) ==
  /\ e.what = "output" /\ e.t = t /\ e.n = Wrote(t) + 1 /\ Wrote(t)' = Wrote(t) + 1
  /\ \A u : u # t => Wrote(u)' = Wrote(u)

Puts(e) ==
  /\ uplink' = Append(uplink, e) /\ UNCHANGED <<page, inbox>>
  /\ (e.what # "output" /\ Written) \/ \E t : Chunk(t, e)
Brings ==
  /\ uplink # <<>> /\ uplink' = Tail(uplink) /\ Written /\ UNCHANGED page
  /\ \/ Head(uplink).what = "started" /\ UNCHANGED inbox
     \/ Term!Broadcast(Head(uplink))
Recalls(m) == m.what = "started" /\ Term!Broadcast(m) /\ Written /\ UNCHANGED <<page, uplink>>

LEMMA ReportsMove ==
  ASSUME TerminalsTyped, [Term!Next]_(Term!vars)
  PROVE  \/ Written /\ UNCHANGED <<page, inbox, uplink>>
         \/ \E e \in News : Puts(e)
         \/ Brings
         \/ \E m \in News : Recalls(m)
         \/ \E p \in Pages : (Term!Hears(p) \/ Acts(p)) /\ Written /\ UNCHANGED uplink
<1> USE DEF TerminalsTyped
<1>1. ASSUME NEW what \in {"started", "closed"}, NEW t \in Nat, NEW n \in Nat,
             Term!Reports(what, t, n), UNCHANGED <<page, inbox>>, Written
      PROVE  \E e \in News : Puts(e)
  <2>1. PICK e \in News : uplink' = Append(uplink, e) /\ e.what = what
    BY <1>1, Reported
  <2> QED BY <1>1, <2>1 DEF Puts
<1>2. ASSUME NEW t \in DOMAIN ptys, Term!Reads(t), Wrote(t)' = Wrote(t) + 1,
             \A u : u # t => Wrote(u)' = Wrote(u)
      PROVE  \E e \in News : Puts(e)
  <2>1. ptys[t].sent + 1 \in Nat /\ t \in Nat
    BY ShellTyped DEF Shells
  <2>2. PICK e \in News : uplink' = Append(uplink, e) /\ e.what = "output" /\ e.t = t /\ e.n = ptys[t].sent + 1
    BY <1>2, <2>1, Reported DEF Term!Reads
  <2>3. Chunk(t, e)
    BY <1>2, <2>2 DEF Chunk, Wrote
  <2> QED BY <1>2, <2>2, <2>3 DEF Puts, Term!Reads
<1>3. ASSUME Written
      PROVE  \/ UNCHANGED <<page, inbox, uplink>>
             \/ \E e \in News : Puts(e)
             \/ Brings
             \/ \E m \in News : Recalls(m)
             \/ \E p \in Pages : (Term!Hears(p) \/ Acts(p)) /\ UNCHANGED uplink
  <2>1. CASE Term!Started
    <3>1. Len(ptys) + 1 \in Nat
      BY LenProperties DEF ShellsTyped
    <3> QED BY <1>1, <1>3, <2>1, <3>1 DEF Term!Started
  <2>2. ASSUME NEW t \in DOMAIN ptys, Term!ReaderReports(t) PROVE \E e \in News : Puts(e)
    <3>1. t \in Nat
      BY ShellTyped
    <3> QED BY <1>1, <1>3, <2>2, <3>1 DEF Term!ReaderReports, Term!EndReport
  <2>3. ASSUME NEW t \in DOMAIN ptys, Term!Reads(t) PROVE FALSE
    <3>1. ptys \in Seq(Shells) /\ ptys[t] \in Shells
      BY ShellTyped DEF ShellsTyped
    <3>2. ptys' = [ptys EXCEPT ![t] = [ptys[t] EXCEPT !.sent = ptys[t].sent + 1]]
      BY <2>3 DEF Term!Reads
    <3>3. ptys'[t].sent = ptys[t].sent + 1 /\ t \in DOMAIN ptys'
      BY <3>1, <3>2 DEF Shells
    <3>4. ptys'[t].sent = ptys[t].sent
      BY <1>3, <3>3 DEF Written, Wrote
    <3> QED BY <3>1, <3>3, <3>4 DEF Shells
  <2>4. CASE Term!Closing
    BY <1>1, <1>3, <2>4, WishTaken DEF Term!Closing
  <2>5. CASE Term!Handled
    BY <1>3, <2>5 DEF Term!Handled, Brings
  <2>6. CASE Term!Stored
    <3>1. PICK m \in storing : Term!Broadcast(m) /\ UNCHANGED <<page, uplink>>
      BY <2>6 DEF Term!Stored
    <3>2. m \in News /\ m.what = "started"
      BY DEF NewsTyped
    <3> QED BY <1>3, <3>1, <3>2 DEF Recalls
  <2>7. ASSUME NEW p \in Pages, Acts(p) \/ Term!Hears(p) PROVE UNCHANGED uplink
    BY <2>7 DEF Acts, Term!Connects, Term!Types, Term!Closes, Term!Drops, Term!Reconnects, Term!Hears
  <2>8. CASE \/ Term!Starts \/ Term!Inputs \/ Term!Writes \/ UNCHANGED Term!vars
             \/ \E t \in DOMAIN ptys : Term!ReaderEnds(t) \/ Term!Exits(t)
    BY <2>8 DEF Term!Starts, Term!Inputs, Term!Writes, Term!vars, Term!ReaderEnds, Term!Exits
  <2> QED BY <2>1, <2>2, <2>3, <2>4, <2>5, <2>6, <2>7, <2>8
          DEF Term!Next, Term!Obeys, Term!TerminalNext, Acts
<1> QED BY <1>2, <1>3, ShellsMove

LEMMA WroteTyped == ASSUME ShellsTyped, NEW t PROVE Wrote(t) \in Nat
BY ShellTyped DEF Wrote, Shells

LEMMA NewsAt ==
  ASSUME NEW q \in Seq(News), NEW i \in DOMAIN q
  PROVE  q[i] \in News /\ q[i].n \in Nat /\ i \in Nat
<1>1. q[i] \in News /\ i \in Nat
  BY Elements
<1> QED BY <1>1 DEF News

(* A report put on the uplink: the chunk it carries is the next one.           *)
LEMMA FollowsPut ==
  ASSUME TerminalsTyped, NEW e \in News, Puts(e), NEW p \in Pages, NEW t, NEW n, Follows(p, t, n)
  PROVE  Follows(p, t, n)'
<1>1. uplink \in Seq(News) /\ uplink' = Append(uplink, e) /\ inbox' = inbox
  BY DEF TerminalsTyped, NewsTyped, Puts
<1>2. /\ \A u, m : Shows(uplink', u, m) <=> Shows(uplink, u, m) \/ (e.what = "output" /\ e.t = u /\ e.n = m)
      /\ \A u, m : Ahead(uplink', u, m) <=> Ahead(uplink, u, m) /\ (e.what = "output" /\ e.t = u => e.n > m)
  BY <1>1, ChunkAdded
<1>3. Wrote(t) \in Nat
  BY WroteTyped DEF TerminalsTyped
<1>4. CASE e.what # "output" /\ Written
  BY <1>1, <1>2, <1>4 DEF Follows, Written
<1>5. CASE \E u : Chunk(u, e)
  <2>1. PICK u : Chunk(u, e)
    BY <1>5
  <2>2. CASE u = t
    BY <1>1, <1>2, <1>3, <2>1, <2>2 DEF Follows, Chunk
  <2>3. CASE u # t
    BY <1>1, <1>2, <1>3, <2>1, <2>3 DEF Follows, Chunk
  <2> QED BY <2>2, <2>3
<1> QED BY <1>4, <1>5 DEF Puts

LEMMA ChunkedPut ==
  ASSUME TerminalsTyped, Chunked, NEW e \in News, Puts(e)
  PROVE  Chunked'
<1>1. uplink \in Seq(News) /\ uplink' = Append(uplink, e)
  BY DEF TerminalsTyped, NewsTyped, Puts
<1>2. /\ \A u, m : Shows(uplink', u, m) <=> Shows(uplink, u, m) \/ (e.what = "output" /\ e.t = u /\ e.n = m)
      /\ Rising(uplink) /\ (\A i \in DOMAIN uplink : uplink[i].what = "output" /\ e.what = "output"
                                                     /\ uplink[i].t = e.t => uplink[i].n < e.n)
         => Rising(uplink')
  BY <1>1, ChunkAdded
<1>3. ASSUME NEW t PROVE Wrote(t) \in Nat
  BY WroteTyped DEF TerminalsTyped
<1>4. /\ \A i \in DOMAIN uplink' : \/ i \in DOMAIN uplink /\ uplink'[i] = uplink[i]
                                   \/ uplink'[i] = e
      /\ \A i \in DOMAIN uplink : uplink[i].n \in Nat
  BY <1>1, Appended, NewsAt
<1>5. CASE e.what # "output" /\ Written
  <2>1. \A t, n : Carried(t, n) => Carried(t, n)'
    BY <1>2, <1>5 DEF Carried, Written
  <2> QED BY <1>2, <1>4, <1>5, <2>1 DEF Chunked
<1>6. CASE \E u : Chunk(u, e)
  <2>1. PICK u : Chunk(u, e)
    BY <1>6
  <2>2. ASSUME NEW t, NEW n, Carried(t, n) PROVE Carried(t, n)' /\ (e.t = t => n < e.n)
    <3>1. CASE t = u
      BY <1>2, <1>3, <2>1, <2>2, <3>1 DEF Carried, Chunk
    <3>2. CASE t # u
      BY <1>2, <1>3, <2>1, <2>2, <3>2 DEF Carried, Chunk
    <3> QED BY <3>1, <3>2
  <2>3. Carried(u, e.n)'
    BY <1>3, <2>1 DEF Carried, Chunk
  <2>4. Rising(uplink')
    BY <1>2, <2>2 DEF Chunked
  <2> QED BY <1>4, <2>1, <2>2, <2>3, <2>4 DEF Chunked, Chunk
<1> QED BY <1>5, <1>6 DEF Puts

LEMMA PutKeeps ==
  ASSUME TerminalsInv, NEW e \in News, Puts(e)
  PROVE  Chunked' /\ \A p \in Pages : Inboxed(p)' /\ Seen(p)'
<1>1. Chunked'
  BY ChunkedPut DEF TerminalsInv
<1>2. ASSUME NEW p \in Pages PROVE Inboxed(p)' /\ Seen(p)'
  <2>1. \A t, n : Follows(p, t, n) => Follows(p, t, n)'
    BY FollowsPut DEF TerminalsInv
  <2>2. page' = page /\ inbox' = inbox /\ Inboxed(p) /\ Seen(p)
    BY DEF Puts, TerminalsInv
  <2>3. Inboxed(p)'
    BY <2>1, <2>2 DEF Inboxed, Listens
  <2>4. Seen(p)'
    BY <2>1, <2>2 DEF Seen, Listens
  <2> QED BY <2>3, <2>4
<1> QED BY <1>1, <1>2

(* The backend takes the first report of the uplink.                           *)
LEMMA ChunkedBrings ==
  ASSUME TerminalsTyped, Chunked, Brings
  PROVE  /\ Chunked'
         /\ Head(uplink).what = "output" =>
              /\ Head(uplink).n \in 1..Wrote(Head(uplink).t) /\ Ahead(uplink', Head(uplink).t, Head(uplink).n)
              /\ \A m \in Head(uplink).n + 1..Wrote(Head(uplink).t) : Shows(uplink', Head(uplink).t, m)
<1> DEFINE h == Head(uplink)
<1>1. uplink \in Seq(News) /\ uplink # <<>> /\ uplink' = Tail(uplink) /\ Written
  BY DEF TerminalsTyped, NewsTyped, Brings
<1>2. /\ \A t, n : Shows(uplink, t, n) => Shows(uplink', t, n) \/ (h.what = "output" /\ h.t = t /\ h.n = n)
      /\ Rising(uplink') /\ (h.what = "output" => Ahead(uplink', h.t, h.n))
  BY <1>1, ChunkTaken DEF Chunked
<1>3. /\ h = uplink[1] /\ 1 \in DOMAIN uplink /\ h.n \in Nat
      /\ \A i \in DOMAIN uplink' : i + 1 \in DOMAIN uplink /\ uplink'[i] = uplink[i + 1]
  BY <1>1, NewsTaken
<1> HIDE DEF h
<1>4. ASSUME NEW t PROVE Wrote(t) \in Nat /\ Wrote(t)' = Wrote(t)
  BY <1>1, WroteTyped DEF TerminalsTyped, Written
<1>5. ASSUME NEW t, NEW n, Carried(t, n), h.what = "output" /\ h.t = t => n > h.n
      PROVE  Carried(t, n)'
  BY <1>2, <1>3, <1>4, <1>5 DEF Carried
<1>6. ASSUME h.what = "output"
      PROVE  h.n \in 1..Wrote(h.t) /\ \A m \in h.n + 1..Wrote(h.t) : Shows(uplink', h.t, m)
  <2>1. h.n \in 1..Wrote(h.t) /\ \A m \in h.n + 1..Wrote(h.t) : Shows(uplink, h.t, m)
    BY <1>3, <1>6 DEF Chunked, Carried
  <2> QED BY <1>2, <1>3, <1>4, <2>1
<1>7. \A i \in DOMAIN uplink' : uplink'[i].what = "output" =>
        Carried(uplink'[i].t, uplink'[i].n) /\ (h.what = "output" /\ h.t = uplink'[i].t => uplink'[i].n > h.n)
  BY <1>2, <1>3 DEF Chunked, Ahead
<1>8. Chunked'
  BY <1>2, <1>5, <1>7 DEF Chunked
<1> QED BY <1>2, <1>6, <1>8 DEF h

LEMMA BringsKeeps ==
  ASSUME TerminalsInv, Brings
  PROVE  Chunked' /\ \A p \in Pages : Inboxed(p)' /\ Seen(p)'
<1>0. ScreensTyped /\ NewsTyped /\ ShellsTyped /\ TerminalsTyped /\ Chunked
      /\ \A p \in Pages : Inboxed(p) /\ Seen(p)
  BY DEF TerminalsInv, TerminalsTyped
<1>1. uplink \in Seq(News) /\ uplink # <<>> /\ uplink' = Tail(uplink) /\ Written /\ page' = page
  BY <1>0 DEF NewsTyped, Brings
<1>4. PICK h \in News : h = Head(uplink)
  BY <1>1, NewsTaken
<1>2. /\ \A t, n : Shows(uplink, t, n) => Shows(uplink', t, n) \/ (h.what = "output" /\ h.t = t /\ h.n = n)
      /\ \A t, n : Ahead(uplink, t, n) => Ahead(uplink', t, n) /\ (h.what = "output" /\ h.t = t => h.n > n)
  BY <1>1, <1>4, ChunkTaken
<1>3. /\ Chunked'
      /\ h.what = "output" =>
           /\ h.n \in 1..Wrote(h.t) /\ Ahead(uplink', h.t, h.n)
           /\ \A m \in h.n + 1..Wrote(h.t) : Shows(uplink', h.t, m)
  BY <1>0, <1>4, ChunkedBrings
<1>5. \/ \A p \in Pages : inbox'[p] = IF Listens(p) THEN Append(inbox[p], h) ELSE inbox[p]
      \/ h.what # "output" /\ inbox' = inbox
  <2>1. CASE Term!Broadcast(h)
    BY <1>0, <1>4, <2>1, ReachesPages
  <2>2. CASE h.what = "started" /\ UNCHANGED inbox
    BY <2>2
  <2> QED BY <1>4, <2>1, <2>2 DEF Brings
<1>6. ASSUME NEW p \in Pages PROVE Inboxed(p)' /\ Seen(p)'
  <2>0. Inboxed(p) /\ Seen(p) /\ inbox[p] \in Seq(News) /\ page'[p] = page[p] /\ (Listens(p)' <=> Listens(p))
    BY <1>0, <1>1 DEF ScreensTyped, Listens
  <2>1. CASE ~Listens(p)
    <3>1. inbox'[p] = <<>>
      BY <1>5, <2>0, <2>1 DEF Inboxed
    <3> QED BY <2>0, <2>1, <3>1 DEF Inboxed, Seen, Rising
  <2>2. CASE Listens(p) /\ h.what # "output" /\ inbox' = inbox
    <3>1. \A t, n : Follows(p, t, n) => Follows(p, t, n)'
      BY <1>1, <1>2, <2>2 DEF Follows, Written
    <3>2. Inboxed(p)'
      BY <2>0, <2>2, <3>1 DEF Inboxed
    <3>3. Seen(p)'
      BY <2>0, <2>2, <3>1 DEF Seen
    <3> QED BY <3>2, <3>3
  <2>3. CASE Listens(p) /\ inbox'[p] = Append(inbox[p], h)
    <3>1. /\ \A t, n : Shows(inbox'[p], t, n) <=>
                         Shows(inbox[p], t, n) \/ (h.what = "output" /\ h.t = t /\ h.n = n)
          /\ \A t, n : Ahead(inbox'[p], t, n) <=>
                         Ahead(inbox[p], t, n) /\ (h.what = "output" /\ h.t = t => h.n > n)
          /\ Rising(inbox[p]) /\ (\A i \in DOMAIN inbox[p] : inbox[p][i].what = "output" /\ h.what = "output"
                                                             /\ inbox[p][i].t = h.t => inbox[p][i].n < h.n)
             => Rising(inbox'[p])
      BY <1>4, <2>0, <2>3, ChunkAdded
    <3>2. /\ \A i \in DOMAIN inbox'[p] : \/ i \in DOMAIN inbox[p] /\ inbox'[p][i] = inbox[p][i]
                                         \/ inbox'[p][i] = h
      BY <1>4, <2>0, <2>3, Appended
    <3>3. ASSUME NEW t, NEW n, Follows(p, t, n)
          PROVE  Follows(p, t, n)' /\ (h.what = "output" /\ h.t = t => h.n > n)
      BY <1>1, <1>2, <3>1, <3>3 DEF Follows, Written
    <3>4. h.what = "output" => Follows(p, h.t, h.n)'
      BY <1>1, <1>3, <3>1 DEF Follows, Written
    <3>5. Rising(inbox'[p])
      <4>1. ASSUME NEW i \in DOMAIN inbox[p], inbox[p][i].what = "output", h.what = "output", inbox[p][i].t = h.t
            PROVE  inbox[p][i].n < h.n
        <5>1. h.n > inbox[p][i].n
          BY <2>0, <3>3, <4>1 DEF Inboxed
        <5>2. inbox[p][i].n \in Nat /\ h.n \in Nat
          BY <1>4, <2>0, NewsAt DEF News
        <5> QED BY <5>1, <5>2
      <4> QED BY <2>0, <3>1, <4>1 DEF Inboxed
    <3>6. Inboxed(p)'
      BY <2>0, <2>3, <3>2, <3>3, <3>4, <3>5 DEF Inboxed
    <3>7. Seen(p)'
      BY <2>0, <2>3, <3>1, <3>3 DEF Seen
    <3> QED BY <3>6, <3>7
  <2> QED BY <1>5, <2>1, <2>2, <2>3
<1> QED BY <1>3, <1>6

(* A stored start is told.                                                     *)
LEMMA RecallKeeps ==
  ASSUME TerminalsInv, NEW e \in News, Recalls(e)
  PROVE  Chunked' /\ \A p \in Pages : Inboxed(p)' /\ Seen(p)'
<1>0. ScreensTyped /\ Chunked /\ \A p \in Pages : Inboxed(p) /\ Seen(p)
  BY DEF TerminalsInv, TerminalsTyped
<1>1. e.what = "started" /\ uplink' = uplink /\ page' = page /\ Written
      /\ \A p \in Pages : inbox'[p] = IF Listens(p) THEN Append(inbox[p], e) ELSE inbox[p]
  BY <1>0, ReachesPages DEF Recalls
<1>2. Chunked'
  BY <1>0, <1>1 DEF Chunked, Carried, Written
<1>3. ASSUME NEW p \in Pages PROVE Inboxed(p)' /\ Seen(p)'
  <2>0. Inboxed(p) /\ Seen(p) /\ inbox[p] \in Seq(News) /\ page'[p] = page[p] /\ (Listens(p)' <=> Listens(p))
    BY <1>0, <1>1 DEF ScreensTyped, Listens
  <2>1. CASE ~Listens(p)
    <3>1. inbox'[p] = <<>>
      BY <1>1, <2>0, <2>1 DEF Inboxed
    <3> QED BY <2>0, <2>1, <3>1 DEF Inboxed, Seen, Rising
  <2>2. CASE Listens(p)
    <3>0. inbox'[p] = Append(inbox[p], e) /\ e.what # "output"
      BY <1>1, <2>2
    <3>1. /\ \A t, n : Shows(inbox'[p], t, n) <=> Shows(inbox[p], t, n)
          /\ \A t, n : Ahead(inbox'[p], t, n) <=> Ahead(inbox[p], t, n)
          /\ Rising(inbox[p]) => Rising(inbox'[p])
      BY <2>0, <3>0, ChunkAdded
    <3>2. \A i \in DOMAIN inbox'[p] : \/ i \in DOMAIN inbox[p] /\ inbox'[p][i] = inbox[p][i]
                                      \/ inbox'[p][i] = e
      BY <2>0, <3>0, Appended
    <3>3. \A t, n : Follows(p, t, n) => Follows(p, t, n)'
      BY <1>1, <3>1 DEF Follows, Written
    <3>4. Inboxed(p)'
      BY <1>1, <2>0, <2>2, <3>1, <3>2, <3>3 DEF Inboxed
    <3>5. Seen(p)'
      BY <2>0, <2>2, <3>1, <3>3 DEF Seen
    <3> QED BY <3>4, <3>5
  <2> QED BY <2>1, <2>2
<1> QED BY <1>2, <1>3

(* A page acts, or hears a report: nothing changes for the others.             *)
LEMMA OthersKeep ==
  ASSUME Written, uplink' = uplink, NEW p \in Pages, page'[p] = page[p], inbox'[p] = inbox[p],
         Inboxed(p), Seen(p)
  PROVE  Inboxed(p)' /\ Seen(p)'
<1>1. \A t, n : Follows(p, t, n) => Follows(p, t, n)'
  BY DEF Follows, Written
<1>2. Inboxed(p)'
  BY <1>1 DEF Inboxed, Listens
<1>3. Seen(p)'
  BY <1>1 DEF Seen, Listens
<1> QED BY <1>2, <1>3

LEMMA ActKeeps ==
  ASSUME TerminalsInv, NEW p \in Pages, Acts(p), Written, uplink' = uplink
  PROVE  Chunked' /\ \A o \in Pages : Inboxed(o)' /\ Seen(o)'
<1>0. ScreensTyped /\ Chunked /\ \A o \in Pages : Inboxed(o) /\ Seen(o)
  BY DEF TerminalsInv, TerminalsTyped
<1>1. PICK s \in Screens :
        /\ page' = [page EXCEPT ![p] = s]
        /\ s.torn => page[p].torn
        /\ \/ s.term = 0 \/ ~s.on
           \/ page[p].on /\ s.term = page[p].term /\ s.seen = page[p].seen /\ s.state = page[p].state
              /\ inbox'[p] = inbox[p]
        /\ \/ inbox'[p] = <<>>
           \/ inbox' = inbox /\ s.on
        /\ s.state = "away" => inbox'[p] = <<>> \/ page[p].state = "away"
        /\ \A o \in Pages : o # p => inbox'[o] = inbox[o]
  BY <1>0, PageActs DEF Acts
<1>2. page'[p] = s /\ \A o \in Pages : o # p => page'[o] = page[o]
  BY <1>0, <1>1, ScreenChanged
<1>3. Chunked'
  BY <1>0 DEF Chunked, Carried, Written
<1>4. \A t, n : inbox'[p] = inbox[p] => (Follows(p, t, n) => Follows(p, t, n)')
  BY DEF Follows, Written
<1>5. Inboxed(p)'
  <2>1. CASE inbox'[p] = <<>>
    BY <2>1 DEF Inboxed, Rising
  <2>2. CASE inbox' = inbox /\ s.on
    BY <1>0, <1>1, <1>2, <1>4, <2>2 DEF Inboxed, Listens
  <2> QED BY <1>1, <2>1, <2>2
<1>6. Seen(p)'
  BY <1>0, <1>1, <1>2, <1>4 DEF Seen, Listens
<1>7. \A o \in Pages : o # p => Inboxed(o)' /\ Seen(o)'
  BY <1>0, <1>1, <1>2, OthersKeep
<1> QED BY <1>3, <1>5, <1>6, <1>7

(* The chunk that a page hears of its terminal is the one after the last it    *)
(* has shown: the rest of what the terminal wrote follows, in rising order.    *)
LEMMA NextChunk ==
  ASSUME TerminalsTyped, Chunked, NEW p \in Pages, Inboxed(p), NEW t, NEW n, Follows(p, t, n), Ahead(inbox[p], t, n),
         inbox[p] # <<>>, Head(inbox[p]).what = "output", Head(inbox[p]).t = t
  PROVE  Head(inbox[p]).n = n + 1
<1>0. inbox[p] \in Seq(News) /\ uplink \in Seq(News)
  BY DEF TerminalsTyped, ScreensTyped, NewsTyped
<1>1. PICK h \in News : h = Head(inbox[p]) /\ h = inbox[p][1] /\ 1 \in DOMAIN inbox[p] /\ h.n \in Nat
  BY <1>0, NewsTaken
<1>2. h.n > n /\ Follows(p, t, h.n) /\ n \in Nat /\ Wrote(t) \in Nat
  BY <1>1, WroteTyped DEF Ahead, Inboxed, Follows, TerminalsTyped
<1>3. CASE h.n > n + 1
  <2>1. Shows(inbox[p], t, n + 1) \/ Shows(uplink, t, n + 1)
    BY <1>1, <1>2, <1>3 DEF Follows
  <2>2. ASSUME Shows(uplink, t, n + 1) PROVE FALSE
    BY <1>1, <1>2, <1>3, <2>2 DEF Follows, Ahead, Shows
  <2>3. ASSUME Shows(inbox[p], t, n + 1) PROVE FALSE
    <3>1. PICK i \in DOMAIN inbox[p] : inbox[p][i].what = "output" /\ inbox[p][i].t = t /\ inbox[p][i].n = n + 1
      BY <2>3 DEF Shows
    <3>2. i \in Nat /\ i # 0 /\ i # 1
      BY <1>0, <1>1, <1>2, <1>3, <3>1, Elements
    <3>3. h.n < n + 1
      BY <1>1, <3>1, <3>2 DEF Inboxed, Rising
    <3> QED BY <1>1, <1>2, <1>3, <3>3
  <2> QED BY <2>1, <2>2, <2>3
<1> QED BY <1>1, <1>2, <1>3

LEMMA HearKeeps ==
  ASSUME TerminalsInv, NEW p \in Pages, Term!Hears(p), Written, uplink' = uplink
  PROVE  Chunked' /\ \A o \in Pages : Inboxed(o)' /\ Seen(o)'
<1>0. TerminalsTyped /\ ScreensTyped /\ Chunked /\ (\A o \in Pages : Inboxed(o) /\ Seen(o))
      /\ inbox[p] \in Seq(News)
  BY DEF TerminalsInv, TerminalsTyped, ScreensTyped
<1>1. /\ inbox[p] # <<>> /\ inbox'[p] = Tail(inbox[p])
      /\ \A o \in Pages : o # p => inbox'[o] = inbox[o]
  BY <1>0, PageHears
<1>2. PICK h \in News : h = Head(inbox[p]) /\ h = inbox[p][1] /\ 1 \in DOMAIN inbox[p]
  BY <1>0, <1>1, NewsTaken
<1>3. PICK s \in Screens :
        /\ page' = [page EXCEPT ![p] = s]
        /\ s.on = page[p].on /\ (s.state = "away" => page[p].state = "away")
        /\ \/ s = page[p] /\ (h.what = "output" => h.t # page[p].term)
           \/ /\ h.what = "output" /\ h.t = page[p].term
              /\ s.term = page[p].term /\ s.seen = h.n
              /\ s.torn <=> page[p].torn \/ (page[p].seen # 0 /\ h.n # page[p].seen + 1)
           \/ s.seen = 0 /\ s.torn = page[p].torn
           \/ s.term = 0 /\ s.torn = page[p].torn
  BY <1>0, <1>2, PageHears
<1>4. page'[p] = s /\ \A o \in Pages : o # p => page'[o] = page[o]
  BY <1>0, <1>3, ScreenChanged
<1>5. Chunked'
  BY <1>0 DEF Chunked, Carried, Written
<1>6. Listens(p) /\ Listens(p)'
  BY <1>0, <1>1, <1>3, <1>4 DEF Inboxed, Listens
<1>7. /\ \A t, n : Shows(inbox[p], t, n) => Shows(inbox'[p], t, n) \/ (h.what = "output" /\ h.t = t /\ h.n = n)
      /\ \A t, n : Ahead(inbox[p], t, n) => Ahead(inbox'[p], t, n) /\ (h.what = "output" /\ h.t = t => h.n > n)
      /\ Rising(inbox'[p]) /\ (h.what = "output" => Ahead(inbox'[p], h.t, h.n))
  BY <1>0, <1>1, <1>2, ChunkTaken DEF Inboxed
<1>8. /\ \A i \in DOMAIN inbox'[p] : i + 1 \in DOMAIN inbox[p] /\ inbox'[p][i] = inbox[p][i + 1]
                                     /\ inbox'[p][i].n \in Nat
      /\ h.n \in Nat
  BY <1>0, <1>1, <1>2, NewsTaken, NewsAt
<1>9. ASSUME NEW t, NEW n, Follows(p, t, n), n \in Nat, h.what = "output" /\ h.t = t => h.n <= n
      PROVE  Follows(p, t, n)'
  <2>1. Wrote(t) \in Nat /\ Wrote(t)' = Wrote(t)
    BY <1>0, WroteTyped DEF TerminalsTyped, Written
  <2> QED BY <1>7, <1>8, <1>9, <2>1 DEF Follows
<1>10. h.what = "output" => Follows(p, h.t, h.n) /\ Follows(p, h.t, h.n)'
  BY <1>0, <1>2, <1>8, <1>9 DEF Inboxed
<1>11. Inboxed(p)'
  <2>1. \A i \in DOMAIN inbox'[p] : inbox'[p][i].what = "output" =>
          /\ Follows(p, inbox'[p][i].t, inbox'[p][i].n)
          /\ h.what = "output" /\ h.t = inbox'[p][i].t => h.n <= inbox'[p][i].n
    BY <1>0, <1>7, <1>8 DEF Inboxed, Ahead
  <2> QED BY <1>6, <1>7, <1>8, <1>9, <2>1 DEF Inboxed
<1>12. Seen(p)'
  <2>0. page[p].seen \in Nat /\ ~page[p].torn /\ page[p].term \in Nat
    BY <1>0 DEF ScreensTyped, Screens, Seen
  <2>1. CASE s = page[p] /\ (h.what = "output" => h.t # page[p].term)
    <3>1. s.term # 0 /\ s.seen # 0 => Ahead(inbox'[p], s.term, s.seen) /\ Follows(p, s.term, s.seen)'
      BY <1>0, <1>6, <1>7, <1>9, <2>0, <2>1 DEF Seen
    <3> QED BY <1>4, <2>0, <2>1, <3>1 DEF Seen
  <2>2. CASE /\ h.what = "output" /\ h.t = page[p].term
             /\ s.term = page[p].term /\ s.seen = h.n
             /\ s.torn <=> page[p].torn \/ (page[p].seen # 0 /\ h.n # page[p].seen + 1)
    <3>1. page[p].term # 0
      <4>1. Wrote(0) = 0
        <5>1. 0 \notin DOMAIN ptys
          BY <1>0, Elements DEF TerminalsTyped, ShellsTyped
        <5> QED BY <5>1 DEF Wrote
      <4> QED BY <1>10, <2>2, <4>1 DEF Follows
    <3>2. page[p].seen # 0 => h.n = page[p].seen + 1
      BY <1>0, <1>1, <1>2, <1>6, <2>2, <3>1, NextChunk DEF Seen
    <3>3. Ahead(inbox'[p], h.t, h.n) /\ Follows(p, h.t, h.n)'
      BY <1>7, <1>10, <2>2
    <3> QED BY <1>4, <2>0, <2>2, <3>2, <3>3 DEF Seen
  <2>3. CASE (s.seen = 0 \/ s.term = 0) /\ s.torn = page[p].torn
    BY <1>4, <2>0, <2>3 DEF Seen
  <2> QED BY <1>3, <2>1, <2>2, <2>3
<1>13. \A o \in Pages : o # p => Inboxed(o)' /\ Seen(o)'
  BY <1>0, <1>1, <1>4, OthersKeep
<1> QED BY <1>5, <1>11, <1>12, <1>13

LEMMA TerminalsNext ==
  ASSUME TerminalsInv, [Term!Next]_(Term!vars) PROVE TerminalsInv'
<1>1. TerminalsTyped /\ TerminalsTyped'
  BY TerminalsTypedNext DEF TerminalsInv
<1>2. CASE Written /\ UNCHANGED <<page, inbox, uplink>>
  <2>1. Chunked'
    BY <1>2 DEF TerminalsInv, Chunked, Carried, Written
  <2>2. \A p \in Pages : Inboxed(p)' /\ Seen(p)'
    BY <1>2, OthersKeep DEF TerminalsInv
  <2> QED BY <1>1, <2>1, <2>2 DEF TerminalsInv
<1>3. CASE \E e \in News : Puts(e)
  BY <1>1, <1>3, PutKeeps DEF TerminalsInv
<1>4. CASE Brings
  BY <1>1, <1>4, BringsKeeps DEF TerminalsInv
<1>5. CASE \E m \in News : Recalls(m)
  BY <1>1, <1>5, RecallKeeps DEF TerminalsInv
<1>6. CASE \E p \in Pages : (Term!Hears(p) \/ Acts(p)) /\ Written /\ UNCHANGED uplink
  BY <1>1, <1>6, HearKeeps, ActKeeps DEF TerminalsInv
<1> QED BY <1>1, <1>2, <1>3, <1>4, <1>5, <1>6, ReportsMove

(* What a page shows of its terminal has no gap and no line twice, for every   *)
(* number of terminals, pages and lost sockets: broadcasts to all pages,       *)
(* (runner_consumer.py, terminal_output) with starts that come late            *)
(* (handle_terminal_started) never mix two terminals on one page.              *)
THEOREM PagesShowInOrder == Term!Spec => []Term!ShowsInOrder
<1>1. Term!Init => TerminalsInv
  BY TerminalsBegin
<1>2. TerminalsInv /\ [Term!Next]_(Term!vars) => TerminalsInv'
  BY TerminalsNext
<1>3. TerminalsInv => Term!ShowsInOrder
  BY DEF TerminalsInv, Seen, Term!ShowsInOrder
<1> QED BY <1>1, <1>2, <1>3, PTL DEF Term!Spec
-----------------------------------------------------------------------------
(* Keys, where a write is not a thread of its own: what a shell has got of a   *)
(* page is in order and below what is still requested, and that is in order    *)
(* and not above what the page has typed.                                      *)
Got(t) == IF t \in DOMAIN ptys THEN ptys[t].got ELSE <<>>
Sorted(q) == \A i, k \in DOMAIN q : i < k /\ q[i][1] = q[k][1] => q[i][2] < q[k][2]
Lined(q) ==
  \A i, k \in DOMAIN q :
    i < k /\ q[i].what = "input" /\ q[k].what = "input" /\ q[i].key[1] = q[k].key[1] => q[i].key[2] < q[k].key[2]
Before(k, q) == \A i \in DOMAIN q : q[i].what = "input" /\ q[i].key[1] = k[1] => k[2] < q[i].key[2]
Pressed(k) == k[2] <= page[k[1]].typed

Backed == \A i \in DOMAIN requests : requests[i].what = "input" => Pressed(requests[i].key)
GotInOrder(t) ==
  Sorted(Got(t)) /\ \A g \in DOMAIN Got(t) : Pressed(Got(t)[g]) /\ Before(Got(t)[g], requests)
Ordered == writes = {} /\ Lined(requests) /\ Backed /\ \A t : GotInOrder(t)
KeysInv == TerminalsTyped /\ (~Threaded => Ordered)

LEMMA KeysBegin == Term!Init => KeysInv
<1> SUFFICES ASSUME Term!Init PROVE KeysInv
  OBVIOUS
<1>1. TerminalsTyped
  BY TerminalsBegin DEF TerminalsInv
<1>2. writes = {} /\ requests = <<>> /\ ptys = <<>>
  BY DEF Term!Init
<1>3. \A t : Got(t) = <<>>
  BY <1>2 DEF Got
<1>4. Ordered
  BY <1>2, <1>3 DEF Ordered, Backed, GotInOrder, Lined, Sorted
<1> QED BY <1>1, <1>4 DEF KeysInv

(* What one step does to the keys.                                             *)
GotSame == \A t : Got(t)' = Got(t)
TypedSame == \A p \in Pages : page'[p].typed = page[p].typed

LEMMA GotKept ==
  ASSUME ShellsTyped, NEW t, NEW e, t \in DOMAIN ptys => e \in Shells /\ e.got = ptys[t].got,
         ptys' = [ptys EXCEPT ![t] = e]
  PROVE  GotSame
<1>1. ptys \in Seq(Shells)
  BY DEF ShellsTyped
<1>2. /\ DOMAIN ptys' = DOMAIN ptys
      /\ t \in DOMAIN ptys => ptys'[t] = e
      /\ \A u \in DOMAIN ptys : u # t => ptys'[u] = ptys[u]
  BY <1>1, ShellReplaced
<1> QED BY <1>2 DEF GotSame, Got

(* A request that the runner takes up, and writes if it is a key.              *)
Delivers ==
  /\ requests # <<>> /\ requests' = Tail(requests) /\ TypedSame
  /\ \/ GotSame
     \/ Head(requests).what = "input" /\ \E t \in DOMAIN ptys :
          Got(t)' = Append(Got(t), Head(requests).key) /\ \A u : u # t => Got(u)' = Got(u)
Presses ==
  \E p \in Pages : \E e \in Wishes :
    /\ e.what = "input" /\ e.key = <<p, page[p].typed + 1>> /\ requests' = Append(requests, e) /\ GotSame
    /\ page'[p].typed = page[p].typed + 1 /\ \A o \in Pages : o # p => page'[o].typed = page[o].typed
Wants ==
  /\ TypedSame /\ GotSame
  /\ requests' = requests \/ \E e \in Wishes : e.what # "input" /\ requests' = Append(requests, e)

LEMMA GotMoves ==
  ASSUME TerminalsTyped, [Term!Next]_(Term!vars), ~Threaded, writes = {}
  PROVE  writes' = {} /\ (GotSame \/ Term!Inputs)
<1> USE DEF TerminalsTyped
<1>1. ASSUME UNCHANGED <<ptys, writes>> PROVE writes' = {} /\ GotSame
  BY <1>1 DEF GotSame, Got
<1>2. CASE Term!Started
  <2> DEFINE e == [state |-> "open", reader |-> "reading", sent |-> 0, got |-> <<>>]
  <2>1. e \in Shells /\ e.got = <<>>
    BY DEF Shells
  <2>2. ptys' = Append(ptys, e) /\ ptys \in Seq(Shells) /\ writes' = writes
    BY <1>2 DEF Term!Started, ShellsTyped
  <2> HIDE DEF e
  <2>3. /\ \A t \in DOMAIN ptys' : \/ t \in DOMAIN ptys /\ ptys'[t] = ptys[t]
                                   \/ t = Len(ptys) + 1 /\ ptys'[t] = e
        /\ \A t \in DOMAIN ptys : t \in DOMAIN ptys'
        /\ Len(ptys) + 1 \notin DOMAIN ptys
    BY <2>1, <2>2, Appended, AppendProperties, Elements
  <2> QED BY <2>1, <2>2, <2>3 DEF GotSame, Got
<1>3. CASE Term!Inputs
  BY <1>3 DEF Term!Inputs, Term!InThread
<1>4. CASE Term!Writes
  BY <1>4 DEF Term!Writes
<1>5. ASSUME NEW t \in DOMAIN ptys, Term!Reads(t) \/ Term!Exits(t) \/ Term!ReaderEnds(t) \/ Term!ReaderReports(t)
      PROVE  writes' = {} /\ GotSame
  <2>0. ptys[t] \in Shells
    BY ShellTyped
  <2>1. PICK e \in Shells : e.got = ptys[t].got /\ ptys' = [ptys EXCEPT ![t] = e]
    <3>1. CASE Term!Exits(t)
      <4>1. ptys' = [ptys EXCEPT ![t] = [ptys[t] EXCEPT !.state = "exited"]]
        BY <3>1 DEF Term!Exits
      <4> QED BY <2>0, <4>1 DEF Shells
    <3>2. CASE Term!ReaderEnds(t)
      <4>1. ptys' = [ptys EXCEPT ![t] = [ptys[t] EXCEPT !.state = "closed", !.reader = "ending"]]
        BY <3>2 DEF Term!ReaderEnds
      <4> QED BY <2>0, <4>1 DEF Shells
    <3>3. CASE Term!ReaderReports(t)
      <4>1. ptys' = [ptys EXCEPT ![t] = [ptys[t] EXCEPT !.reader = "done"]]
        BY <3>3 DEF Term!ReaderReports
      <4> QED BY <2>0, <4>1 DEF Shells
    <3>4. CASE Term!Reads(t)
      <4>1. ptys' = [ptys EXCEPT ![t] = [ptys[t] EXCEPT !.sent = ptys[t].sent + 1]]
        BY <3>4 DEF Term!Reads
      <4>2. [ptys[t] EXCEPT !.sent = ptys[t].sent + 1] \in Shells
            /\ [ptys[t] EXCEPT !.sent = ptys[t].sent + 1].got = ptys[t].got
        BY <2>0 DEF Shells
      <4> QED BY <4>1, <4>2
    <3> QED BY <1>5, <3>1, <3>2, <3>3, <3>4
  <2>2. writes' = writes
    BY <1>5 DEF Term!Exits, Term!ReaderEnds, Term!ReaderReports, Term!Reads
  <2> QED BY <2>1, <2>2, GotKept
<1>6. CASE Term!Closing
  <2> DEFINE t == Head(requests).t
             e == [ptys[t] EXCEPT !.reader = Term!CancelledReader(t), !.state = "closed"]
  <2>1. ptys' = [ptys EXCEPT ![t] = e] /\ writes' = writes
    BY <1>6 DEF Term!Closing, Term!ClosedPty
  <2>2. t \in DOMAIN ptys => e \in Shells /\ e.got = ptys[t].got
    BY ShellTyped DEF Shells, Term!CancelledReader
  <2> HIDE DEF t, e
  <2> QED BY <2>1, <2>2, GotKept
<1> QED BY <1>1, <1>2, <1>3, <1>4, <1>5, <1>6
        DEF Term!Next, Term!Obeys, Term!TerminalNext, Term!vars, Term!Starts, Term!Handled, Term!Stored,
            Term!Connects, Term!Types, Term!Closes, Term!Drops, Term!Reconnects, Term!Hears

LEMMA KeysMove ==
  ASSUME TerminalsTyped, [Term!Next]_(Term!vars), ~Threaded, writes = {}
  PROVE  writes' = {} /\ (Delivers \/ Presses \/ Wants)
<1> USE DEF TerminalsTyped
<1>0. writes' = {} /\ (GotSame \/ Term!Inputs)
  BY GotMoves
<1>1. ASSUME UNCHANGED page PROVE TypedSame
  BY <1>1 DEF TypedSame
<1>2. ASSUME Term!Starts \/ Term!Closing PROVE Delivers
  <2>1. CASE GotSame
    BY <1>1, <1>2, <2>1 DEF Term!Starts, Term!Closing, Delivers
  <2>2. CASE Term!Inputs
    BY <1>2, <2>2 DEF Term!Starts, Term!Closing, Term!Inputs
  <2> QED BY <1>0, <2>1, <2>2
<1>3. ASSUME Term!Inputs PROVE Delivers
  <2> DEFINE t == Head(requests).t
             e == [ptys[t] EXCEPT !.got = Append(ptys[t].got, Head(requests).key)]
  <2>1. TypedSame /\ requests # <<>> /\ requests' = Tail(requests) /\ Head(requests).what = "input"
    BY <1>1, <1>3 DEF Term!Inputs
  <2>2. ptys' = ptys \/ (ptys' = [ptys EXCEPT ![t] = e])
    BY <1>3 DEF Term!Inputs, Term!InThread
  <2>3. ASSUME ptys' = ptys \/ t \notin DOMAIN ptys PROVE Delivers
    <3>1. ptys \in Seq(Shells)
      BY DEF ShellsTyped
    <3>2. ptys' = ptys
      BY <2>2, <2>3, <3>1, Elements
    <3>3. GotSame
      BY <3>2 DEF GotSame, Got
    <3> QED BY <2>1, <3>3 DEF Delivers
  <2>4. ASSUME ptys' = [ptys EXCEPT ![t] = e], t \in DOMAIN ptys PROVE Delivers
    <3>1. ptys \in Seq(Shells) /\ ptys[t] \in Shells /\ Head(requests).key \in Keys
      BY <2>1, <2>4, ShellTyped, WishTaken DEF ShellsTyped
    <3>2. Append(ptys[t].got, Head(requests).key) \in Seq(Keys)
      BY <3>1, AppendProperties DEF Shells
    <3>3. e \in Shells /\ e.got = Append(ptys[t].got, Head(requests).key)
      BY <3>1, <3>2 DEF Shells
    <3> HIDE DEF e
    <3>4. /\ DOMAIN ptys' = DOMAIN ptys /\ ptys'[t] = e
          /\ \A u \in DOMAIN ptys : u # t => ptys'[u] = ptys[u]
      BY <2>4, <3>1, <3>3, ShellReplaced
    <3>5. PICK v \in DOMAIN ptys : v = t
      BY <2>4
    <3>6. Got(v)' = Append(Got(v), Head(requests).key) /\ \A u : u # v => Got(u)' = Got(u)
      BY <3>3, <3>4, <3>5 DEF Got
    <3> QED BY <2>1, <3>6 DEF Delivers
  <2> QED BY <2>2, <2>3, <2>4
<1>4. ASSUME GotSame, UNCHANGED <<page, requests>> PROVE Wants
  BY <1>1, <1>4 DEF Wants
<1>5. ASSUME GotSame, \E p \in Pages : Term!Types(p) PROVE Presses
  <2>1. PICK p \in Pages : Term!Types(p)
    BY <1>5
  <2>2. page[p].term \in Nat /\ page[p].typed + 1 \in Nat
    BY DEF ScreensTyped, Screens
  <2> DEFINE e == [what |-> "input", t |-> page[p].term, key |-> <<p, page[p].typed + 1>>]
  <2>3. e \in Wishes /\ e.what = "input" /\ e.key = <<p, page[p].typed + 1>>
    BY <2>2 DEF Wishes, Keys
  <2>4. requests' = Append(requests, e)
    BY <2>1 DEF Term!Types, Term!Request
  <2>5. page'[p].typed = page[p].typed + 1 /\ \A o \in Pages : o # p => page'[o].typed = page[o].typed
    <3>1. page' = [page EXCEPT ![p] = [page[p] EXCEPT !.typed = page[p].typed + 1]]
      BY <2>1 DEF Term!Types
    <3> QED BY <3>1 DEF ScreensTyped, Screens
  <2> HIDE DEF e
  <2>6. PICK k \in Wishes : k = e
    BY <2>3
  <2> QED BY <1>5, <2>3, <2>4, <2>5, <2>6 DEF Presses
<1>6. ASSUME NEW p \in Pages, Term!Connects(p) \/ Term!Closes(p) \/ Term!Drops(p) \/ Term!Reconnects(p), GotSame
      PROVE  Presses \/ Wants
  <2>1. PICK s \in Screens : page' = [page EXCEPT ![p] = s] /\ (s.typed = page[p].typed \/ Term!Types(p))
    BY <1>6, PageActs
  <2>2. CASE Term!Types(p)
    BY <1>5, <1>6, <2>2
  <2>3. CASE s.typed = page[p].typed
    <3>1. TypedSame
      BY <2>1, <2>3, ScreenChanged DEF TypedSame
    <3>2. ASSUME NEW what \in {"start", "close"}, NEW t \in Nat, Term!Request(what, t, <<>>)
          PROVE  \E e \in Wishes : e.what # "input" /\ requests' = Append(requests, e)
      <4> DEFINE e == [what |-> what, t |-> t, key |-> <<>>]
      <4>1. e \in Wishes /\ e.what = what /\ requests' = Append(requests, e)
        BY <3>2 DEF Wishes, Term!Request
      <4> HIDE DEF e
      <4> QED BY <4>1
    <3>3. page[p].term \in Nat
      BY DEF ScreensTyped, Screens
    <3>4. requests' = requests \/ \E e \in Wishes : e.what # "input" /\ requests' = Append(requests, e)
      BY <1>6, <3>2, <3>3 DEF Term!Connects, Term!Closes, Term!Drops, Term!Reconnects
    <3> QED BY <1>6, <3>1, <3>4 DEF Wants
  <2> QED BY <2>1, <2>2, <2>3
<1>7. ASSUME NEW p \in Pages, Term!Hears(p), GotSame PROVE Wants
  <2>1. PICK s \in Screens : page' = [page EXCEPT ![p] = s] /\ s.typed = page[p].typed
    BY <1>7, PageHears
  <2>2. TypedSame
    BY <2>1, ScreenChanged DEF TypedSame
  <2> QED BY <1>7, <2>2 DEF Wants, Term!Hears
<1> QED BY <1>0, <1>2, <1>3, <1>4, <1>5, <1>6, <1>7
        DEF Term!Next, Term!Obeys, Term!TerminalNext, Term!vars, Term!Started, Term!Writes, Term!Handled,
            Term!Stored, Term!Reads, Term!Exits, Term!ReaderEnds, Term!ReaderReports

LEMMA RequestAt ==
  ASSUME WishesTyped, NEW i \in DOMAIN requests, requests[i].what = "input"
  PROVE  requests[i].key \in Keys /\ requests[i].key[1] \in Pages /\ requests[i].key[2] \in Nat
BY DEF WishesTyped, Keys

LEMMA GotAt ==
  ASSUME ShellsTyped, NEW t
  PROVE  /\ Got(t) \in Seq(Keys)
         /\ \A g \in DOMAIN Got(t) : Got(t)[g] \in Keys /\ Got(t)[g][1] \in Pages /\ Got(t)[g][2] \in Nat
<1>1. Got(t) \in Seq(Keys)
  BY ShellTyped DEF Got, Shells
<1>2. \A g \in DOMAIN Got(t) : Got(t)[g] \in Keys
  BY <1>1, Elements
<1> QED BY <1>1, <1>2 DEF Keys

(* What holds of a key in a queue when the queue loses its first request, or   *)
(* has one more.                                                               *)
LEMMA LinedTaken ==
  ASSUME WishesTyped, requests # <<>>, Lined(requests)
  PROVE  /\ Lined(Tail(requests))
         /\ \A k : Before(k, requests) => Before(k, Tail(requests))
         /\ Head(requests).what = "input" => Before(Head(requests).key, Tail(requests))
<1> DEFINE r == Tail(requests)
<1>1. /\ Head(requests) = requests[1] /\ 1 \in DOMAIN requests
      /\ \A i \in DOMAIN r : i \in Nat /\ i # 0 /\ i + 1 \in DOMAIN requests /\ r[i] = requests[i + 1]
  BY WishTaken
<1> HIDE DEF r
<1>2. \A k : Before(k, requests) => Before(k, r)
  BY <1>1 DEF Before
<1>3. Lined(r)
  <2> SUFFICES ASSUME NEW i \in DOMAIN r, NEW k \in DOMAIN r, i < k, r[i].what = "input",
                      r[k].what = "input", r[i].key[1] = r[k].key[1]
               PROVE  r[i].key[2] < r[k].key[2]
    BY DEF Lined
  <2>1. i + 1 \in DOMAIN requests /\ k + 1 \in DOMAIN requests /\ i + 1 < k + 1
        /\ r[i] = requests[i + 1] /\ r[k] = requests[k + 1]
    BY <1>1
  <2> QED BY <2>1 DEF Lined
<1>4. ASSUME requests[1].what = "input" PROVE Before(requests[1].key, r)
  <2> SUFFICES ASSUME NEW i \in DOMAIN r, r[i].what = "input", r[i].key[1] = requests[1].key[1]
               PROVE  requests[1].key[2] < r[i].key[2]
    BY DEF Before
  <2>1. i + 1 \in DOMAIN requests /\ 1 < i + 1 /\ r[i] = requests[i + 1]
    BY <1>1
  <2> QED BY <1>1, <1>4, <2>1 DEF Lined
<1> QED BY <1>1, <1>2, <1>3, <1>4 DEF r

LEMMA LinedAdded ==
  ASSUME WishesTyped, NEW e \in Wishes, Lined(requests),
         e.what = "input" =>
           \A i \in DOMAIN requests :
             requests[i].what = "input" /\ requests[i].key[1] = e.key[1] => requests[i].key[2] < e.key[2]
  PROVE  /\ Lined(Append(requests, e))
         /\ \A k : Before(k, requests) /\ (e.what = "input" /\ e.key[1] = k[1] => k[2] < e.key[2])
                   => Before(k, Append(requests, e))
         /\ \A i \in DOMAIN Append(requests, e) :
              (i \in DOMAIN requests /\ Append(requests, e)[i] = requests[i]) \/ Append(requests, e)[i] = e
<1> DEFINE r == Append(requests, e)
<1>0. requests \in Seq(Wishes)
  BY DEF WishesTyped
<1>1. /\ \A i \in DOMAIN r : (i \in DOMAIN requests /\ r[i] = requests[i]) \/ (i = Len(requests) + 1 /\ r[i] = e)
      /\ Len(requests) \in Nat /\ DOMAIN requests = 1..Len(requests)
      /\ Len(requests) + 1 \in DOMAIN r /\ r[Len(requests) + 1] = e
      /\ DOMAIN r = 1..Len(requests) + 1
  BY <1>0, Appended, AppendProperties, Elements
<1> HIDE DEF r
<1>2. \A k : Before(k, requests) /\ (e.what = "input" /\ e.key[1] = k[1] => k[2] < e.key[2]) => Before(k, r)
  BY <1>1 DEF Before
<1>3. Lined(r)
  <2> SUFFICES ASSUME NEW i \in DOMAIN r, NEW k \in DOMAIN r, i < k, r[i].what = "input",
                      r[k].what = "input", r[i].key[1] = r[k].key[1]
               PROVE  r[i].key[2] < r[k].key[2]
    BY DEF Lined
  <2>1. i \in DOMAIN requests /\ r[i] = requests[i]
    BY <1>1
  <2>2. CASE k \in DOMAIN requests /\ r[k] = requests[k]
    BY <2>1, <2>2 DEF Lined
  <2>3. CASE r[k] = e
    BY <2>1, <2>3
  <2> QED BY <1>1, <2>2, <2>3
<1> QED BY <1>1, <1>2, <1>3 DEF r

LEMMA KeysTaken ==
  ASSUME TerminalsTyped, Ordered, Delivers, writes' = {}
  PROVE  Ordered'
<1>0. WishesTyped /\ ShellsTyped /\ TypedSame /\ requests # <<>> /\ requests' = Tail(requests)
  BY DEF TerminalsTyped, Delivers
<1>1. /\ Lined(requests')
      /\ \A k : Before(k, requests) => Before(k, requests')
      /\ Head(requests).what = "input" => Before(Head(requests).key, requests')
  BY <1>0, LinedTaken DEF Ordered
<1>2. /\ Head(requests) = requests[1] /\ 1 \in DOMAIN requests
      /\ \A i \in DOMAIN requests' : i + 1 \in DOMAIN requests /\ requests'[i] = requests[i + 1]
  BY <1>0, WishTaken
<1>3. ASSUME NEW k, k[1] \in Pages, Pressed(k) PROVE Pressed(k)'
  BY <1>0, <1>3 DEF Pressed, TypedSame
<1>4. \A i \in DOMAIN requests : requests[i].what = "input" => Pressed(requests[i].key) /\ requests[i].key[1] \in Pages
  BY <1>0, RequestAt DEF Ordered, Backed
<1>5. Backed'
  BY <1>2, <1>3, <1>4 DEF Backed
<1>6. ASSUME NEW t, Got(t)' = Got(t)
      PROVE  GotInOrder(t)'
  BY <1>0, <1>1, <1>3, <1>6, GotAt DEF Ordered, GotInOrder
<1>7. ASSUME Head(requests).what = "input", NEW t, Got(t)' = Append(Got(t), Head(requests).key)
      PROVE  GotInOrder(t)'
  <2>1. PICK k \in Keys : k = Head(requests).key
    BY <1>0, <1>7, WishTaken
  <2>2. PICK q \in Seq(Keys) : q = Got(t)
    BY <1>0, GotAt
  <2>3. PICK r \in Seq(Keys) : r = Append(q, k)
    BY Appended
  <2>4. /\ \A i \in DOMAIN r : (i \in DOMAIN q /\ r[i] = q[i]) \/ (i = Len(q) + 1 /\ r[i] = k)
        /\ Len(q) \in Nat /\ DOMAIN q = 1..Len(q) /\ DOMAIN r = 1..Len(q) + 1
    BY <2>3, Appended, AppendProperties, Elements
  <2>5. /\ Sorted(q)
        /\ \A g \in DOMAIN q : /\ Pressed(q[g]) /\ Before(q[g], requests) /\ q[g][1] \in Pages
                               /\ q[g][1] = k[1] => q[g][2] < k[2]
    BY <1>0, <1>2, <1>7, <2>1, <2>2, GotAt DEF Ordered, GotInOrder, Before
  <2>6. Sorted(r)
    <3> SUFFICES ASSUME NEW i \in DOMAIN r, NEW j \in DOMAIN r, i < j, r[i][1] = r[j][1]
                 PROVE  r[i][2] < r[j][2]
      BY DEF Sorted
    <3>1. i \in DOMAIN q /\ r[i] = q[i]
      BY <2>4
    <3> QED BY <2>4, <2>5, <3>1 DEF Sorted
  <2>7. Pressed(k) /\ k[1] \in Pages /\ Before(k, requests')
    BY <1>1, <1>2, <1>4, <1>7, <2>1
  <2>8. \A g \in DOMAIN r : Pressed(r[g])' /\ Before(r[g], requests')
    BY <1>1, <1>3, <2>4, <2>5, <2>7
  <2>9. Got(t)' = r
    BY <1>7, <2>1, <2>2, <2>3
  <2> QED BY <2>6, <2>8, <2>9 DEF GotInOrder
<1>8. \A t : Got(t)' = Got(t) \/ (Head(requests).what = "input" /\ Got(t)' = Append(Got(t), Head(requests).key))
  BY DEF Delivers, GotSame
<1>9. \A t : GotInOrder(t)'
  BY <1>6, <1>7, <1>8
<1> QED BY <1>1, <1>5, <1>9 DEF Ordered

(* A key or another request is asked for.                                      *)
LEMMA KeysAdded ==
  ASSUME TerminalsTyped, Ordered, writes' = {}, GotSame, NEW e \in Wishes, requests' = Append(requests, e),
         \/ e.what # "input" /\ TypedSame
         \/ \E p \in Pages :
              /\ e.what = "input" /\ e.key = <<p, page[p].typed + 1>>
              /\ page'[p].typed = page[p].typed + 1
              /\ \A o \in Pages : o # p => page'[o].typed = page[o].typed
  PROVE  Ordered'
<1>0. WishesTyped /\ ShellsTyped /\ \A o \in Pages : page[o].typed \in Nat
  BY DEF TerminalsTyped, ScreensTyped, Screens
<1>1. ASSUME NEW k, k[1] \in Pages, k[2] \in Nat, Pressed(k)
      PROVE  Pressed(k)' /\ (e.what = "input" /\ e.key[1] = k[1] => k[2] < e.key[2])
  BY <1>0, <1>1 DEF Pressed, TypedSame
<1>2. e.what = "input" => Pressed(e.key)'
  BY <1>0 DEF Pressed
<1>3. \A i \in DOMAIN requests : requests[i].what = "input" =>
        requests[i].key[1] \in Pages /\ requests[i].key[2] \in Nat /\ Pressed(requests[i].key)
  BY <1>0, RequestAt DEF Ordered, Backed
<1>4. e.what = "input" =>
           \A i \in DOMAIN requests :
             requests[i].what = "input" /\ requests[i].key[1] = e.key[1] => requests[i].key[2] < e.key[2]
  BY <1>1, <1>3
<1>5. /\ Lined(requests')
      /\ \A k : Before(k, requests) /\ (e.what = "input" /\ e.key[1] = k[1] => k[2] < e.key[2])
                   => Before(k, requests')
      /\ \A i \in DOMAIN requests' : (i \in DOMAIN requests /\ requests'[i] = requests[i]) \/ requests'[i] = e
  BY <1>0, <1>4, LinedAdded DEF Ordered
<1>6. Backed'
  BY <1>1, <1>2, <1>3, <1>5 DEF Backed
<1>7. ASSUME NEW t
      PROVE  GotInOrder(t)'
  <2>1. PICK q \in Seq(Keys) : q = Got(t)
    BY <1>0, GotAt
  <2>2. Got(t)' = q
    BY <2>1 DEF GotSame
  <2>3. Sorted(q) /\ \A g \in DOMAIN q : Pressed(q[g]) /\ Before(q[g], requests) /\ q[g][1] \in Pages /\ q[g][2] \in Nat
    BY <1>0, <2>1, GotAt DEF Ordered, GotInOrder
  <2>4. \A g \in DOMAIN q : Pressed(q[g])' /\ Before(q[g], requests')
    BY <1>1, <1>5, <2>3
  <2> QED BY <2>2, <2>3, <2>4 DEF GotInOrder
<1> QED BY <1>5, <1>6, <1>7 DEF Ordered

LEMMA KeysNext ==
  ASSUME KeysInv, [Term!Next]_(Term!vars) PROVE KeysInv'
<1>1. TerminalsTyped /\ TerminalsTyped'
  BY TerminalsTypedNext DEF KeysInv
<1>2. ASSUME ~Threaded PROVE Ordered'
  <2>1. Ordered /\ writes' = {} /\ (Delivers \/ Presses \/ Wants)
    BY <1>1, <1>2, KeysMove DEF KeysInv, Ordered
  <2>2. CASE Delivers
    BY <1>1, <2>1, <2>2, KeysTaken
  <2>3. CASE Presses
    BY <1>1, <2>1, <2>3, KeysAdded DEF Presses
  <2>4. CASE Wants
    <3>1. CASE requests' = requests
      <4>0. WishesTyped /\ ShellsTyped /\ TypedSame /\ GotSame
        BY <1>1, <2>4 DEF TerminalsTyped, Wants
      <4>1. ASSUME NEW k, k[1] \in Pages, Pressed(k) PROVE Pressed(k)'
        BY <4>0, <4>1 DEF Pressed, TypedSame
      <4>2. Backed'
        BY <2>1, <3>1, <4>0, <4>1, RequestAt DEF Ordered, Backed
      <4>3. ASSUME NEW t
            PROVE  GotInOrder(t)'
        <5>1. PICK q \in Seq(Keys) : q = Got(t)
          BY <4>0, GotAt
        <5>2. Got(t)' = q
          BY <4>0, <5>1 DEF GotSame
        <5> QED BY <2>1, <3>1, <4>0, <4>1, <5>1, <5>2, GotAt DEF Ordered, GotInOrder
      <4> QED BY <2>1, <3>1, <4>2, <4>3 DEF Ordered
    <3>2. CASE \E e \in Wishes : e.what # "input" /\ requests' = Append(requests, e)
      BY <1>1, <2>1, <2>4, <3>2, KeysAdded DEF Wants
    <3> QED BY <2>4, <3>1, <3>2 DEF Wants
  <2> QED BY <2>1, <2>2, <2>3, <2>4
<1> QED BY <1>1, <1>2 DEF KeysInv

(* Keys get to a shell of a QEMU workspace in the order in which they were     *)
(* typed (terminal_input awaits write_terminal, service.py), for every number  *)
(* of pages, keys and terminals, lost sockets and reconnects included.         *)
THEOREM KeysArriveInOrder == Term!Spec => []Term!KeysInOrder
<1>1. Term!Init => KeysInv
  BY KeysBegin
<1>2. KeysInv /\ [Term!Next]_(Term!vars) => KeysInv'
  BY KeysNext
<1>3. KeysInv => Term!KeysInOrder
  <2> SUFFICES ASSUME KeysInv, ~Threaded, NEW t \in DOMAIN ptys,
                      NEW i \in DOMAIN ptys[t].got, NEW j \in DOMAIN ptys[t].got,
                      i < j, ptys[t].got[i][1] = ptys[t].got[j][1]
               PROVE  ptys[t].got[i][2] < ptys[t].got[j][2]
    BY DEF Term!KeysInOrder
  <2> QED BY DEF KeysInv, Ordered, GotInOrder, Sorted, Got
<1> QED BY <1>1, <1>2, <1>3, PTL DEF Term!Spec
-----------------------------------------------------------------------------
(* Images. A job becomes deleted with its image, and whatever brings the image *)
(* back sets the job first. Reports name tasks, and only a capture's task      *)
(* names a capture.                                                            *)
JobRows == [status : Img!JobStatuses, tasked : BOOLEAN, del : Nat, built : BOOLEAN,
            updated : Img!Ages, requested : Img!Ages]
ImageRows == [status : Img!ImageStatuses, ref : BOOLEAN, deleting : Nat, created : Img!Ages]
ImageTasks == [kind : {"build", "capture", "delete"}, item : Img!Items, open : BOOLEAN]
Outcomes == [event : {"progress", "done", "failed"}, task : Nat]

JobsTyped == job \in [Jobs -> JobRows]
ImagesTyped == image \in [Img!Items -> ImageRows]
ImageTasksTyped ==
  imageTask \in Seq(ImageTasks) /\ \A t \in DOMAIN imageTask : imageTask[t].kind = "capture" => imageTask[t].item \in Captures
OutcomesTyped ==
  /\ reports \in [Jobs -> Seq(Outcomes)]
  /\ \A j \in Jobs : \A i \in DOMAIN reports[j] : reports[j][i].task \in DOMAIN imageTask
TodoTyped == owed \in [Jobs -> SUBSET Img!Items]
ImagesInv ==
  JobsTyped /\ ImagesTyped /\ ImageTasksTyped /\ OutcomesTyped /\ TodoTyped /\ Img!DeletedTogether

LEMMA ImagesBegin == Img!ImagesAssumption /\ Img!Init => ImagesInv
<1> SUFFICES ASSUME Img!ImagesAssumption, Img!Init PROVE ImagesInv
  OBVIOUS
<1>1. PICK at \in [Img!Items -> Img!Situations] :
        job = [j \in Jobs |-> at[j].job] /\ image = [i \in Img!Items |-> at[i].image]
  BY DEF Img!Init
<1>2. ASSUME NEW s \in Img!Situations
      PROVE  s.job \in JobRows /\ s.image \in ImageRows /\ s.job.status # "deleted"
  <2>1. /\ Img!NoJob \in JobRows /\ Img!NoJob.status = "none"
        /\ Img!BuiltJob \in JobRows /\ Img!BuiltJob.status = "active"
    BY DEF Img!NoJob, Img!BuiltJob, JobRows, Img!JobStatuses, Img!Ages
  <2>2. Img!NoImage \in ImageRows /\ Img!BuiltImage \in ImageRows
    BY DEF Img!NoImage, Img!BuiltImage, ImageRows, Img!ImageStatuses, Img!Ages
  <2>3. CASE s = [job |-> Img!NoJob, image |-> Img!NoImage]
    BY <2>1, <2>2, <2>3
  <2>4. CASE s = [job |-> Img!BuiltJob, image |-> Img!BuiltImage]
    BY <2>1, <2>2, <2>4
  <2>5. CASE s = [job |-> [Img!BuiltJob EXCEPT !.status = "pending_deletion", !.requested = "fresh"],
                  image |-> [Img!BuiltImage EXCEPT !.status = "pending_deletion"]]
    <3>1. s.job = [Img!BuiltJob EXCEPT !.status = "pending_deletion", !.requested = "fresh"]
          /\ s.image = [Img!BuiltImage EXCEPT !.status = "pending_deletion"]
      BY <2>5
    <3>2. s.job \in JobRows /\ s.job.status # "deleted"
      BY <2>1, <3>1 DEF JobRows, Img!JobStatuses, Img!InDeletion, Img!Ages
    <3>3. s.image \in ImageRows
      BY <2>2, <3>1 DEF ImageRows, Img!ImageStatuses, Img!InDeletion
    <3> QED BY <3>2, <3>3
  <2>6. CASE s = [job |-> [Img!BuiltJob EXCEPT !.status = "delete_failed", !.requested = "old"],
                  image |-> [Img!BuiltImage EXCEPT !.status = "delete_failed"]]
    <3>1. s.job = [Img!BuiltJob EXCEPT !.status = "delete_failed", !.requested = "old"]
          /\ s.image = [Img!BuiltImage EXCEPT !.status = "delete_failed"]
      BY <2>6
    <3>2. s.job \in JobRows /\ s.job.status # "deleted"
      BY <2>1, <3>1 DEF JobRows, Img!JobStatuses, Img!InDeletion, Img!Ages
    <3>3. s.image \in ImageRows
      BY <2>2, <3>1 DEF ImageRows, Img!ImageStatuses, Img!InDeletion
    <3> QED BY <3>2, <3>3
  <2> QED BY <2>3, <2>4, <2>5, <2>6 DEF Img!Situations
<1>3. JobsTyped /\ ImagesTyped /\ \A j \in Jobs : job[j].status # "deleted"
  BY <1>1, <1>2 DEF JobsTyped, ImagesTyped, Img!Items
<1>4. ImageTasksTyped /\ OutcomesTyped /\ TodoTyped
  BY DEF Img!Init, ImageTasksTyped, OutcomesTyped, TodoTyped
<1> QED BY <1>3, <1>4 DEF ImagesInv, Img!DeletedTogether

(* A row that is written.                                                      *)
LEMMA JobWritten ==
  ASSUME JobsTyped, NEW j \in Jobs, NEW e, job' = [job EXCEPT ![j] = e], e \in JobRows
  PROVE  JobsTyped' /\ job'[j] = e /\ \A k \in Jobs : k # j => job'[k] = job[k]
BY DEF JobsTyped

LEMMA ImageWritten ==
  ASSUME ImagesTyped, NEW i, NEW e, image' = [image EXCEPT ![i] = e], i \in Img!Items => e \in ImageRows
  PROVE  /\ ImagesTyped' /\ (i \in Img!Items => image'[i] = e)
         /\ \A k \in Img!Items : k # i => image'[k] = image[k]
BY DEF ImagesTyped

LEMMA TaskCreated ==
  ASSUME ImageTasksTyped, OutcomesTyped, NEW kind \in {"build", "capture", "delete"}, NEW i \in Img!Items,
         kind = "capture" => i \in Captures, UNCHANGED reports,
         imageTask' = Append(imageTask, [kind |-> kind, item |-> i, open |-> TRUE])
  PROVE  ImageTasksTyped' /\ OutcomesTyped'
<1> DEFINE e == [kind |-> kind, item |-> i, open |-> TRUE]
<1>1. e \in ImageTasks /\ e.kind = kind /\ e.item = i
  BY DEF ImageTasks
<1>2. imageTask \in Seq(ImageTasks) /\ imageTask' = Append(imageTask, e)
  BY DEF ImageTasksTyped
<1> HIDE DEF e
<1>3. /\ imageTask' \in Seq(ImageTasks)
      /\ \A t \in DOMAIN imageTask' : (t \in DOMAIN imageTask /\ imageTask'[t] = imageTask[t]) \/ imageTask'[t] = e
      /\ \A t \in DOMAIN imageTask : t \in DOMAIN imageTask'
  BY <1>1, <1>2, Appended, AppendProperties, Elements
<1> QED BY <1>1, <1>3 DEF ImageTasksTyped, OutcomesTyped

LEMMA TaskEnded ==
  ASSUME ImageTasksTyped, NEW t, imageTask' = Img!Ends(t)
  PROVE  ImageTasksTyped' /\ DOMAIN imageTask' = DOMAIN imageTask
<1> DEFINE e == [imageTask[t] EXCEPT !.open = FALSE]
<1>1. imageTask' = [imageTask EXCEPT ![t] = e] /\ imageTask \in Seq(ImageTasks)
  BY DEF Img!Ends, ImageTasksTyped
<1>2. t \in DOMAIN imageTask => e \in ImageTasks /\ e.kind = imageTask[t].kind /\ e.item = imageTask[t].item
  <2>1. t \in DOMAIN imageTask => imageTask[t] \in ImageTasks
    BY <1>1, Elements
  <2> QED BY <2>1 DEF ImageTasks
<1> HIDE DEF e
<1>3. /\ imageTask' \in Seq(ImageTasks) /\ DOMAIN imageTask' = DOMAIN imageTask
      /\ t \in DOMAIN imageTask => imageTask'[t] = e
      /\ \A u \in DOMAIN imageTask : u # t => imageTask'[u] = imageTask[u]
  BY <1>1, <1>2, ShellReplaced
<1> QED BY <1>2, <1>3 DEF ImageTasksTyped

LEMMA OutcomeTaken ==
  ASSUME ImageTasksTyped, OutcomesTyped, NEW j \in Jobs, NEW kind, NEW event, Img!Handles(j, kind, event),
         DOMAIN imageTask' = DOMAIN imageTask
  PROVE  /\ OutcomesTyped' /\ Img!Reported(j) \in DOMAIN imageTask
         /\ imageTask[Img!Reported(j)].kind = kind /\ imageTask[Img!Reported(j)] \in ImageTasks
         /\ imageTask[Img!Reported(j)].item \in Img!Items
<1>1. reports[j] \in Seq(Outcomes) /\ reports[j] # <<>> /\ reports' = [reports EXCEPT ![j] = Tail(reports[j])]
      /\ imageTask[Head(reports[j]).task].kind = kind
  BY DEF OutcomesTyped, Img!Handles
<1>2. /\ Tail(reports[j]) \in Seq(Outcomes) /\ Head(reports[j]) = reports[j][1] /\ 1 \in DOMAIN reports[j]
      /\ \A i \in DOMAIN Tail(reports[j]) : i + 1 \in DOMAIN reports[j] /\ Tail(reports[j])[i] = reports[j][i + 1]
  BY <1>1, Taken
<1>3. Head(reports[j]).task \in DOMAIN imageTask
  BY <1>2 DEF OutcomesTyped
<1>4. imageTask[Head(reports[j]).task] \in ImageTasks
  BY <1>3, Elements DEF ImageTasksTyped
<1>5. /\ reports' \in [Jobs -> Seq(Outcomes)] /\ reports'[j] = Tail(reports[j])
      /\ \A k \in Jobs : k # j => reports'[k] = reports[k]
  BY <1>1, <1>2 DEF OutcomesTyped
<1>6. OutcomesTyped'
  <2> SUFFICES ASSUME NEW k \in Jobs, NEW i \in DOMAIN reports'[k] PROVE reports'[k][i].task \in DOMAIN imageTask
    BY <1>5 DEF OutcomesTyped
  <2>1. CASE k = j
    <3>1. i + 1 \in DOMAIN reports[j] /\ reports'[j][i] = reports[j][i + 1]
      BY <1>2, <1>5, <2>1
    <3> QED BY <2>1, <3>1 DEF OutcomesTyped
  <2>2. CASE k # j
    BY <1>5, <2>2 DEF OutcomesTyped
  <2> QED BY <2>1, <2>2
<1> QED BY <1>1, <1>3, <1>4, <1>6 DEF Img!Reported, ImageTasks

LEMMA OutcomeSent ==
  ASSUME OutcomesTyped, ImageTasksTyped, NEW t \in Img!Tasks, NEW event \in {"progress", "done", "failed"},
         reports' = Img!Report(t, event), imageTask' = imageTask
  PROVE  OutcomesTyped'
<1> DEFINE e == [event |-> event, task |-> t]
           j == Img!At(t)
<1>1. t \in DOMAIN imageTask /\ t \in Nat
  BY Elements DEF Img!Tasks, ImageTasksTyped
<1>2. e \in Outcomes /\ e.task = t
  BY <1>1 DEF Outcomes
<1>3. reports' = [reports EXCEPT ![j] = Append(reports[j], e)] \/ reports' = reports
  BY DEF Img!Report
<1> HIDE DEF e, j
<1>4. CASE reports' = reports
  BY <1>4 DEF OutcomesTyped
<1>5. CASE reports' = [reports EXCEPT ![j] = Append(reports[j], e)] /\ j \in Jobs
  <2>1. /\ Append(reports[j], e) \in Seq(Outcomes)
        /\ \A i \in DOMAIN Append(reports[j], e) :
             (i \in DOMAIN reports[j] /\ Append(reports[j], e)[i] = reports[j][i]) \/ Append(reports[j], e)[i] = e
    BY <1>2, <1>5, Appended DEF OutcomesTyped
  <2>2. /\ reports' \in [Jobs -> Seq(Outcomes)] /\ reports'[j] = Append(reports[j], e)
        /\ \A k \in Jobs : k # j => reports'[k] = reports[k]
    BY <1>5, <2>1 DEF OutcomesTyped
  <2>3. \A i \in DOMAIN reports'[j] : reports'[j][i].task \in DOMAIN imageTask
    BY <1>1, <1>2, <1>5, <2>1, <2>2 DEF OutcomesTyped
  <2>4. \A k \in Jobs : k # j => \A i \in DOMAIN reports'[k] : reports'[k][i].task \in DOMAIN imageTask
    BY <2>2 DEF OutcomesTyped
  <2> QED BY <2>2, <2>3, <2>4 DEF OutcomesTyped
<1>6. CASE reports' = [reports EXCEPT ![j] = Append(reports[j], e)] /\ j \notin Jobs
  BY <1>6 DEF OutcomesTyped
<1> QED BY <1>3, <1>4, <1>5, <1>6

(* The rows of the jobs and the images.                                        *)
RowsTogether == JobsTyped /\ ImagesTyped /\ Img!DeletedTogether
Gone(f) == f.status \in {"none", "deleted", "deleting"}

LEMMA BothWritten ==
  ASSUME RowsTogether, NEW j \in Jobs, NEW e \in JobRows, NEW f \in ImageRows,
         job' = [job EXCEPT ![j] = e], image' = [image EXCEPT ![j] = f], e.status = "deleted" => Gone(f)
  PROVE  RowsTogether'
<1>1. j \in Img!Items /\ \A k \in Jobs : k \in Img!Items
  BY DEF Img!Items
<1>2. JobsTyped' /\ job'[j] = e /\ \A k \in Jobs : k # j => job'[k] = job[k]
  BY JobWritten DEF RowsTogether
<1>3. ImagesTyped' /\ image'[j] = f /\ \A k \in Img!Items : k # j => image'[k] = image[k]
  BY <1>1, ImageWritten DEF RowsTogether
<1> QED BY <1>1, <1>2, <1>3 DEF RowsTogether, Img!DeletedTogether, Gone

LEMMA OneJobWritten ==
  ASSUME RowsTogether, NEW j \in Jobs, NEW e \in JobRows, job' = [job EXCEPT ![j] = e], image' = image,
         e.status # "deleted"
  PROVE  RowsTogether'
<1>1. image[j] \in ImageRows /\ image' = [image EXCEPT ![j] = image[j]]
  BY DEF RowsTogether, ImagesTyped, Img!Items
<1> QED BY <1>1, BothWritten

LEMMA OneImageWritten ==
  ASSUME RowsTogether, NEW i \in Img!Items, NEW f \in ImageRows, job' = job, image' = [image EXCEPT ![i] = f],
         i \in Jobs /\ job[i].status = "deleted" => Gone(f)
  PROVE  RowsTogether'
<1>1. ImagesTyped' /\ image'[i] = f /\ \A k \in Img!Items : k # i => image'[k] = image[k]
  BY ImageWritten DEF RowsTogether
<1> QED BY <1>1 DEF RowsTogether, JobsTyped, Img!DeletedTogether, Gone, Img!Items

LEMMA JobMarks ==
  ASSUME JobsTyped, NEW j \in Jobs, NEW t \in Nat
  PROVE  /\ \E e \in JobRows : e.status = "deleting" /\ Img!JobDeleting(j, t) = [job EXCEPT ![j] = e]
         /\ \E e \in JobRows : e.status = "pending_deletion" /\ Img!JobPendingDeletion(j) = [job EXCEPT ![j] = e]
         /\ \E e \in JobRows : e.status = "deleted" /\ Img!JobDeleted(j) = [job EXCEPT ![j] = e]
         /\ \E e \in JobRows : e.status = "delete_failed" /\ Img!JobDeleteFailed(j) = [job EXCEPT ![j] = e]
<1>0. job \in [Jobs -> JobRows] /\ job[j] \in JobRows /\ Img!Requested(j) \in Img!Ages
  BY DEF JobsTyped, JobRows, Img!Requested, Img!Ages
<1>1. \E e \in JobRows : e.status = "deleting" /\ Img!JobDeleting(j, t) = [job EXCEPT ![j] = e]
  <2> DEFINE e == [job[j] EXCEPT !.status = "deleting", !.del = t, !.requested = Img!Requested(j),
                                 !.updated = "none"]
  <2>1. e \in JobRows /\ e.status = "deleting"
    BY <1>0 DEF JobRows, Img!JobStatuses, Img!InDeletion, Img!Ages
  <2>2. Img!JobDeleting(j, t) = [job EXCEPT ![j] = e]
    BY <1>0 DEF Img!JobDeleting
  <2> HIDE DEF e
  <2> QED BY <2>1, <2>2
<1>2. \E e \in JobRows : e.status = "pending_deletion" /\ Img!JobPendingDeletion(j) = [job EXCEPT ![j] = e]
  <2> DEFINE e == [job[j] EXCEPT !.status = "pending_deletion", !.requested = Img!Requested(j), !.updated = "none"]
  <2>1. e \in JobRows /\ e.status = "pending_deletion"
    BY <1>0 DEF JobRows, Img!JobStatuses, Img!InDeletion, Img!Ages
  <2>2. Img!JobPendingDeletion(j) = [job EXCEPT ![j] = e]
    BY <1>0 DEF Img!JobPendingDeletion
  <2> HIDE DEF e
  <2> QED BY <2>1, <2>2
<1>3. \E e \in JobRows : e.status = "deleted" /\ Img!JobDeleted(j) = [job EXCEPT ![j] = e]
  <2> DEFINE e == [job[j] EXCEPT !.status = "deleted", !.del = 0]
  <2>1. e \in JobRows /\ e.status = "deleted"
    BY <1>0 DEF JobRows, Img!JobStatuses
  <2>2. Img!JobDeleted(j) = [job EXCEPT ![j] = e]
    BY <1>0 DEF Img!JobDeleted
  <2> HIDE DEF e
  <2> QED BY <2>1, <2>2
<1>4. \E e \in JobRows : e.status = "delete_failed" /\ Img!JobDeleteFailed(j) = [job EXCEPT ![j] = e]
  <2> DEFINE e == [job[j] EXCEPT !.status = "delete_failed", !.del = 0]
  <2>1. e \in JobRows /\ e.status = "delete_failed"
    BY <1>0 DEF JobRows, Img!JobStatuses
  <2>2. Img!JobDeleteFailed(j) = [job EXCEPT ![j] = e]
    BY <1>0 DEF Img!JobDeleteFailed
  <2> HIDE DEF e
  <2> QED BY <2>1, <2>2
<1> QED BY <1>1, <1>2, <1>3, <1>4

(* The status of a job and when it was updated.                                *)
Stamped(j, s, u) == [job EXCEPT ![j].status = s, ![j].updated = u]

LEMMA JobSet ==
  ASSUME JobsTyped, NEW j \in Jobs, NEW s \in Img!JobStatuses, NEW u \in Img!Ages
  PROVE  \E e \in JobRows : e.status = s /\ Stamped(j, s, u) = [job EXCEPT ![j] = e]
<1> DEFINE e == [job[j] EXCEPT !.status = s, !.updated = u]
<1>0. job \in [Jobs -> JobRows] /\ job[j] \in JobRows
  BY DEF JobsTyped
<1>1. e \in JobRows /\ e.status = s
  BY <1>0 DEF JobRows
<1>2. Stamped(j, s, u) = [job EXCEPT ![j] = e]
  BY <1>0 DEF Stamped
<1> HIDE DEF e
<1> QED BY <1>1, <1>2

LEMMA ImageMarks ==
  ASSUME ImagesTyped, NEW i \in Img!Items, NEW t \in Nat, NEW s \in Img!ImageStatuses
  PROVE  /\ \E f \in ImageRows : f.status = s /\ Img!Marked(i, s) = [image EXCEPT ![i] = f]
         /\ \E f \in ImageRows : f.status = "deleting" /\ Img!ImageDeleting(i, t) = [image EXCEPT ![i] = f]
         /\ \E f \in ImageRows : f.status = "deleted" /\ Img!ImageDeleted(i) = [image EXCEPT ![i] = f]
         /\ \E f \in ImageRows : f.status = "delete_failed" /\ Img!ImageDeleteFailed(i) = [image EXCEPT ![i] = f]
<1>0. image \in [Img!Items -> ImageRows] /\ image[i] \in ImageRows
  BY DEF ImagesTyped
<1>1. \E f \in ImageRows : f.status = s /\ Img!Marked(i, s) = [image EXCEPT ![i] = f]
  <2> DEFINE f == [image[i] EXCEPT !.status = s]
  <2>1. f \in ImageRows /\ f.status = s
    BY <1>0 DEF ImageRows
  <2>2. Img!Marked(i, s) = [image EXCEPT ![i] = f]
    BY <1>0 DEF Img!Marked
  <2> HIDE DEF f
  <2> QED BY <2>1, <2>2
<1>2. \E f \in ImageRows : f.status = "deleting" /\ Img!ImageDeleting(i, t) = [image EXCEPT ![i] = f]
  <2> DEFINE f == [image[i] EXCEPT !.status = "deleting", !.deleting = t]
  <2>1. f \in ImageRows /\ f.status = "deleting"
    BY <1>0 DEF ImageRows, Img!ImageStatuses, Img!InDeletion
  <2>2. Img!ImageDeleting(i, t) = [image EXCEPT ![i] = f]
    BY <1>0 DEF Img!ImageDeleting
  <2> HIDE DEF f
  <2> QED BY <2>1, <2>2
<1>3. \E f \in ImageRows : f.status = "deleted" /\ Img!ImageDeleted(i) = [image EXCEPT ![i] = f]
  <2> DEFINE f == [image[i] EXCEPT !.status = "deleted", !.deleting = 0]
  <2>1. f \in ImageRows /\ f.status = "deleted"
    BY <1>0 DEF ImageRows, Img!ImageStatuses
  <2>2. Img!ImageDeleted(i) = [image EXCEPT ![i] = f]
    BY <1>0 DEF Img!ImageDeleted
  <2> HIDE DEF f
  <2> QED BY <2>1, <2>2
<1>4. \E f \in ImageRows : f.status = "delete_failed" /\ Img!ImageDeleteFailed(i) = [image EXCEPT ![i] = f]
  <2> DEFINE f == [image[i] EXCEPT !.status = "delete_failed", !.deleting = 0]
  <2>1. f \in ImageRows /\ f.status = "delete_failed"
    BY <1>0 DEF ImageRows, Img!ImageStatuses
  <2>2. Img!ImageDeleteFailed(i) = [image EXCEPT ![i] = f]
    BY <1>0 DEF Img!ImageDeleteFailed
  <2> HIDE DEF f
  <2> QED BY <2>1, <2>2
<1> QED BY <1>1, <1>2, <1>3, <1>4

LEMMA NextTaskTyped == ASSUME ImageTasksTyped PROVE Img!NextTask \in Nat
BY LenProperties DEF ImageTasksTyped, Img!NextTask

(* A build that is triggered, and a job's deletion.                            *)
LEMMA TriggeredTogether ==
  ASSUME RowsTogether, NEW j \in Jobs, NEW tasked \in BOOLEAN,
         job' = [job EXCEPT ![j] = Img!Triggered(j, tasked)], image' = image \/ image' = Img!BuildingImage(j)
  PROVE  RowsTogether'
<1>0. job[j] \in JobRows /\ image[j] \in ImageRows /\ j \in Img!Items
  BY DEF RowsTogether, JobsTyped, ImagesTyped, Img!Items
<1>1. Img!Triggered(j, tasked) \in JobRows /\ Img!Triggered(j, tasked).status = "pending"
  BY <1>0 DEF Img!Triggered, Img!NoJob, JobRows, Img!JobStatuses, Img!Ages
<1>2. CASE image' = image
  BY <1>1, <1>2, OneJobWritten
<1>3. CASE image' = Img!BuildingImage(j)
  <2>1. \E f \in ImageRows : image' = [image EXCEPT ![j] = f]
    <3>1. [Img!NoImage EXCEPT !.status = "building", !.created = "fresh"] \in ImageRows
      BY DEF Img!NoImage, ImageRows, Img!ImageStatuses, Img!Ages
    <3>2. "building" \in Img!ImageStatuses /\ 0 \in Nat
      BY DEF Img!ImageStatuses
    <3>3. \E f \in ImageRows : Img!Marked(j, "building") = [image EXCEPT ![j] = f]
      BY <1>0, <3>2, ImageMarks DEF RowsTogether
    <3> QED BY <1>3, <3>1, <3>3 DEF Img!BuildingImage
  <2> QED BY <1>1, <1>3, <2>1, BothWritten
<1> QED BY <1>2, <1>3

LEMMA DeletionTogether ==
  ASSUME RowsTogether, ImageTasksTyped, NEW j \in Jobs, Img!DeleteBuildJob(j)
  PROVE  RowsTogether'
<1>0. JobsTyped /\ ImagesTyped /\ j \in Img!Items /\ Img!NextTask \in Nat /\ image[j] \in ImageRows
  BY NextTaskTyped DEF RowsTogether, ImagesTyped, Img!Items
<1>1. CASE job' = Img!JobDeleting(j, Img!NextTask) /\ image' = Img!ImageDeleting(j, Img!NextTask)
  <2>1. PICK e \in JobRows : e.status = "deleting" /\ job' = [job EXCEPT ![j] = e]
    BY <1>0, <1>1, JobMarks
  <2>2. PICK f \in ImageRows : image' = [image EXCEPT ![j] = f]
    <3>1. "deleted" \in Img!ImageStatuses
      BY DEF Img!ImageStatuses
    <3> QED BY <1>0, <1>1, <3>1, ImageMarks
  <2> QED BY <2>1, <2>2, BothWritten
<1>2. CASE job' = Img!JobPendingDeletion(j) /\ image' = Img!Marked(j, "pending_deletion")
  <2>1. PICK e \in JobRows : e.status = "pending_deletion" /\ job' = [job EXCEPT ![j] = e]
    BY <1>0, <1>2, JobMarks
  <2>2. PICK f \in ImageRows : image' = [image EXCEPT ![j] = f]
    <3>1. "pending_deletion" \in Img!ImageStatuses
      BY DEF Img!ImageStatuses, Img!InDeletion
    <3> QED BY <1>0, <1>2, <3>1, ImageMarks
  <2> QED BY <2>1, <2>2, BothWritten
<1>3. CASE job' = Img!JobDeleted(j) /\ image' = Img!ImageDropped(j)
  <2>1. PICK e \in JobRows : e.status = "deleted" /\ job' = [job EXCEPT ![j] = e]
    BY <1>0, <1>3, JobMarks
  <2>2. PICK f \in ImageRows : Gone(f) /\ image' = [image EXCEPT ![j] = f]
    <3>1. CASE image[j].status = "none"
      <4>1. image' = [image EXCEPT ![j] = image[j]]
        BY <1>0, <1>3, <3>1 DEF Img!ImageDropped, ImagesTyped
      <4> QED BY <1>0, <3>1, <4>1 DEF Gone
    <3>2. CASE image[j].status # "none"
      <4>1. "deleted" \in Img!ImageStatuses
        BY DEF Img!ImageStatuses
      <4>2. image' = Img!ImageDeleted(j)
        BY <1>3, <3>2 DEF Img!ImageDropped
      <4> QED BY <1>0, <4>1, <4>2, ImageMarks DEF Gone
    <3> QED BY <3>1, <3>2
  <2> QED BY <2>1, <2>2, BothWritten
<1> QED BY <1>1, <1>2, <1>3 DEF Img!DeleteBuildJob

LEMMA RequestsTogether ==
  ASSUME Img!ImagesAssumption, ImagesInv, Img!UserNext \/ Img!Purges PROVE RowsTogether'
<1>0. RowsTogether /\ ImageTasksTyped /\ JobsTyped /\ ImagesTyped /\ Jobs \subseteq Img!Items /\ Captures \subseteq Img!Items
      /\ Img!NextTask \in Nat /\ Jobs \cap Captures = {}
  BY NextTaskTyped DEF Img!ImagesAssumption, ImagesInv, RowsTogether, Img!Items
<1>1. CASE UNCHANGED <<job, image>>
  BY <1>0, <1>1 DEF RowsTogether, JobsTyped, ImagesTyped, Img!DeletedTogether
<1>2. ASSUME NEW j \in Jobs, Img!Triggers(j) PROVE RowsTogether'
  BY <1>0, <1>2, TriggeredTogether DEF Img!Triggers, Img!TriggerBuild
<1>3. ASSUME NEW j \in Jobs, Img!Retires(j) PROVE RowsTogether'
  <2> DEFINE e == [Img!Triggered(j, FALSE) EXCEPT !.status = "deactivated", !.updated = "none"]
  <2>1. e \in JobRows /\ e.status = "deactivated"
    BY <1>0 DEF JobsTyped, Img!Triggered, Img!NoJob, JobRows, Img!JobStatuses, Img!Ages
  <2>2. job' = [job EXCEPT ![j] = e]
    BY <1>3 DEF Img!Retires
  <2> HIDE DEF e
  <2>3. CASE image' = image
    BY <1>0, <2>1, <2>2, <2>3, OneJobWritten
  <2>4. CASE image' = Img!Marked(j, "retired")
    <3>1. "retired" \in Img!ImageStatuses /\ 0 \in Nat
      BY DEF Img!ImageStatuses
    <3>2. \E f \in ImageRows : image' = [image EXCEPT ![j] = f]
      BY <1>0, <2>4, <3>1, ImageMarks
    <3> QED BY <1>0, <2>1, <2>2, <3>2, BothWritten
  <2> QED BY <1>3, <2>3, <2>4 DEF Img!Retires
<1>4. ASSUME NEW j \in Jobs, Img!DeactivatesJob(j) PROVE RowsTogether'
  <2>1. "deactivated" \in Img!JobStatuses /\ "none" \in Img!Ages
    BY DEF Img!JobStatuses, Img!Ages
  <2>2. PICK e \in JobRows : e.status = "deactivated" /\ job' = [job EXCEPT ![j] = e]
    <3>1. job' = Stamped(j, "deactivated", "none")
      BY <1>4 DEF Img!DeactivatesJob, Stamped
    <3> QED BY <1>0, <2>1, <3>1, JobSet
  <2> QED BY <1>0, <1>4, <2>2, OneJobWritten DEF Img!DeactivatesJob
<1>5. ASSUME NEW j \in Jobs, Img!ActivatesJob(j) PROVE RowsTogether'
  <2>1. "active" \in Img!JobStatuses /\ "none" \in Img!Ages /\ "ready" \in Img!ImageStatuses /\ 0 \in Nat
    BY DEF Img!JobStatuses, Img!Ages, Img!ImageStatuses
  <2>2. PICK e \in JobRows : e.status = "active" /\ job' = [job EXCEPT ![j] = e]
    <3>1. job' = Stamped(j, "active", "none")
      BY <1>5 DEF Img!ActivatesJob, Stamped
    <3> QED BY <1>0, <2>1, <3>1, JobSet
  <2>3. CASE image' = image
    BY <1>0, <2>2, <2>3, OneJobWritten
  <2>4. CASE image' = Img!Marked(j, "ready")
    <3>1. \E f \in ImageRows : image' = [image EXCEPT ![j] = f]
      BY <1>0, <2>1, <2>4, ImageMarks
    <3> QED BY <1>0, <2>2, <3>1, BothWritten
  <2> QED BY <1>5, <2>3, <2>4 DEF Img!ActivatesJob
<1>6. ASSUME NEW j \in Jobs, Img!DeletesJob(j) \/ Img!PurgesJob(j) PROVE RowsTogether'
  BY <1>0, <1>1, <1>6, DeletionTogether DEF Img!DeletesJob, Img!PurgesJob, Img!rowVars
<1>7. ASSUME NEW c \in Captures, Img!Captured(c) \/ Img!DeletesCapture(c) PROVE RowsTogether'
  <2>1. [Img!NoImage EXCEPT !.status = "capturing", !.created = "fresh"] \in ImageRows
    BY DEF Img!NoImage, ImageRows, Img!ImageStatuses, Img!Ages
  <2>2. "pending_deletion" \in Img!ImageStatuses
    BY DEF Img!ImageStatuses, Img!InDeletion
  <2>3. \E f \in ImageRows : image' = [image EXCEPT ![c] = f]
    BY <1>0, <1>7, <2>1, <2>2, ImageMarks DEF Img!Captured, Img!DeletesCapture
  <2>4. job' = job
    BY <1>7 DEF Img!Captured, Img!DeletesCapture
  <2> QED BY <1>0, <2>3, <2>4, OneImageWritten
<1>8. CASE \/ \E i \in Img!Items : Img!UsesImage(i) \/ Img!LeavesImage(i)
           \/ Img!DeletesDefinition \/ Img!DeactivatesDefinition \/ Img!ActivatesDefinition \/ Img!PurgeEnds
  BY <1>1, <1>8 DEF Img!UsesImage, Img!LeavesImage, Img!DeletesDefinition, Img!DeactivatesDefinition,
                    Img!ActivatesDefinition, Img!PurgeEnds, Img!rowVars
<1> QED BY <1>2, <1>3, <1>4, <1>5, <1>6, <1>7, <1>8 DEF Img!UserNext, Img!Purges

LEMMA HandlersTogether ==
  ASSUME Img!ImagesAssumption, ImagesInv, Img!HandlerNext PROVE RowsTogether'
<1>0. RowsTogether /\ ImageTasksTyped /\ OutcomesTyped /\ JobsTyped /\ ImagesTyped /\ Jobs \subseteq Img!Items
      /\ Jobs \cap Captures = {} /\ \A i \in Captures : i \in Img!Items
  BY DEF Img!ImagesAssumption, ImagesInv, RowsTogether, Img!Items
<1>1. \A i \in Jobs : job[i] \in JobRows
  BY <1>0 DEF JobsTyped
<1>2. {"building", "active", "failed", "deleted"} \subseteq Img!JobStatuses /\ {"none", "fresh"} \subseteq Img!Ages
      /\ {"ready", "failed", "deleted"} \subseteq Img!ImageStatuses /\ 0 \in Nat
  BY DEF Img!JobStatuses, Img!Ages, Img!ImageStatuses
<1>3. ASSUME NEW j \in Jobs, Img!OnProgress(j) PROVE RowsTogether'
  <2>1. job' = Stamped(j, "building", "fresh") /\ image' = image
    BY <1>3 DEF Img!OnProgress, Stamped
  <2>2. \E e \in JobRows : e.status = "building" /\ job' = [job EXCEPT ![j] = e]
    BY <1>0, <1>2, <2>1, JobSet
  <2> QED BY <1>0, <2>1, <2>2, OneJobWritten
<1>4. ASSUME NEW j \in Jobs, Img!OnBuilt(j) PROVE RowsTogether'
  <2> DEFINE e == [job[j] EXCEPT !.status = "active", !.built = TRUE, !.updated = "none"]
             f == [image[j] EXCEPT !.status = "ready", !.ref = TRUE]
  <2>1. e \in JobRows /\ e.status = "active"
    BY <1>1, <1>2 DEF JobRows
  <2>2. f \in ImageRows
    BY <1>0, <1>2 DEF ImagesTyped, ImageRows
  <2>3. job' = [job EXCEPT ![j] = e] /\ image' = [image EXCEPT ![j] = f]
    <3>1. job \in [Jobs -> JobRows] /\ image \in [Img!Items -> ImageRows] /\ j \in Img!Items
      BY <1>0 DEF JobsTyped, ImagesTyped
    <3>2. job' = [job EXCEPT ![j].status = "active", ![j].built = TRUE, ![j].updated = "none"]
      BY <1>4 DEF Img!OnBuilt
    <3>3. image' = [image EXCEPT ![j].status = "ready", ![j].ref = TRUE]
      BY <1>4 DEF Img!OnBuilt
    <3>4. job' = [job EXCEPT ![j] = e]
      BY <3>1, <3>2
    <3>5. image' = [image EXCEPT ![j] = f]
      BY <3>1, <3>3
    <3> QED BY <3>4, <3>5
  <2> HIDE DEF e, f
  <2> QED BY <1>0, <2>1, <2>2, <2>3, BothWritten
<1>5. ASSUME NEW j \in Jobs, Img!OnBuildFailed(j) PROVE RowsTogether'
  <2>1. job' = Stamped(j, "failed", "none") /\ image' = Img!Marked(j, "failed")
    BY <1>5 DEF Img!OnBuildFailed, Stamped
  <2>2. \E e \in JobRows : e.status = "failed" /\ job' = [job EXCEPT ![j] = e]
    BY <1>0, <1>2, <2>1, JobSet
  <2>3. \E f \in ImageRows : image' = [image EXCEPT ![j] = f]
    BY <1>0, <1>2, <2>1, ImageMarks
  <2> QED BY <1>0, <2>2, <2>3, BothWritten
<1>6. ASSUME NEW j \in Jobs, Img!OnCaptured(j) \/ Img!OnCaptureFailed(j) PROVE RowsTogether'
  <2> DEFINE c == imageTask[Img!Reported(j)].item
  <2>1. \E event : Img!Handles(j, "capture", event)
    BY <1>6 DEF Img!OnCaptured, Img!OnCaptureFailed
  <2>2. imageTask' = imageTask /\ job' = job
    BY <1>6 DEF Img!OnCaptured, Img!OnCaptureFailed
  <2>3. c \in Captures
    BY <1>0, <2>1, <2>2, OutcomeTaken DEF ImageTasksTyped
  <2>4. PICK k \in Captures : k = c
    BY <2>3
  <2> HIDE DEF c
  <2>5. image[k] \in ImageRows /\ image \in [Img!Items -> ImageRows] /\ k \in Img!Items
    BY <1>0 DEF ImagesTyped
  <2>6. \E f \in ImageRows : image' = [image EXCEPT ![k] = f]
    <3>1. CASE Img!OnCaptured(j)
      <4> DEFINE f == [image[k] EXCEPT !.status = "ready", !.ref = TRUE]
      <4>1. f \in ImageRows
        BY <1>2, <2>5 DEF ImageRows
      <4>2. image' = [image EXCEPT ![k] = f]
        BY <2>4, <3>1 DEF Img!OnCaptured, c
      <4> HIDE DEF f
      <4> QED BY <4>1, <4>2
    <3>2. CASE Img!OnCaptureFailed(j)
      <4>1. image' = image \/ image' = Img!Marked(k, "failed")
        BY <2>4, <3>2 DEF Img!OnCaptureFailed, c
      <4>2. CASE image' = image
        <5>1. image' = [image EXCEPT ![k] = image[k]]
          BY <2>5, <4>2
        <5> QED BY <2>5, <5>1
      <4>3. CASE image' = Img!Marked(k, "failed")
        BY <1>0, <1>2, <2>5, <4>3, ImageMarks
      <4> QED BY <4>1, <4>2, <4>3
    <3> QED BY <1>6, <3>1, <3>2
  <2> QED BY <1>0, <2>2, <2>5, <2>6, OneImageWritten
<1>7. ASSUME NEW j \in Jobs, Img!OnDeleted(j) PROVE RowsTogether'
  <2>1. /\ Img!Handles(j, "delete", "done") /\ imageTask' = Img!Ends(Img!Reported(j)) /\ job' = job
        /\ image' = Img!ImageDeleted(imageTask[Img!Reported(j)].item)
    BY <1>7 DEF Img!OnDeleted
  <2>2. DOMAIN imageTask' = DOMAIN imageTask
    BY <1>0, <2>1, TaskEnded
  <2>3. PICK i \in Img!Items : i = imageTask[Img!Reported(j)].item
    BY <1>0, <2>1, <2>2, OutcomeTaken
  <2>4. \E f \in ImageRows : f.status = "deleted" /\ image' = [image EXCEPT ![i] = f]
    BY <1>0, <1>2, <2>1, <2>3, ImageMarks
  <2> QED BY <1>0, <2>1, <2>4, OneImageWritten DEF Gone
<1>8. ASSUME NEW t, Img!OnJobDeleted(t) PROVE RowsTogether'
  <2>1. CASE UNCHANGED <<job, image>>
    BY <1>0, <2>1 DEF RowsTogether, JobsTyped, ImagesTyped, Img!DeletedTogether
  <2>2. ASSUME NEW j \in Jobs, job' = Img!JobDeleted(j), image' = Img!ImageDeleted(j) PROVE RowsTogether'
    <3>1. \E e \in JobRows : job' = [job EXCEPT ![j] = e]
      BY <1>0, <1>2, <2>2, JobMarks
    <3>2. \E f \in ImageRows : f.status = "deleted" /\ image' = [image EXCEPT ![j] = f]
      BY <1>0, <1>2, <2>2, ImageMarks
    <3> QED BY <1>0, <3>1, <3>2, BothWritten DEF Gone
  <2> QED BY <1>8, <2>1, <2>2 DEF Img!OnJobDeleted, Img!DeletedBy
<1>9. ASSUME NEW j \in Jobs, Img!OnDeleteFailed(j) PROVE RowsTogether'
  <2> DEFINE images == {i \in Img!Items : image[i].deleting = Img!Reported(j)}
             builds == IF images # {} THEN images \cap Jobs ELSE Img!DeletedBy(Img!Reported(j))
  <2>1. /\ image' = [i \in Img!Items |-> IF i \in images THEN Img!ImageDeleteFailed(i)[i] ELSE image[i]]
        /\ job' = [b \in Jobs |-> IF b \in builds THEN Img!JobDeleteFailed(b)[b] ELSE job[b]]
    BY <1>9 DEF Img!OnDeleteFailed
  <2>2. \A b \in Jobs : b \in images => b \in builds
    OBVIOUS
  <2> HIDE DEF images, builds
  <2>3. \A i \in Img!Items : Img!ImageDeleteFailed(i)[i] \in ImageRows
    BY <1>0, <1>2, ImageMarks DEF ImagesTyped
  <2>4. \A b \in Jobs : Img!JobDeleteFailed(b)[b] \in JobRows /\ Img!JobDeleteFailed(b)[b].status = "delete_failed"
    BY <1>0, <1>2, JobMarks DEF JobsTyped
  <2>5. JobsTyped' /\ ImagesTyped'
    BY <1>0, <2>1, <2>3, <2>4 DEF JobsTyped, ImagesTyped
  <2>6. Img!DeletedTogether'
    BY <1>0, <2>1, <2>2, <2>4 DEF Img!DeletedTogether, RowsTogether
  <2> QED BY <2>5, <2>6 DEF RowsTogether
<1> QED BY <1>3, <1>4, <1>5, <1>6, <1>7, <1>8, <1>9 DEF Img!HandlerNext

LEMMA SweepTogether ==
  ASSUME RowsTogether, Img!SweepRows PROVE RowsTogether'
<1>0. JobsTyped /\ ImagesTyped /\ Img!DeletedTogether /\ \A j \in Jobs : j \in Img!Items
  BY DEF RowsTogether, Img!Items
<1>1. /\ job' = [j \in Jobs |-> Img!SweptJob(j)] /\ image' = [i \in Img!Items |-> Img!SweptImage(i)]
  BY DEF Img!SweepRows
<1>2. ASSUME NEW j \in Jobs
      PROVE  /\ Img!SweptJob(j) \in JobRows
             /\ Img!SweptJob(j).status = "deleted" =>
                  job[j].status = "deleted" /\ ~Img!StaleBuild(j) /\ ~Img!StaleDelete(j)
  <2>1. job[j] \in JobRows
    BY <1>0 DEF JobsTyped
  <2>2. [job[j] EXCEPT !.status = "failed", !.updated = "none"] \in JobRows
        /\ [job[j] EXCEPT !.status = "failed", !.updated = "none"].status = "failed"
    BY <2>1 DEF JobRows, Img!JobStatuses, Img!Ages
  <2>3. Img!JobDeleteFailed(j)[j] \in JobRows /\ Img!JobDeleteFailed(j)[j].status = "delete_failed"
    <3>1. 0 \in Nat
      OBVIOUS
    <3> QED BY <1>0, <3>1, JobMarks DEF JobsTyped
  <2>4. CASE Img!StaleBuild(j)
    BY <2>2, <2>4 DEF Img!SweptJob
  <2>5. CASE ~Img!StaleBuild(j) /\ Img!StaleDelete(j)
    BY <2>3, <2>5 DEF Img!SweptJob
  <2>6. CASE ~Img!StaleBuild(j) /\ ~Img!StaleDelete(j)
    BY <2>1, <2>6 DEF Img!SweptJob
  <2> QED BY <2>4, <2>5, <2>6
<1>3. ASSUME NEW i \in Img!Items
      PROVE  /\ Img!SweptImage(i) \in ImageRows
             /\ i \in Jobs /\ ~Img!StaleBuild(i) /\ ~Img!StaleDelete(i) => Img!SweptImage(i) = image[i]
  <2>1. image[i] \in ImageRows /\ 0 \in Nat /\ "failed" \in Img!ImageStatuses
    BY <1>0 DEF ImagesTyped, Img!ImageStatuses
  <2>2. Img!Marked(i, "failed")[i] \in ImageRows /\ Img!ImageDeleteFailed(i)[i] \in ImageRows
    BY <1>0, <2>1, ImageMarks DEF ImagesTyped
  <2> QED BY <2>1, <2>2 DEF Img!SweptImage
<1>4. JobsTyped' /\ ImagesTyped'
  BY <1>1, <1>2, <1>3 DEF JobsTyped, ImagesTyped
<1>5. Img!DeletedTogether'
  BY <1>0, <1>1, <1>2, <1>3 DEF Img!DeletedTogether
<1> QED BY <1>4, <1>5 DEF RowsTogether

LEMMA RegistrationsTogether ==
  ASSUME ImagesInv, Img!RegisterNext PROVE RowsTogether'
<1>0. RowsTogether /\ ImageTasksTyped /\ TodoTyped /\ JobsTyped /\ ImagesTyped /\ Jobs \subseteq Img!Items
      /\ Img!NextTask \in Nat /\ "deleted" \in Img!ImageStatuses
  BY NextTaskTyped DEF ImagesInv, RowsTogether, Img!Items, Img!ImageStatuses
<1>1. CASE UNCHANGED <<job, image>>
  BY <1>0, <1>1 DEF RowsTogether, JobsTyped, ImagesTyped, Img!DeletedTogether
<1>2. ASSUME NEW j \in Jobs, Img!Registers(j) PROVE RowsTogether'
  BY <1>0, <1>2, SweepTogether DEF Img!Registers
<1>3. ASSUME NEW j \in Jobs, Img!DispatchesBuild(j) PROVE RowsTogether'
  BY <1>0, <1>1, <1>3, TriggeredTogether DEF Img!DispatchesBuild
<1>4. ASSUME NEW j \in Jobs, NEW i \in owed[j], Img!DispatchesImage(j, i) PROVE RowsTogether'
  <2>1. i \in Img!Items /\ job' = job
    BY <1>0, <1>4 DEF TodoTyped, Img!DispatchesImage
  <2>2. image[i].deleting \in Nat
    BY <1>0, <2>1 DEF ImagesTyped, ImageRows
  <2>3. CASE image' = image
    BY <1>1, <2>1, <2>3
  <2>4. ASSUME NEW t \in Nat, image' = Img!ImageDeleting(i, t) PROVE RowsTogether'
    <3>1. \E f \in ImageRows : f.status = "deleting" /\ image' = [image EXCEPT ![i] = f]
      BY <1>0, <2>1, <2>4, ImageMarks
    <3> QED BY <1>0, <2>1, <3>1, OneImageWritten DEF Gone
  <2> QED BY <1>0, <1>4, <2>2, <2>3, <2>4 DEF Img!DispatchesImage
<1>5. ASSUME NEW j \in Jobs, Img!DispatchesJob(j) PROVE RowsTogether'
  <2>1. job[j].del \in Nat
    BY <1>0 DEF JobsTyped, JobRows
  <2>2. ASSUME NEW t \in Nat, job' = Img!JobDeleting(j, t), image' = Img!ImageDeleting(j, t) PROVE RowsTogether'
    <3>1. \E e \in JobRows : e.status = "deleting" /\ job' = [job EXCEPT ![j] = e]
      BY <1>0, <2>2, JobMarks
    <3>2. \E f \in ImageRows : f.status = "deleting" /\ image' = [image EXCEPT ![j] = f]
      BY <1>0, <2>2, ImageMarks
    <3> QED BY <1>0, <3>1, <3>2, BothWritten
  <2> QED BY <1>0, <1>1, <1>5, <2>1, <2>2 DEF Img!DispatchesJob, Img!rowVars
<1> QED BY <1>2, <1>3, <1>4, <1>5 DEF Img!RegisterNext

LEMMA AgesTogether ==
  ASSUME RowsTogether, Img!HourPasses \/ Img!SweepsImages PROVE RowsTogether'
<1>0. JobsTyped /\ ImagesTyped /\ Img!DeletedTogether /\ \A j \in Jobs : j \in Img!Items
  BY DEF RowsTogether, Img!Items
<1>1. CASE Img!HourPasses
  <2>1. ASSUME NEW a \in Img!Ages PROVE Img!Older(a) \in Img!Ages
    BY <2>1 DEF Img!Older, Img!Ages
  <2>2. ASSUME NEW j \in Jobs
        PROVE  /\ [job[j] EXCEPT !.updated = Img!Older(job[j].updated),
                                 !.requested = Img!Older(job[j].requested)] \in JobRows
               /\ [job[j] EXCEPT !.updated = Img!Older(job[j].updated),
                                 !.requested = Img!Older(job[j].requested)].status = job[j].status
    <3>1. job[j] \in JobRows
      BY <1>0 DEF JobsTyped
    <3>2. Img!Older(job[j].updated) \in Img!Ages /\ Img!Older(job[j].requested) \in Img!Ages
      BY <2>1, <3>1 DEF JobRows
    <3> QED BY <3>1, <3>2 DEF JobRows
  <2>3. ASSUME NEW i \in Img!Items
        PROVE  /\ [image[i] EXCEPT !.created = Img!Older(image[i].created)] \in ImageRows
               /\ [image[i] EXCEPT !.created = Img!Older(image[i].created)].status = image[i].status
    <3>1. image[i] \in ImageRows
      BY <1>0 DEF ImagesTyped
    <3>2. Img!Older(image[i].created) \in Img!Ages
      BY <2>1, <3>1 DEF ImageRows
    <3> QED BY <3>1, <3>2 DEF ImageRows
  <2>4. /\ job' = [j \in Jobs |-> [job[j] EXCEPT !.updated = Img!Older(job[j].updated),
                                                 !.requested = Img!Older(job[j].requested)]]
        /\ image' = [i \in Img!Items |-> [image[i] EXCEPT !.created = Img!Older(image[i].created)]]
    BY <1>1 DEF Img!HourPasses
  <2>5. JobsTyped' /\ \A j \in Jobs : job'[j].status = job[j].status
    BY <2>2, <2>4 DEF JobsTyped
  <2>6. ImagesTyped' /\ \A i \in Img!Items : image'[i].status = image[i].status
    BY <2>3, <2>4 DEF ImagesTyped
  <2> QED BY <1>0, <2>5, <2>6 DEF RowsTogether, Img!DeletedTogether
<1>2. CASE Img!SweepsImages
  <2>1. "failed" \in Img!ImageStatuses /\ 0 \in Nat
    BY DEF Img!ImageStatuses
  <2>2. \A i \in Img!Items : Img!Marked(i, "failed")[i] \in ImageRows /\ image[i] \in ImageRows
    BY <1>0, <2>1, ImageMarks DEF ImagesTyped
  <2>3. /\ image' = [i \in Img!Items |->
                       IF image[i].status \in {"building", "capturing"} /\ image[i].created = "old"
                       THEN Img!Marked(i, "failed")[i] ELSE image[i]]
        /\ job' = job
    BY <1>2 DEF Img!SweepsImages
  <2>4. ImagesTyped' /\ JobsTyped'
    BY <1>0, <2>2, <2>3 DEF ImagesTyped, JobsTyped
  <2>5. Img!DeletedTogether'
    BY <1>0, <2>3 DEF Img!DeletedTogether
  <2> QED BY <2>4, <2>5 DEF RowsTogether
<1> QED BY <1>1, <1>2

LEMMA ImagesMove ==
  ASSUME Img!ImagesAssumption, ImagesInv, [Img!Next]_(Img!vars) PROVE RowsTogether'
<1>0. RowsTogether
  BY DEF ImagesInv, RowsTogether
<1>1. CASE UNCHANGED <<job, image>>
  BY <1>0, <1>1 DEF RowsTogether, JobsTyped, ImagesTyped, Img!DeletedTogether
<1>2. CASE Img!Sweeps
  BY <1>0, <1>2, SweepTogether DEF Img!Sweeps
<1>3. CASE Img!RunnerNext \/ (\E t \in Img!Tasks : Img!Progress(t)) \/ (\E j \in Jobs : Img!Drops(j))
  BY <1>1, <1>3 DEF Img!RunnerNext, Img!Receives, Img!WorkDone, Img!WorkFails, Img!Progress, Img!Drops, Img!rowVars
<1>4. CASE UNCHANGED Img!vars
  BY <1>1, <1>4 DEF Img!vars, Img!rowVars
<1> QED BY <1>0, <1>2, <1>3, <1>4, RequestsTogether, HandlersTogether, RegistrationsTogether, AgesTogether
        DEF Img!Next

(* The tasks and what is reported of them.                                     *)
LEMMA TasksMove ==
  ASSUME Img!ImagesAssumption, ImagesInv, [Img!Next]_(Img!vars) PROVE ImageTasksTyped' /\ OutcomesTyped' /\ TodoTyped'
<1>0. ImageTasksTyped /\ OutcomesTyped /\ TodoTyped /\ JobsTyped /\ Jobs \subseteq Img!Items /\ Captures \subseteq Img!Items
  BY DEF ImagesInv, Img!Items
<1>1. ASSUME UNCHANGED <<imageTask, reports>> PROVE ImageTasksTyped' /\ OutcomesTyped'
  BY <1>0, <1>1 DEF ImageTasksTyped, OutcomesTyped
<1>2. ASSUME UNCHANGED owed PROVE TodoTyped'
  BY <1>0, <1>2 DEF TodoTyped
<1>3. ASSUME NEW kind \in {"build", "delete", "capture"}, NEW i \in Img!Items, kind = "capture" => i \in Captures,
             Img!Dispatches(kind, i), UNCHANGED reports
      PROVE  ImageTasksTyped' /\ OutcomesTyped'
  BY <1>0, <1>3, TaskCreated DEF Img!Dispatches
<1>4. ASSUME NEW j \in Jobs, Img!DeleteBuildJob(j), UNCHANGED reports PROVE ImageTasksTyped' /\ OutcomesTyped'
  BY <1>0, <1>1, <1>3, <1>4 DEF Img!DeleteBuildJob
<1>5. CASE Img!UserNext
  <2>1. owed' = owed /\ reports' = reports
    BY <1>5 DEF Img!UserNext, Img!Triggers, Img!TriggerBuild, Img!Retires, Img!DeactivatesJob, Img!ActivatesJob,
       Img!DeletesJob, Img!Captured, Img!DeletesCapture, Img!UsesImage, Img!LeavesImage, Img!DeletesDefinition,
       Img!DeactivatesDefinition, Img!ActivatesDefinition, Img!runnerVars
  <2>2. ASSUME NEW j \in Jobs, Img!Triggers(j) PROVE ImageTasksTyped' /\ OutcomesTyped'
    BY <1>0, <1>1, <1>3, <2>1, <2>2 DEF Img!Triggers, Img!TriggerBuild
  <2>3. ASSUME NEW j \in Jobs, Img!DeletesJob(j) PROVE ImageTasksTyped' /\ OutcomesTyped'
    BY <1>4, <2>1, <2>3 DEF Img!DeletesJob
  <2>4. ASSUME NEW c \in Captures, Img!Captured(c) PROVE ImageTasksTyped' /\ OutcomesTyped'
    BY <1>0, <1>3, <2>1, <2>4 DEF Img!Captured
  <2>5. ASSUME NEW c \in Captures, Img!DeletesCapture(c) PROVE ImageTasksTyped' /\ OutcomesTyped'
    <3>1. CASE imageTask' = imageTask
      BY <1>1, <2>1, <3>1
    <3>2. CASE imageTask' = Append(imageTask, [kind |-> "delete", item |-> c, open |-> TRUE])
      BY <1>0, <2>1, <3>2, TaskCreated
    <3> QED BY <2>5, <3>1, <3>2 DEF Img!DeletesCapture, Img!Dispatches
  <2>6. CASE \/ \E j \in Jobs : Img!Retires(j) \/ Img!DeactivatesJob(j) \/ Img!ActivatesJob(j)
             \/ \E i \in Img!Items : Img!UsesImage(i) \/ Img!LeavesImage(i)
             \/ Img!DeletesDefinition \/ Img!DeactivatesDefinition \/ Img!ActivatesDefinition
    <3>1. imageTask' = imageTask
      <4>1. ASSUME NEW i \in Img!Items, Img!UsesImage(i) \/ Img!LeavesImage(i) PROVE imageTask' = imageTask
        BY <4>1 DEF Img!UsesImage, Img!LeavesImage, Img!rowVars
      <4>2. ASSUME NEW j \in Jobs, Img!Retires(j) \/ Img!DeactivatesJob(j) \/ Img!ActivatesJob(j)
            PROVE  imageTask' = imageTask
        BY <4>2 DEF Img!Retires, Img!DeactivatesJob, Img!ActivatesJob
      <4>3. ASSUME Img!DeletesDefinition \/ Img!DeactivatesDefinition \/ Img!ActivatesDefinition
            PROVE  imageTask' = imageTask
        BY <4>3 DEF Img!DeletesDefinition, Img!DeactivatesDefinition, Img!ActivatesDefinition
      <4> QED BY <2>6, <4>1, <4>2, <4>3
    <3> QED BY <1>1, <1>2, <2>1, <3>1
  <2> QED BY <1>2, <1>5, <2>1, <2>2, <2>3, <2>4, <2>5, <2>6 DEF Img!UserNext
<1>6. CASE Img!Purges
  BY <1>1, <1>2, <1>4, <1>6 DEF Img!Purges, Img!PurgesJob, Img!PurgeEnds, Img!rowVars, Img!runnerVars
<1>7. CASE Img!RunnerNext \/ \E t \in Img!Tasks : Img!Progress(t)
  <2>1. imageTask' = imageTask /\ owed' = owed
    BY <1>7 DEF Img!RunnerNext, Img!Receives, Img!WorkDone, Img!WorkFails, Img!Progress, Img!rowVars
  <2>2. PICK t \in Img!Tasks, event \in {"progress", "done", "failed"} :
          reports' = Img!Report(t, event) \/ reports' = reports
    BY <1>7 DEF Img!RunnerNext, Img!Receives, Img!WorkDone, Img!WorkFails, Img!Progress
  <2>3. ImageTasksTyped'
    BY <1>0, <2>1 DEF ImageTasksTyped
  <2> QED BY <1>0, <1>1, <1>2, <2>1, <2>2, <2>3, OutcomeSent
<1>8. ASSUME NEW j \in Jobs, Img!Drops(j) PROVE ImageTasksTyped' /\ OutcomesTyped' /\ TodoTyped'
  <2>1. imageTask' = imageTask /\ owed' = [owed EXCEPT ![j] = {}] /\ reports' = [reports EXCEPT ![j] = <<>>]
    BY <1>8 DEF Img!Drops, Img!rowVars
  <2>2. ImageTasksTyped' /\ TodoTyped'
    BY <1>0, <2>1 DEF ImageTasksTyped, TodoTyped
  <2>3. /\ reports' \in [Jobs -> Seq(Outcomes)] /\ reports'[j] = <<>>
        /\ \A k \in Jobs : k # j => reports'[k] = reports[k]
    BY <1>0, <2>1 DEF OutcomesTyped
  <2> QED BY <1>0, <2>1, <2>2, <2>3 DEF OutcomesTyped
<1>9. CASE Img!HandlerNext
  <2>1. ASSUME NEW j \in Jobs, NEW kind, NEW event, Img!Handles(j, kind, event),
               imageTask' = imageTask \/ imageTask' = Img!Ends(Img!Reported(j))
        PROVE  ImageTasksTyped' /\ OutcomesTyped' /\ TodoTyped'
    <3>1. ImageTasksTyped' /\ DOMAIN imageTask' = DOMAIN imageTask
      BY <1>0, <2>1, TaskEnded DEF ImageTasksTyped
    <3> QED BY <1>0, <1>2, <2>1, <3>1, OutcomeTaken DEF Img!Handles
  <2>2. ASSUME NEW t \in Img!Tasks, Img!OnJobDeleted(t) PROVE ImageTasksTyped' /\ OutcomesTyped' /\ TodoTyped'
    BY <1>1, <1>2, <2>2 DEF Img!OnJobDeleted, Img!runnerVars
  <2> QED BY <1>9, <2>1, <2>2 DEF Img!HandlerNext, Img!OnProgress, Img!OnBuilt, Img!OnBuildFailed, Img!OnCaptured,
             Img!OnCaptureFailed, Img!OnDeleted, Img!OnDeleteFailed
<1>10. CASE Img!RegisterNext
  <2>1. reports' = reports
    BY <1>10 DEF Img!RegisterNext, Img!Registers, Img!DispatchesBuild, Img!DispatchesJob, Img!DispatchesImage,
                 Img!runnerVars
  <2>2. ASSUME NEW j \in Jobs, Img!Registers(j) PROVE ImageTasksTyped' /\ OutcomesTyped' /\ TodoTyped'
    BY <1>1, <1>2, <2>1, <2>2 DEF Img!Registers, Img!SweepRows
  <2>3. ASSUME NEW j \in Jobs, Img!DispatchesBuild(j) PROVE ImageTasksTyped' /\ OutcomesTyped' /\ TodoTyped'
    <3>1. TodoTyped'
      BY <1>0, <2>3 DEF Img!DispatchesBuild, Img!ToDelete, TodoTyped
    <3> QED BY <1>0, <1>1, <1>3, <2>1, <2>3, <3>1 DEF Img!DispatchesBuild
  <2>4. ASSUME NEW j \in Jobs, Img!DispatchesJob(j) PROVE ImageTasksTyped' /\ OutcomesTyped' /\ TodoTyped'
    BY <1>0, <1>1, <1>2, <1>3, <2>1, <2>4 DEF Img!DispatchesJob, Img!Resends, Img!rowVars
  <2>5. ASSUME NEW j \in Jobs, NEW i \in owed[j], Img!DispatchesImage(j, i)
        PROVE  ImageTasksTyped' /\ OutcomesTyped' /\ TodoTyped'
    <3>1. i \in Img!Items /\ TodoTyped'
      BY <1>0, <2>5 DEF Img!DispatchesImage, TodoTyped
    <3> QED BY <1>0, <1>1, <1>3, <2>1, <2>5, <3>1 DEF Img!DispatchesImage, Img!Resends
  <2> QED BY <1>10, <2>2, <2>3, <2>4, <2>5 DEF Img!RegisterNext
<1>11. CASE Img!HourPasses \/ Img!Sweeps \/ Img!SweepsImages \/ UNCHANGED Img!vars
  BY <1>1, <1>2, <1>11 DEF Img!HourPasses, Img!Sweeps, Img!SweepsImages, Img!vars, Img!rowVars, Img!runnerVars,
                           Img!SweepRows
<1> QED BY <1>5, <1>6, <1>7, <1>8, <1>9, <1>10, <1>11 DEF Img!Next

(* A build job that is shown as deleted has no image left to use: the report   *)
(* of its deletion and the look for its job are two steps of                   *)
(* handle_image_artifact_deleted, and a sweep may come between.                *)
THEOREM ImagesGoWithJobs == Img!ImagesAssumption => (Img!Spec => []Img!DeletedTogether)
<1> SUFFICES ASSUME Img!ImagesAssumption PROVE Img!Spec => []Img!DeletedTogether
  OBVIOUS
<1>1. Img!Init => ImagesInv
  BY ImagesBegin
<1>2. ImagesInv /\ [Img!Next]_(Img!vars) => ImagesInv'
  BY ImagesMove, TasksMove DEF ImagesInv, RowsTogether
<1>3. ImagesInv => Img!DeletedTogether
  BY DEF ImagesInv
<1> QED BY <1>1, <1>2, <1>3, PTL DEF Img!Spec

(* A definition becomes deleted by _check_definition_deletion_complete and     *)
(* delete_image_definition only, and each looks for builds that remain.        *)
THEOREM DefinitionsGoLast == Img!Spec => Img!DeletedLast
<1>1. ASSUME [Img!Next]_(Img!vars), def' = "deleted", def # "deleted"
      PROVE  \A j \in Jobs : job'[j].status \in {"none", "deleted"}
  <2>1. ASSUME NEW d, d # "deleted", NEW js, Img!DefChecked(d, js) = "deleted"
        PROVE  \A j \in Jobs : js[j].status \in {"none", "deleted"}
    BY <2>1 DEF Img!DefChecked, Img!Remaining
  <2>2. Img!DefDeleting # "deleted" /\ Img!DefDeleteFailed # "deleted"
    BY <1>1 DEF Img!DefDeleting, Img!DefDeleteFailed
  <2>3. CASE Img!DeletesDefinition
    BY <1>1, <2>3 DEF Img!DeletesDefinition, Img!Remaining
  <2>4. CASE Img!PurgeEnds
    BY <1>1, <2>1, <2>4 DEF Img!PurgeEnds
  <2>5. ASSUME NEW t, Img!OnJobDeleted(t) PROVE \A j \in Jobs : job'[j].status \in {"none", "deleted"}
    BY <1>1, <2>1, <2>5 DEF Img!OnJobDeleted
  <2>6. ASSUME Img!SweepRows PROVE \A j \in Jobs : job'[j].status \in {"none", "deleted"}
    <3> DEFINE d == IF \E j \in Jobs : Img!StaleDelete(j) THEN Img!DefDeleteFailed ELSE def
    <3>1. d # "deleted"
      BY <1>1, <2>2
    <3>2. def' = Img!DefSwept(d, job')
      BY <2>6 DEF Img!SweepRows
    <3> HIDE DEF d
    <3>3. Img!DefChecked(d, job') = "deleted"
      BY <1>1, <3>2 DEF Img!DefSwept
    <3> QED BY <2>1, <3>1, <3>3
  <2>7. ASSUME NEW j \in Jobs, Img!DeletesJob(j) \/ Img!PurgesJob(j) PROVE FALSE
    BY <1>1, <2>2, <2>7 DEF Img!DeletesJob, Img!PurgesJob, Img!DeleteBuildJob, Img!rowVars
  <2>8. CASE Img!UserNext \/ Img!Purges
    BY <1>1, <2>3, <2>4, <2>7, <2>8 DEF Img!UserNext, Img!Purges, Img!Triggers, Img!TriggerBuild, Img!Retires,
       Img!DeactivatesJob, Img!ActivatesJob, Img!Captured, Img!DeletesCapture, Img!UsesImage, Img!LeavesImage,
       Img!DeactivatesDefinition, Img!ActivatesDefinition, Img!rowVars
  <2>9. CASE Img!HandlerNext
    BY <1>1, <2>2, <2>5, <2>9 DEF Img!HandlerNext, Img!OnProgress, Img!OnBuilt, Img!OnBuildFailed, Img!OnCaptured,
       Img!OnCaptureFailed, Img!OnDeleted, Img!OnDeleteFailed
  <2>10. CASE Img!RegisterNext
    BY <1>1, <2>2, <2>6, <2>10 DEF Img!RegisterNext, Img!Registers, Img!DispatchesBuild, Img!DispatchesJob,
       Img!DispatchesImage, Img!rowVars
  <2>11. CASE \/ Img!RunnerNext \/ Img!HourPasses \/ Img!Sweeps \/ Img!SweepsImages \/ UNCHANGED Img!vars
              \/ (\E t \in Img!Tasks : Img!Progress(t)) \/ (\E j \in Jobs : Img!Drops(j))
    BY <1>1, <2>6, <2>11 DEF Img!RunnerNext, Img!Receives, Img!WorkDone, Img!WorkFails, Img!HourPasses, Img!Sweeps,
       Img!SweepsImages, Img!Progress, Img!Drops, Img!vars, Img!rowVars
  <2> QED BY <1>1, <2>8, <2>9, <2>10, <2>11 DEF Img!Next
<1>2. [Img!Next]_(Img!vars)
      => [def' = "deleted" /\ def # "deleted" => \A j \in Jobs : job'[j].status \in {"none", "deleted"}]_(Img!vars)
  BY <1>1
<1> QED BY <1>2, PTL DEF Img!Spec, Img!DeletedLast
===============================================================================
